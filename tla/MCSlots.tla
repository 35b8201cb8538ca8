------------------------------ MODULE MCSlots ------------------------------
(***************************************************************************)
(* Slots of either provider, managed by two requests at once.              *)
(***************************************************************************)
EXTENDS Slots, TLC

CONSTANTS r1, r2

Symmetry == Permutations(Tasks)
=============================================================================
