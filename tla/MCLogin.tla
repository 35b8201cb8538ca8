------------------------------- MODULE MCLogin -------------------------------
(* Instances of LoginPromises for TLC. *)
EXTENDS LoginPromises, TLC

\* Calls are interchangeable.
Symmetry == Permutations(Tasks)
=============================================================================
