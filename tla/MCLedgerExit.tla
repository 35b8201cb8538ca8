---------------------------- MODULE MCLedgerExit ----------------------------
(* An instance of LedgerExit for TLC. *)
EXTENDS LedgerExit, TLC

\* Streams are interchangeable.
Symmetry == Permutations(Streams)
=============================================================================
