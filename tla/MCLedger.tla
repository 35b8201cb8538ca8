------------------------------ MODULE MCLedger ------------------------------
(* Instances of LedgerPromises for TLC. *)
EXTENDS LedgerPromises, TLC

\* Streams are interchangeable, and so are background flushes.
Symmetry == Permutations(Streams) \cup Permutations(Tasks)
=============================================================================
