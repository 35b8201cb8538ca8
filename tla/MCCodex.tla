------------------------------- MODULE MCCodex -------------------------------
(***************************************************************************)
(* CodexPromises for TLC.                                                  *)
(***************************************************************************)
EXTENDS CodexPromises, TLC

=============================================================================
