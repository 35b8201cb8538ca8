----------------------------- MODULE LedgerExit -----------------------------
(***************************************************************************)
(* What the flush at shutdown is for, stated over Ledger with a history    *)
(* variable: asked, the records made before the signal.                    *)
(***************************************************************************)
EXTENDS Ledger

VARIABLE asked

exitVars == <<vars, asked>>

Recorded == {s \in Streams : records[s] > 0}
Saved == {s \in Streams : file["disk"].state = "whole" /\ file["disk"].data[s] > 0}

\* A disk that takes every write.
ExitNext ==
  /\ Next /\ ~\E f \in Flushes : WriteFails(f)
  /\ asked' = IF Signal THEN Recorded ELSE asked

ExitSpec == Init /\ asked = {} /\ [][ExitNext]_exitVars

\* "take the same path as Ctrl-C so the token ledgers are flushed": a process
\* that exits after its signal leaves the records made before it in the file.
SavedAtExit == [][Exit => asked \subseteq Saved]_exitVars
=============================================================================
