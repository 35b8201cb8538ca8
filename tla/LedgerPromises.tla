--------------------------- MODULE LedgerPromises ---------------------------
(***************************************************************************)
(* What the ledger promises, stated over Ledger with history variables:    *)
(* accounted, the streams this process has a record to keep for; copied,   *)
(* the records some flush of this process has copied; met, whether two     *)
(* flushes were ever writing at once; refused, whether the disk ever       *)
(* refused a write; unread, whether it ever refused a start the file.      *)
(***************************************************************************)
EXTENDS Ledger

VARIABLES accounted, copied, met, refused, unread

history == <<accounted, copied, met, refused, unread>>
allVars == <<vars, history>>

Recorded == {s \in Streams : records[s] > 0}
Saved == {s \in Streams : file["disk"].state = "whole" /\ file["disk"].data[s] > 0}

\* The flushes between their copy and their rename.
InWriting == {f \in Flushes : at[f] \in {"removing", "creating", "writing", "renaming", "failing"}}

\* The upstream's side of a request that is to be recorded: its stream breaks
\* off after an event, or its terminal event comes with the usage known.
BreaksOff(s) == stream[s].stage = "started" /\ stream'[s].stage = "dropped"
Completes(s) ==
  /\ stream[s].stage \in {"fresh", "started"}
  /\ stream'[s].stage = "terminal" /\ stream'[s].usage

HistoryInit ==
  /\ accounted = {} /\ copied = {}
  /\ met = FALSE /\ refused = FALSE /\ unread = FALSE

HistoryNext ==
  /\ accounted' = IF phase' = "down" THEN {}
                  ELSE accounted \cup {s \in Streams : BreaksOff(s) \/ Completes(s)}
  /\ copied' = IF phase' = "down" THEN {}
               ELSE IF Restart THEN Saved
               ELSE IF \E f \in Flushes : Copy(f) THEN copied \cup Recorded
               ELSE copied
  /\ met' = (met \/ \E f, g \in InWriting' : f # g)
  /\ refused' = (refused \/ \E f \in Flushes : WriteFails(f))
  /\ unread' = (unread \/ (Restart /\ records' # Load))

PromiseInit == Init /\ HistoryInit
PromiseNext == Next /\ HistoryNext
PromiseSpec == PromiseInit /\ [][PromiseNext]_allVars

\* The runtime runs every flush that can go on, its sleep ends after a second,
\* and the call that pushed a record goes on to schedule.
FairSpec ==
  /\ PromiseSpec
  /\ \A f \in Flushes : WF_allVars(Flush(f) /\ HistoryNext)
  /\ \A s \in Streams : WF_allVars(Schedule(s) /\ HistoryNext)

-----------------------------------------------------------------------------

\* "Token counts are recorded once per request": however its events, its end
\* and a hang-up fall, and through restarts, no stream is recorded twice; and
\* every stream that broke off half way in this process, or reached its
\* terminal event in it with known usage, is recorded from then on.
RecordedOnce ==
  \A s \in Streams :
    /\ records[s] <= 1
    /\ s \in accounted => records[s] = 1

\* A record is never forgotten between the request that made it and the flush:
\* until some flush has copied it, one is due, or about to copy, or the call
\* that pushed it is about to schedule one -- also if it was pushed while a
\* flush was clearing the flag, copying or writing.
NothingForgotten ==
  Running => \A s \in Recorded \ copied :
               \/ stream[s].owes
               \/ \E f \in Flushes : at[f] \in {"due", "copying"}

\* What the file holds stays there: no flush, failed write, kill half way
\* through a write or restart takes a record out of it, as long as no two
\* flushes write at once and every start could read the file: one that could
\* not begins with an empty ledger, and its flushes replace the file.
SavedStays == [][~met' /\ ~unread' => Saved \subseteq Saved']_allVars

\* "written to disk a second later": every record gets into the file, unless
\* the process dies, the disk refuses or two flushes collide.
RecordsReachDisk ==
  \A s \in Streams :
    s \in Recorded ~> s \in Saved \/ ~Running \/ refused \/ met
=============================================================================
