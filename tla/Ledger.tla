------------------------------- MODULE Ledger -------------------------------
(***************************************************************************)
(* ledger.rs: one account's token ledger.  Every response stream carries a *)
(* UsageTracker that records the request once; a record schedules a flush, *)
(* which a second later copies the records and writes the whole file with  *)
(* atomic.rs `write_bytes`: through a temporary whose name is the same for *)
(* every writer of the process.  At a signal main.rs flushes once more and *)
(* the process exits; it may also be killed at any point.                  *)
(*                                                                         *)
(* A record is told apart by its stream only; the counts of tokens, the    *)
(* caller and the partial flag are left out, and no record grows a week    *)
(* old.  The ledger has a path and runs inside the runtime.  A process id  *)
(* may be used again, as in a container: a temporary outlives the process  *)
(* under the same name.                                                    *)
(***************************************************************************)
EXTENDS Integers, FiniteSets

CONSTANTS
  Streams,  \* response streams
  Tasks,    \* bound: background flushes at once
  Main,     \* the flush of the shutdown
  Nobody    \* no flush has the file open

ASSUME LedgerAssumption ==
  /\ Main \notin Tasks
  /\ Nobody \notin Tasks \cup {Main}

VARIABLES
  stream,   \* the tracker of each stream
  records,  \* how often each stream is in `records`
  pending,  \* flush_pending
  at,       \* where each flush is
  copy,     \* the records each flush has copied
  file,     \* the ledger's file and its temporary
  phase     \* the process: "up", "closing" after the signal, "down"

memoryVars == <<stream, records>>
flushVars == <<pending, at, copy>>
vars == <<memoryVars, flushVars, file, phase>>

Flushes == Tasks \cup {Main}
Stages == {"idle", "due", "copying", "removing", "creating", "writing",
           "renaming", "failing"}

\* The locals of a stream: what its tracker has seen, and whether it has
\* pushed a record and not scheduled the flush yet.
Stream ==
  [ stage : {"fresh", "started", "terminal", "dropped"},
    usage : BOOLEAN,
    owes  : BOOLEAN ]

Tracker(stage, usage, owes) == [stage |-> stage, usage |-> usage, owes |-> owes]

\* No stream records more than twice in this model of it: bound.
Records == [Streams -> 0..2]
NoRecords == [s \in Streams |-> 0]

\* A file is torn from its creation until all of it is written; writer still
\* has it open.
Inode ==
  [ state  : {"absent", "torn", "whole"},
    data   : Records,
    writer : Flushes \cup {Nobody} ]

Absent == [state |-> "absent", data |-> NoRecords, writer |-> Nobody]
Created(f) == [state |-> "torn", data |-> NoRecords, writer |-> f]
Whole(data) == [state |-> "whole", data |-> data, writer |-> Nobody]
Closed(inode) == [state |-> inode.state, data |-> inode.data, writer |-> Nobody]

\* `load`: a file that does not parse is an empty ledger.
Load == IF file["disk"].state = "whole" THEN file["disk"].data ELSE NoRecords

Init ==
  /\ stream = [s \in Streams |-> Tracker("fresh", FALSE, FALSE)]
  /\ records = NoRecords
  /\ pending = FALSE
  /\ at = [f \in Flushes |-> "idle"]
  /\ copy = [f \in Flushes |-> NoRecords]
  /\ file = [name \in {"disk", "temp"} |-> Absent]
  /\ phase = "up"

-----------------------------------------------------------------------------
(* Streams: UsageTracker and `record`.                                     *)

Running == phase # "down"

Pushed(s) == [records EXCEPT ![s] = IF @ < 2 THEN @ + 1 ELSE @]

\* Altered: an event after the terminal one is accounted as well.
ObserveOnAndOn(s, usage, last) ==
  /\ Running
  /\ stream[s].stage \in {"fresh", "started", "terminal"} /\ ~stream[s].owes
  /\ LET seen == stream[s].usage \/ usage
         push == last /\ seen
     IN  /\ stream' = [stream EXCEPT
                         ![s] = Tracker(IF last THEN "terminal" ELSE "started", seen, push)]
         /\ records' = IF push THEN Pushed(s) ELSE records
  /\ UNCHANGED <<flushVars, file, phase>>

\* One upstream event: it may carry usage, and it may be a terminal one, which
\* is recorded if the usage is known.
Observe(s, usage, last) ==
  /\ Running
  /\ stream[s].stage \in {"fresh", "started"}
  /\ LET seen == stream[s].usage \/ usage
         push == last /\ seen
     IN  /\ stream' = [stream EXCEPT
                         ![s] = Tracker(IF last THEN "terminal" ELSE "started", seen, push)]
         /\ records' = IF push THEN Pushed(s) ELSE records
  /\ UNCHANGED <<flushVars, file, phase>>

\* Altered: a stream that breaks off is dropped without a record.
DropSilently(s) ==
  /\ Running
  /\ stream[s].stage # "dropped" /\ ~stream[s].owes
  /\ stream' = [stream EXCEPT ![s] = Tracker("dropped", FALSE, FALSE)]
  /\ UNCHANGED <<records, flushVars, file, phase>>

\* The stream ends or its client hangs up: the tracker is dropped with it.
Drop(s) ==
  /\ Running
  /\ stream[s].stage # "dropped" /\ ~stream[s].owes
  /\ LET push == stream[s].stage = "started"
     IN  /\ stream' = [stream EXCEPT ![s] = Tracker("dropped", FALSE, push)]
         /\ records' = IF push THEN Pushed(s) ELSE records
  /\ UNCHANGED <<flushVars, file, phase>>

\* schedule_flush, in the same call as the push but after its lock.
Schedule(s) ==
  /\ Running
  /\ stream[s].owes
  /\ \/ /\ pending
        /\ UNCHANGED <<pending, at>>
     \/ /\ ~pending
        /\ pending' = TRUE
        /\ \E f \in Tasks : at[f] = "idle" /\ at' = [at EXCEPT ![f] = "due"]
  /\ stream' = [stream EXCEPT ![s] = Tracker(@.stage, @.usage, FALSE)]
  /\ UNCHANGED <<records, copy, file, phase>>

-----------------------------------------------------------------------------
(* `flush` and `write_bytes`, one step per lock and per call to the system. *)

Goes(f, stage) == at' = [at EXCEPT ![f] = stage]
Ends(f) == Goes(f, "idle") /\ copy' = [copy EXCEPT ![f] = NoRecords]

\* Altered: the flag stays set, and no later record schedules a flush.
BeginKeepsFlag(f) ==
  /\ at[f] = "due"
  /\ Goes(f, "copying")
  /\ UNCHANGED <<memoryVars, pending, copy, file, phase>>

\* The delay is over; flush clears the flag before it looks at the records.
Begin(f) ==
  /\ at[f] = "due"
  /\ pending' = FALSE
  /\ Goes(f, "copying")
  /\ UNCHANGED <<memoryVars, copy, file, phase>>

Copy(f) ==
  /\ at[f] = "copying"
  /\ copy' = [copy EXCEPT ![f] = records]
  /\ Goes(f, "removing")
  /\ UNCHANGED <<memoryVars, pending, file, phase>>

\* Altered: what an earlier process has left is in the way.
RemoveNothing(f) ==
  /\ at[f] = "removing"
  /\ Goes(f, "creating")
  /\ UNCHANGED <<memoryVars, pending, copy, file, phase>>

\* remove_file: what an earlier process left, or what another flush is writing.
Remove(f) ==
  /\ at[f] = "removing"
  /\ file' = [file EXCEPT !["temp"] = Absent]
  /\ Goes(f, "creating")
  /\ UNCHANGED <<memoryVars, pending, copy, phase>>

\* Altered: the file itself is truncated and written in place.
CreateInPlace(f) ==
  /\ at[f] = "creating"
  /\ file' = [file EXCEPT !["disk"] = Created(f)]
  /\ Goes(f, "writing")
  /\ UNCHANGED <<memoryVars, pending, copy, phase>>

\* create_new fails if another flush has created it in between.
Create(f) ==
  /\ at[f] = "creating"
  /\ \/ /\ file["temp"].state = "absent"
        /\ file' = [file EXCEPT !["temp"] = Created(f)]
        /\ Goes(f, "writing")
     \/ /\ file["temp"].state # "absent"
        /\ Goes(f, "failing")
        /\ UNCHANGED file
  /\ UNCHANGED <<memoryVars, pending, copy, phase>>

\* write_all and sync_all, on the file this flush has open, wherever another
\* flush's rename has put it.
Write(f) ==
  /\ at[f] = "writing"
  /\ file' = [name \in {"disk", "temp"} |->
                IF file[name].writer = f THEN Whole(copy[f]) ELSE file[name]]
  /\ Goes(f, "renaming")
  /\ UNCHANGED <<memoryVars, pending, copy, phase>>

\* Altered: the file stays open after the error.
WriteFailsOpen(f) ==
  /\ at[f] = "writing"
  /\ Goes(f, "failing")
  /\ UNCHANGED <<memoryVars, pending, copy, file, phase>>

\* The disk is full.
WriteFails(f) ==
  /\ at[f] = "writing"
  /\ file' = [name \in {"disk", "temp"} |->
                IF file[name].writer = f THEN Closed(file[name]) ELSE file[name]]
  /\ Goes(f, "failing")
  /\ UNCHANGED <<memoryVars, pending, copy, phase>>

\* The rename takes whatever has the temporary's name.
Rename(f) ==
  /\ at[f] = "renaming"
  /\ \/ /\ file["temp"].state # "absent"
        /\ file' = [disk |-> file["temp"], temp |-> Absent]
        /\ Ends(f)
     \/ /\ file["temp"].state = "absent"
        /\ Goes(f, "failing")
        /\ UNCHANGED <<copy, file>>
  /\ UNCHANGED <<memoryVars, pending, phase>>

\* After an error the temporary is removed, whoever created it.
CleanUp(f) ==
  /\ at[f] = "failing"
  /\ file' = [file EXCEPT !["temp"] = Absent]
  /\ Ends(f)
  /\ UNCHANGED <<memoryVars, pending, phase>>

Flush(f) ==
  \/ Begin(f) \/ Copy(f) \/ Remove(f) \/ Create(f)
  \/ Write(f) \/ WriteFails(f) \/ Rename(f) \/ CleanUp(f)

-----------------------------------------------------------------------------
(* The process.                                                            *)

\* SIGTERM or Ctrl-C: serving stops and `close` flushes in the main task,
\* while the other worker threads go on.
Signal ==
  /\ phase = "up"
  /\ phase' = "closing"
  /\ Goes(Main, "due")
  /\ UNCHANGED <<memoryVars, pending, copy, file>>

\* The process is gone: its open files are closed as they are, its streams end.
Dies ==
  /\ phase' = "down"
  /\ at' = [f \in Flushes |-> "idle"]
  /\ pending' = FALSE
  /\ file' = [name \in {"disk", "temp"} |-> Closed(file[name])]
  /\ stream' = [s \in Streams |->
                  IF stream[s].stage = "fresh" THEN stream[s]
                  ELSE Tracker("dropped", FALSE, FALSE)]
  /\ records' = NoRecords
  /\ copy' = [f \in Flushes |-> NoRecords]

\* close has returned.  The runtime drops the tasks -- a flush that waits for
\* its delay, a stream with its tracker, whose record no flush takes any more
\* -- and waits for the flushes that have begun.
Exit ==
  /\ phase = "closing"
  /\ \A f \in Flushes : at[f] = "idle" \/ (f # Main /\ at[f] = "due")
  /\ Dies

Kill == Running /\ Dies

\* A file that cannot be read is taken for an empty ledger as well.
Restart ==
  /\ phase = "down"
  /\ phase' = "up"
  /\ records' \in {Load, NoRecords}
  /\ UNCHANGED <<stream, flushVars, file>>

Next ==
  \/ \E s \in Streams :
       \/ \E usage, last \in BOOLEAN : Observe(s, usage, last)
       \/ Drop(s) \/ Schedule(s)
  \/ \E f \in Flushes : Flush(f)
  \/ Signal \/ Exit \/ Kill \/ Restart

Spec == Init /\ [][Next]_vars

-----------------------------------------------------------------------------

\* Every variable has its type; a file that is open is one that its flush is
\* still writing.
TypeOK ==
  /\ stream \in [Streams -> Stream]
  /\ records \in Records
  /\ pending \in BOOLEAN
  /\ at \in [Flushes -> Stages]
  /\ copy \in [Flushes -> Records]
  /\ file \in [{"disk", "temp"} -> Inode]
  /\ \A name \in {"disk", "temp"} :
       file[name].writer # Nobody => at[file[name].writer] = "writing"
  /\ phase \in {"up", "closing", "down"}
=============================================================================
