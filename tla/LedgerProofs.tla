---------------------------- MODULE LedgerProofs ----------------------------
(***************************************************************************)
(* What the ledger promises, proved of PromiseSpec: for any set of streams *)
(* and any number of background flushes at once.                           *)
(*                                                                         *)
(* The inductive invariant follows a record from the tracker to the file:  *)
(* a stream that has not ended is nowhere recorded (CountedOnce), one that *)
(* is to be accounted for is (AccountedIsRecorded), the flag is set only   *)
(* while a flush is due (FlagIsKept), and a flush that writes alone has a  *)
(* copy of all the file holds and the temporary for itself, unless a start *)
(* could not read the file (WritesAlone).                                  *)
(***************************************************************************)
EXTENDS LedgerPromises, TLAPS

Names == {"disk", "temp"}

\* A stream is recorded at most once, and not before its end.
Counted(s, n) ==
  n \in 0..1 /\ (stream[s].stage \in {"fresh", "started"} => n = 0)

CountedOnce ==
  \A s \in Streams :
    /\ Counted(s, records[s])
    /\ \A f \in Flushes : Counted(s, copy[f][s])
    /\ \A name \in Names : Counted(s, file[name].data[s])
    /\ stream[s].owes =>
         records[s] = 1 /\ stream[s].stage \in {"terminal", "dropped"}

FlagIsKept == pending => \E f \in Flushes : at[f] = "due"

\* The main task flushes after the signal only, and nothing goes on in a process
\* that is gone.
Quiet ==
  /\ phase = "up" => at[Main] = "idle"
  /\ phase = "down" => /\ \A f \in Flushes : at[f] = "idle"
                       /\ \A s \in Streams : ~stream[s].owes

WritesAlone ==
  /\ \A f, g \in InWriting : f = g
  /\ file["disk"].writer = Nobody
  /\ Running => Saved \subseteq Recorded
  /\ \A f \in InWriting :
       /\ \A s \in Saved : copy[f][s] > 0
       /\ Running => \A s \in Streams : copy[f][s] > 0 => s \in Recorded
       /\ at[f] = "writing" => file["temp"].writer = f
       /\ at[f] = "renaming" => file["temp"] = Whole(copy[f])

\* What is accounted for is recorded, and its stream is past recording again.
AccountedIsRecorded ==
  /\ phase = "down" => accounted = {}
  /\ \A s \in accounted : /\ s \in Streams
                          /\ records[s] = 1
                          /\ stream[s].stage \in {"terminal", "dropped"}

IInv ==
  /\ TypeOK
  /\ copied \subseteq Streams /\ met \in BOOLEAN /\ unread \in BOOLEAN
  /\ CountedOnce
  /\ AccountedIsRecorded
  /\ FlagIsKept
  /\ Quiet
  /\ NothingForgotten
  /\ ~met /\ ~unread => WritesAlone

-----------------------------------------------------------------------------

LEMMA Constructors ==
  /\ NoRecords \in Records
  /\ Absent \in Inode
  /\ \A f \in Flushes : Created(f) \in Inode
  /\ \A data \in Records : Whole(data) \in Inode
  /\ \A inode \in Inode : Closed(inode) \in Inode
BY DEF NoRecords, Records, Inode, Absent, Created, Whole, Closed

LEMMA TrackerIsStream ==
  ASSUME NEW stage \in {"fresh", "started", "terminal", "dropped"},
         NEW usage \in BOOLEAN, NEW owes \in BOOLEAN
  PROVE  Tracker(stage, usage, owes) \in Stream
BY DEF Tracker, Stream

LEMMA PushedIsRecords ==
  ASSUME TypeOK, NEW s \in Streams
  PROVE  /\ Pushed(s) \in Records
         /\ records[s] = 0 => Pushed(s)[s] = 1
         /\ \A r \in Streams \ {s} : Pushed(s)[r] = records[r]
BY DEF TypeOK, Pushed, Records

LEMMA MainIsNotATask == Main \notin Tasks /\ Nobody \notin Flushes
BY LedgerAssumption DEF Flushes

LEMMA IInvInit == PromiseInit => IInv
<1> SUFFICES ASSUME PromiseInit PROVE IInv
  OBVIOUS
<1> USE DEF PromiseInit, Init, HistoryInit
<1>1. TypeOK
  BY Constructors, TrackerIsStream DEF TypeOK, Stages, Absent, Records
<1>2. CountedOnce /\ AccountedIsRecorded
  BY DEF CountedOnce, AccountedIsRecorded, Counted, Tracker, NoRecords, Absent, Names
<1>3. FlagIsKept /\ Quiet
  BY DEF FlagIsKept, Quiet, Flushes, Tracker
<1>4. NothingForgotten
  BY DEF NothingForgotten, Recorded, NoRecords
<1>5. WritesAlone
  BY DEF WritesAlone, InWriting, Saved, Absent
<1> QED
  BY <1>1, <1>2, <1>3, <1>4, <1>5 DEF IInv

-----------------------------------------------------------------------------
(* Each step keeps the types.                                              *)

LEMMA StreamTypes ==
  ASSUME TypeOK, NEW s \in Streams,
         \/ \E usage, last \in BOOLEAN : Observe(s, usage, last)
         \/ Drop(s) \/ Schedule(s)
  PROVE  TypeOK'
<1>1. ASSUME NEW usage \in BOOLEAN, NEW last \in BOOLEAN, Observe(s, usage, last)
      PROVE  TypeOK'
  <2>1. stream' \in [Streams -> Stream]
    BY <1>1, TrackerIsStream DEF Observe, TypeOK, Stream
  <2>2. records' \in Records
    BY <1>1, PushedIsRecords DEF Observe, TypeOK
  <2> QED
    BY <1>1, <2>1, <2>2 DEF Observe, TypeOK, flushVars
<1>2. CASE Drop(s)
  <2>1. stream' \in [Streams -> Stream]
    BY <1>2, TrackerIsStream DEF Drop, TypeOK, Stream
  <2>2. records' \in Records
    BY <1>2, PushedIsRecords DEF Drop, TypeOK
  <2> QED
    BY <1>2, <2>1, <2>2 DEF Drop, TypeOK, flushVars
<1>3. CASE Schedule(s)
  <2>1. stream' \in [Streams -> Stream]
    BY <1>3, TrackerIsStream DEF Schedule, TypeOK, Stream
  <2>2. pending' \in BOOLEAN /\ at' \in [Flushes -> Stages]
    BY <1>3 DEF Schedule, TypeOK, Stages
  <2>3. \A f \in Flushes : at[f] = "writing" => at'[f] = "writing"
    BY <1>3 DEF Schedule, TypeOK, Flushes
  <2>4. \A name \in Names : file[name].writer \in Flushes \cup {Nobody}
    BY DEF TypeOK, Inode, Names
  <2> QED
    BY <1>3, <2>1, <2>2, <2>3, <2>4 DEF Schedule, TypeOK, Names
<1> QED
  BY <1>1, <1>2, <1>3

LEMMA FlushTypes ==
  ASSUME TypeOK, NEW f \in Flushes, Flush(f)
  PROVE  TypeOK'
<1>0. /\ f # Nobody
      /\ file \in [Names -> Inode]
      /\ at \in [Flushes -> Stages]
      /\ \A name \in Names : file[name].writer # Nobody => at[file[name].writer] = "writing"
  BY MainIsNotATask DEF TypeOK, Names
<1>1. /\ stream' \in [Streams -> Stream] /\ records' \in Records
      /\ pending' \in BOOLEAN /\ phase' \in {"up", "closing", "down"}
  BY DEF Flush, Begin, Copy, Remove, Create, Write, WriteFails, Rename, CleanUp,
         TypeOK, memoryVars
<1>2. at' \in [Flushes -> Stages] /\ \A g \in Flushes \ {f} : at'[g] = at[g]
  BY DEF Flush, Begin, Copy, Remove, Create, Write, WriteFails, Rename, CleanUp, Goes,
         Ends, TypeOK, Stages
<1>3. copy' \in [Flushes -> Records]
  BY Constructors DEF Flush, Begin, Copy, Remove, Create, Write, WriteFails, Rename, CleanUp,
         Ends, TypeOK
<1>4. CASE Begin(f) \/ Copy(f)
  <2>1. file' = file /\ at[f] # "writing"
    BY <1>4 DEF Begin, Copy
  <2> QED
    BY <1>0, <1>1, <1>2, <1>3, <2>1 DEF TypeOK, Names, Inode
<1>5. CASE Remove(f) \/ CleanUp(f)
  <2>1. file' = [file EXCEPT !["temp"] = Absent] /\ at[f] # "writing"
    BY <1>5 DEF Remove, CleanUp
  <2>2. file' \in [Names -> Inode] /\ \A name \in Names : file'[name] \in {file[name], Absent}
    BY <1>0, <2>1, Constructors DEF Names
  <2> QED
    BY <1>0, <1>1, <1>2, <1>3, <2>1, <2>2 DEF TypeOK, Names, Inode, Absent
<1>6. CASE Create(f)
  <2>1. file' = file \/ (file' = [file EXCEPT !["temp"] = Created(f)] /\ at'[f] = "writing")
    BY <1>0, <1>6 DEF Create, Goes
  <2>2. /\ file' \in [Names -> Inode]
        /\ \A name \in Names : file'[name] = file[name]
                               \/ (file'[name] = Created(f) /\ at'[f] = "writing")
    BY <1>0, <2>1, Constructors DEF Names
  <2>3. at[f] # "writing" /\ Created(f).writer = f
    BY <1>6 DEF Create, Created
  <2> QED
    BY <1>0, <1>1, <1>2, <1>3, <2>2, <2>3 DEF TypeOK, Names, Inode
<1>7. CASE Write(f) \/ WriteFails(f)
  <2>1. file' \in [Names -> Inode]
    BY <1>0, <1>7, Constructors DEF Write, WriteFails, Names, TypeOK
  <2>2. \A name \in Names : \/ file[name].writer = f /\ file'[name].writer = Nobody
                            \/ file[name].writer # f /\ file'[name] = file[name]
    BY <1>0, <1>7 DEF Write, WriteFails, Names, Whole, Closed
  <2> QED
    BY <1>0, <1>1, <1>2, <1>3, <2>1, <2>2 DEF TypeOK, Names, Inode
<1>8. CASE Rename(f)
  <2>1. file' = file \/ file' = [disk |-> file["temp"], temp |-> Absent]
    BY <1>8 DEF Rename
  <2>2. /\ file' \in [Names -> Inode]
        /\ \A name \in Names : file'[name] \in {file["disk"], file["temp"], Absent}
    BY <1>0, <2>1, Constructors DEF Names
  <2>3. at[f] # "writing" /\ Absent.writer = Nobody
    BY <1>8 DEF Rename, Absent
  <2> QED
    BY <1>0, <1>1, <1>2, <1>3, <2>2, <2>3 DEF TypeOK, Names, Inode
<1> QED
  BY <1>4, <1>5, <1>6, <1>7, <1>8 DEF Flush

LEMMA ProcessTypes ==
  ASSUME TypeOK, Quiet, Signal \/ Dies \/ Restart
  PROVE  TypeOK'
<1>1. CASE Signal
  BY <1>1, MainIsNotATask DEF Signal, Goes, TypeOK, Quiet, Stages, Flushes, memoryVars, Inode
<1>2. CASE Dies
  <2>1. stream' \in [Streams -> Stream]
    <3>1. Tracker("dropped", FALSE, FALSE) \in Stream
      BY TrackerIsStream
    <3>2. \A s \in Streams : stream[s] \in Stream
      BY DEF TypeOK
    <3> QED
      BY <1>2, <3>1, <3>2 DEF Dies
  <2>2. file' \in [Names -> Inode] /\ \A name \in Names : file'[name].writer = Nobody
    BY <1>2, Constructors DEF Dies, TypeOK, Names, Closed
  <2>3. at' \in [Flushes -> Stages] /\ phase' = "down" /\ pending' = FALSE
    BY <1>2 DEF Dies, Stages
  <2>4. records' \in Records /\ copy' \in [Flushes -> Records]
    BY <1>2, Constructors DEF Dies
  <2> QED
    BY <2>1, <2>2, <2>3, <2>4 DEF TypeOK, Names
<1>3. CASE Restart
  BY <1>3, Constructors DEF Restart, Load, TypeOK, Inode, flushVars
<1> QED
  BY <1>1, <1>2, <1>3

LEMMA StepTypes ==
  ASSUME IInv, Next
  PROVE  TypeOK'
BY StreamTypes, FlushTypes, ProcessTypes DEF IInv, Next, Exit, Kill

-----------------------------------------------------------------------------
(* Each step keeps the count.                                              *)

\* What a step must do for the count of one stream to stay right.
LEMMA CountStays ==
  ASSUME CountedOnce, NEW s \in Streams,
         stream'[s] = stream[s],
         records'[s] = records[s],
         \A f \in Flushes : copy'[f][s] \in {copy[f][s], records[s], 0},
         \A name \in Names :
           file'[name].data[s] \in
             {file[n].data[s] : n \in Names} \cup {copy[f][s] : f \in Flushes} \cup {0}
  PROVE  /\ Counted(s, records[s])'
         /\ \A f \in Flushes : Counted(s, copy[f][s])'
         /\ \A name \in Names : Counted(s, file[name].data[s])'
         /\ stream'[s].owes => /\ records'[s] = 1
                               /\ stream'[s].stage \in {"terminal", "dropped"}
BY DEF CountedOnce, Counted

LEMMA OtherStreams ==
  ASSUME TypeOK, NEW s \in Streams, NEW r \in Streams, r # s,
         \/ \E usage, last \in BOOLEAN : Observe(s, usage, last)
         \/ Drop(s) \/ Schedule(s)
  PROVE  stream'[r] = stream[r] /\ records'[r] = records[r]
<1>1. stream'[r] = stream[r]
  BY DEF Observe, Drop, Schedule, TypeOK
<1>2. records' = records \/ records' = Pushed(s)
  BY DEF Observe, Drop, Schedule
<1> QED
  BY <1>1, <1>2, PushedIsRecords

LEMMA StreamCounts ==
  ASSUME TypeOK, CountedOnce, NEW s \in Streams,
         \/ \E usage, last \in BOOLEAN : Observe(s, usage, last)
         \/ Drop(s) \/ Schedule(s)
  PROVE  CountedOnce'
<1>0. copy' = copy /\ file' = file
  BY DEF Observe, Drop, Schedule, flushVars
<1>1. ASSUME NEW r \in Streams, r # s
      PROVE  stream'[r] = stream[r] /\ records'[r] = records[r]
  BY <1>1, OtherStreams
<1>2. Counted(s, records[s]) /\ (stream[s].owes => records[s] = 1)
  BY DEF CountedOnce
<1>3. \/ /\ stream'[s].stage \in {"terminal", "dropped"}
         /\ records'[s] = 1
      \/ /\ stream'[s].stage \in {"terminal", "dropped"} \/ stream[s].stage \in {"fresh", "started"}
         /\ ~stream'[s].owes
         /\ records'[s] = records[s]
  <2>1. ASSUME NEW usage \in BOOLEAN, NEW last \in BOOLEAN, Observe(s, usage, last)
        PROVE  <1>3!:
    BY <1>2, <2>1, PushedIsRecords DEF Observe, Counted, Tracker, TypeOK
  <2>2. CASE Drop(s)
    BY <1>2, <2>2, PushedIsRecords DEF Drop, Counted, Tracker, TypeOK
  <2>3. CASE Schedule(s)
    BY <1>2, <2>3 DEF Schedule, Counted, Tracker, TypeOK, Stream
  <2> QED
    BY <2>1, <2>2, <2>3
<1>4. /\ Counted(s, records[s])'
      /\ stream'[s].owes => records'[s] = 1 /\ stream'[s].stage \in {"terminal", "dropped"}
      /\ stream'[s].stage \in {"fresh", "started"} => stream[s].stage \in {"fresh", "started"}
  BY <1>2, <1>3 DEF Counted
<1>5. /\ \A f \in Flushes : Counted(s, copy[f][s])'
      /\ \A name \in Names : Counted(s, file[name].data[s])'
  BY <1>0, <1>4 DEF CountedOnce, Counted
<1> QED
  BY <1>0, <1>1, <1>4, <1>5 DEF CountedOnce, Counted

LEMMA FlushCounts ==
  ASSUME TypeOK, CountedOnce, NEW f \in Flushes, Flush(f)
  PROVE  CountedOnce'
<1>0. file \in [Names -> Inode] /\ copy \in [Flushes -> Records]
  BY DEF TypeOK, Names
<1>1. stream' = stream /\ records' = records
  BY DEF Flush, Begin, Copy, Remove, Create, Write, WriteFails, Rename, CleanUp, memoryVars
<1>2. copy' \in {copy, [copy EXCEPT ![f] = records], [copy EXCEPT ![f] = NoRecords]}
  BY DEF Flush, Begin, Copy, Remove, Create, Write, WriteFails, Rename, CleanUp, Ends
<1>3. \A s \in Streams, g \in Flushes : copy'[g][s] \in {copy[g][s], records[s], 0}
  BY <1>0, <1>2 DEF NoRecords
<1>4. \A name \in Names :
        file'[name].data \in {file[n].data : n \in Names} \cup {copy[f], NoRecords}
  <2>1. CASE Begin(f) \/ Copy(f)
    BY <2>1 DEF Begin, Copy
  <2>2. CASE Remove(f) \/ Create(f) \/ CleanUp(f)
    BY <1>0, <2>2 DEF Remove, Create, CleanUp, Names, Absent, Created
  <2>3. CASE Write(f) \/ WriteFails(f)
    BY <1>0, <2>3 DEF Write, WriteFails, Names, Whole, Closed
  <2>4. CASE Rename(f)
    BY <1>0, <2>4 DEF Rename, Names, Absent
  <2> QED
    BY <2>1, <2>2, <2>3, <2>4 DEF Flush
<1>5. \A s \in Streams, name \in Names :
        file'[name].data[s] \in
          {file[n].data[s] : n \in Names} \cup {copy[g][s] : g \in Flushes} \cup {0}
  BY <1>4 DEF NoRecords
<1> QED
  BY <1>1, <1>3, <1>5, CountStays DEF CountedOnce

LEMMA ProcessCounts ==
  ASSUME TypeOK, CountedOnce, Quiet, Signal \/ Dies \/ Restart
  PROVE  CountedOnce'
<1>1. CASE Signal
  BY <1>1 DEF Signal, CountedOnce, Counted, memoryVars
<1>2. CASE Dies
  <2>1. SUFFICES ASSUME NEW s \in Streams
        PROVE  /\ Counted(s, records[s])'
               /\ \A f \in Flushes : Counted(s, copy[f][s])'
               /\ \A name \in Names : Counted(s, file[name].data[s])'
               /\ ~stream'[s].owes
    BY DEF CountedOnce
  <2>2. /\ stream'[s].stage \in {"fresh", "started"} => stream[s].stage \in {"fresh", "started"}
        /\ stream[s].stage = "fresh" => ~stream[s].owes
        /\ stream[s].stage # "fresh" => ~stream'[s].owes
        /\ stream[s].stage = "fresh" => stream'[s] = stream[s]
    BY <1>2, <2>1 DEF Dies, Tracker, CountedOnce
  <2>3. records'[s] = 0 /\ \A f \in Flushes : copy'[f][s] = 0
    BY <1>2 DEF Dies, NoRecords
  <2>4. \A name \in Names : file'[name].data[s] = file[name].data[s]
    BY <1>2 DEF Dies, Names, Closed
  <2> QED
    BY <2>2, <2>3, <2>4 DEF CountedOnce, Counted
<1>3. CASE Restart
  <2>1. \A s \in Streams : records'[s] \in {0, file["disk"].data[s]}
    BY <1>3 DEF Restart, Load, NoRecords
  <2>2. stream' = stream /\ copy' = copy /\ file' = file
    BY <1>3 DEF Restart, flushVars
  <2>3. \A s \in Streams : Counted(s, 0) /\ Counted(s, file["disk"].data[s]) /\ ~stream[s].owes
    BY <1>3 DEF CountedOnce, Counted, Names, Restart, Quiet
  <2> QED
    BY <2>1, <2>2, <2>3 DEF CountedOnce, Counted
<1> QED
  BY <1>1, <1>2, <1>3

\* The record of a stream that breaks off or completes is pushed in that step.
LEMMA StepAccounted ==
  ASSUME IInv, PromiseNext
  PROVE  AccountedIsRecorded'
<1> USE DEF AccountedIsRecorded
<1>0. TypeOK /\ CountedOnce /\ AccountedIsRecorded
  BY DEF IInv
<1>1. CASE phase' = "down"
  BY <1>1 DEF PromiseNext, HistoryNext
<1>2. CASE phase' # "down"
  <2>0. accounted' = accounted \cup {s \in Streams : BreaksOff(s) \/ Completes(s)}
    BY <1>2 DEF PromiseNext, HistoryNext
  <2>1. ASSUME stream' = stream, accounted = {} \/ records' = records
        PROVE  AccountedIsRecorded'
    <3>1. accounted' = accounted
      BY <2>0, <2>1 DEF BreaksOff, Completes
    <3> QED
      BY <1>0, <1>2, <2>1, <3>1
  <2>2. ASSUME NEW s \in Streams,
               \/ \E usage, last \in BOOLEAN : Observe(s, usage, last)
               \/ Drop(s) \/ Schedule(s)
        PROVE  AccountedIsRecorded'
    <3>1. ASSUME NEW r \in accounted', r # s
          PROVE  r \in Streams /\ records'[r] = 1 /\ stream'[r].stage \in {"terminal", "dropped"}
      <4>1. r \in Streams
        BY <1>0, <2>0, <3>1
      <4>2. stream'[r] = stream[r] /\ records'[r] = records[r]
        BY <1>0, <2>2, <3>1, <4>1, OtherStreams
      <4>3. r \in accounted
        BY <2>0, <3>1, <4>2 DEF BreaksOff, Completes
      <4> QED
        BY <1>0, <4>2, <4>3
    <3>2. ASSUME s \in accounted'
          PROVE  records'[s] = 1 /\ stream'[s].stage \in {"terminal", "dropped"}
      <4>1. CASE s \in accounted
        <5>1. records[s] = 1 /\ stream[s].stage \in {"terminal", "dropped"}
          BY <1>0, <4>1
        <5>2. records' = records
          BY <2>2, <5>1 DEF Observe, Drop, Schedule
        <5>3. stream'[s].stage \in {"terminal", "dropped"}
          BY <1>0, <2>2, <5>1 DEF Observe, Drop, Schedule, Tracker, TypeOK
        <5> QED
          BY <5>1, <5>2, <5>3
      <4>2. CASE BreaksOff(s) \/ Completes(s)
        <5>1. stream[s].stage \in {"fresh", "started"} /\ records[s] = 0
          BY <1>0, <4>2 DEF BreaksOff, Completes, CountedOnce, Counted
        <5>2. stream'[s].stage \in {"terminal", "dropped"}
          BY <4>2 DEF BreaksOff, Completes
        <5>3. records' = Pushed(s)
          <6>1. ASSUME NEW usage \in BOOLEAN, NEW last \in BOOLEAN, Observe(s, usage, last)
                PROVE  records' = Pushed(s)
            BY <1>0, <4>2, <6>1 DEF Observe, Tracker, TypeOK, BreaksOff, Completes
          <6>2. CASE Drop(s)
            BY <1>0, <4>2, <6>2 DEF Drop, Tracker, TypeOK, BreaksOff, Completes
          <6>3. CASE Schedule(s)
            BY <1>0, <4>2, <6>3 DEF Schedule, Tracker, TypeOK, BreaksOff, Completes
          <6> QED
            BY <2>2, <6>1, <6>2, <6>3
        <5> QED
          BY <1>0, <5>1, <5>2, <5>3, PushedIsRecords
      <4> QED
        BY <2>0, <3>2, <4>1, <4>2
    <3> QED
      BY <1>2, <3>1, <3>2
  <2>3. ASSUME NEW f \in Flushes, Flush(f)
        PROVE  stream' = stream /\ records' = records
    BY <2>3 DEF Flush, Begin, Copy, Remove, Create, Write, WriteFails, Rename, CleanUp, memoryVars
  <2>4. CASE Signal
    BY <2>1, <2>4 DEF Signal, memoryVars
  <2>5. CASE Restart
    BY <1>0, <2>1, <2>5 DEF Restart
  <2> QED
    BY <1>2, <2>1, <2>2, <2>3, <2>4, <2>5 DEF PromiseNext, Next, Exit, Kill, Dies
<1> QED
  BY <1>1, <1>2

-----------------------------------------------------------------------------
(* Each step keeps the flag, and forgets no record.                        *)

\* Where each step of a flush leaves it.
LEMMA FlushStages ==
  ASSUME TypeOK, NEW f \in Flushes, Flush(f)
  PROVE  /\ \A g \in Flushes \ {f} : at'[g] = at[g]
         /\ at[f] # "idle"
         /\ at[f] = "due" => at'[f] = "copying" /\ ~pending'
         /\ at[f] # "due" => pending' = pending
         /\ at[f] = "copying" => Copy(f)
         /\ at'[f] # "due"
         /\ Copy(f) => at[f] = "copying" /\ at'[f] = "removing" /\ copy'[f] = records
         /\ phase' = phase /\ stream' = stream /\ records' = records
<1> USE DEF Goes, Ends, memoryVars, TypeOK
<1>1. CASE Begin(f)
  BY <1>1 DEF Begin, Copy
<1>5. CASE Copy(f)
  BY <1>5 DEF Copy
<1>2. CASE Remove(f) \/ Create(f)
  BY <1>2 DEF Remove, Create, Copy
<1>3. CASE Write(f) \/ WriteFails(f)
  BY <1>3 DEF Write, WriteFails, Copy
<1>4. CASE Rename(f) \/ CleanUp(f)
  BY <1>4 DEF Rename, CleanUp, Copy
<1> QED
  BY <1>1, <1>2, <1>3, <1>4, <1>5 DEF Flush

LEMMA StreamStages ==
  ASSUME TypeOK, NEW s \in Streams,
         \/ \E usage, last \in BOOLEAN : Observe(s, usage, last)
         \/ Drop(s) \/ Schedule(s)
  PROVE  /\ \A f \in Flushes : at'[f] = at[f] \/ (f # Main /\ at[f] = "idle" /\ at'[f] = "due")
         /\ pending' => pending \/ \E f \in Flushes : at'[f] = "due"
         /\ Running /\ phase' = phase
<1>1. CASE Schedule(s)
  <2>1. Running /\ phase' = phase
    BY <1>1 DEF Schedule
  <2>2. CASE pending /\ at' = at
    BY <2>1, <2>2
  <2>3. ASSUME NEW g \in Tasks, at[g] = "idle", at' = [at EXCEPT ![g] = "due"]
        PROVE  /\ \A f \in Flushes : at'[f] = at[f] \/ (f # Main /\ at[f] = "idle" /\ at'[f] = "due")
               /\ \E f \in Flushes : at'[f] = "due"
    BY <2>3, MainIsNotATask DEF TypeOK, Flushes
  <2> QED
    BY <1>1, <2>1, <2>2, <2>3 DEF Schedule
<1>2. CASE ~Schedule(s)
  <2>1. Running /\ phase' = phase /\ at' = at /\ pending' = pending
    BY <1>2 DEF Observe, Drop, flushVars
  <2> QED
    BY <2>1
<1> QED
  BY <1>1, <1>2

LEMMA StepFlag ==
  ASSUME IInv, Next
  PROVE  FlagIsKept' /\ Quiet'
<1> USE DEF FlagIsKept, Quiet
<1>0. TypeOK /\ FlagIsKept /\ Quiet /\ Main \in Flushes
  BY DEF IInv, Flushes
<1>1. ASSUME NEW s \in Streams,
             \/ \E usage, last \in BOOLEAN : Observe(s, usage, last)
             \/ Drop(s) \/ Schedule(s)
      PROVE  FlagIsKept' /\ Quiet'
  BY <1>0, <1>1, StreamStages DEF Running
<1>2. ASSUME NEW f \in Flushes, Flush(f)
      PROVE  FlagIsKept' /\ Quiet'
  BY <1>0, <1>2, FlushStages
<1>3. CASE Signal
  BY <1>0, <1>3 DEF Signal, Goes, TypeOK, memoryVars
<1>4. CASE Dies
  BY <1>4 DEF Dies, Tracker, IInv, CountedOnce
<1>5. CASE Restart
  BY <1>0, <1>5 DEF Restart, flushVars
<1> QED
  BY <1>1, <1>2, <1>3, <1>4, <1>5 DEF Next, Exit, Kill

\* A record that is new in memory was pushed by the stream that owes its flush.
LEMMA StreamRecords ==
  ASSUME TypeOK, CountedOnce, FlagIsKept, NEW s \in Streams,
         \/ \E usage, last \in BOOLEAN : Observe(s, usage, last)
         \/ Drop(s) \/ Schedule(s)
  PROVE  /\ Recorded \subseteq Recorded'
         /\ \A r \in Recorded' : r \in Recorded \/ stream'[r].owes
         /\ \A r \in Streams :
              stream[r].owes => stream'[r].owes \/ \E f \in Flushes : at'[f] = "due"
<1>1. ASSUME NEW r \in Streams, r # s
      PROVE  stream'[r] = stream[r] /\ records'[r] = records[r]
  BY <1>1, OtherStreams
<1>2. stream[s].owes => Schedule(s) /\ records' = records
  BY DEF CountedOnce, Observe, Drop, Schedule
<1>3. Schedule(s) => \E f \in Flushes : at'[f] = "due"
  BY DEF Schedule, FlagIsKept, TypeOK, Flushes
<1>4. records'[s] = records[s] \/ (records'[s] = 1 /\ records[s] = 0 /\ stream'[s].owes)
  <2>1. stream[s].stage \in {"fresh", "started"} => records[s] = 0
    BY DEF CountedOnce, Counted
  <2>2. ASSUME NEW usage \in BOOLEAN, NEW last \in BOOLEAN, Observe(s, usage, last)
        PROVE  <1>4!:
    BY <2>1, <2>2, PushedIsRecords DEF Observe, Tracker, TypeOK
  <2>3. CASE Drop(s)
    BY <2>1, <2>3, PushedIsRecords DEF Drop, Tracker, TypeOK
  <2>4. CASE Schedule(s)
    BY <2>4 DEF Schedule
  <2> QED
    BY <2>2, <2>3, <2>4
<1> QED
  BY <1>1, <1>2, <1>3, <1>4 DEF Recorded

LEMMA StepForgotten ==
  ASSUME IInv, PromiseNext
  PROVE  /\ NothingForgotten' /\ copied' \subseteq Streams
         /\ met' \in BOOLEAN /\ unread' \in BOOLEAN
<1> USE DEF NothingForgotten
<1>0. TypeOK /\ CountedOnce /\ FlagIsKept /\ NothingForgotten /\ copied \subseteq Streams
      /\ met \in BOOLEAN /\ unread \in BOOLEAN
  BY DEF IInv
<1>1. copied' \subseteq Streams /\ met' \in BOOLEAN /\ unread' \in BOOLEAN
  BY <1>0 DEF PromiseNext, HistoryNext, Recorded, Saved
<1> SUFFICES NothingForgotten'
  BY <1>1
<1>2. phase' = "down" \/ Restart \/ copied \subseteq copied'
  BY DEF PromiseNext, HistoryNext
<1>3. ASSUME NEW s \in Streams,
             \/ \E usage, last \in BOOLEAN : Observe(s, usage, last)
             \/ Drop(s) \/ Schedule(s)
      PROVE  NothingForgotten'
  <2>1. copied \subseteq copied'
    BY <1>2, <1>3, StreamStages, <1>0 DEF Restart, Running
  <2>2. \A f \in Flushes : at[f] \in {"due", "copying"} => at'[f] \in {"due", "copying"}
    BY <1>0, <1>3, StreamStages
  <2>3. Recorded' \subseteq Streams /\ Recorded \subseteq Streams /\ Running
    BY <1>0, <1>3, StreamStages DEF Recorded
  <2> QED
    BY <1>0, <1>3, <2>1, <2>2, <2>3, StreamRecords
<1>4. ASSUME NEW f \in Flushes, Flush(f)
      PROVE  NothingForgotten'
  <2>0. phase' = phase /\ Recorded' = Recorded /\ stream' = stream
    BY <1>0, <1>4, FlushStages DEF Recorded
  <2>1. CASE Copy(f)
    <3>1. phase' # "down" => ~Restart /\ Recorded \subseteq copied'
      BY <2>0, <2>1 DEF PromiseNext, HistoryNext, Restart
    <3> QED
      BY <2>0, <3>1 DEF Running
  <2>2. CASE ~Copy(f)
    <3>1. \A g \in Flushes : at[g] \in {"due", "copying"} => at'[g] \in {"due", "copying"}
      BY <1>0, <1>4, <2>2, FlushStages
    <3>2. phase' # "down" => copied \subseteq copied'
      BY <1>2, <2>0 DEF Restart
    <3> QED
      BY <1>0, <2>0, <3>1, <3>2 DEF Running
  <2> QED
    BY <2>1, <2>2
<1>5. CASE Signal
  <2>1. copied \subseteq copied'
    BY <1>2, <1>5 DEF Signal, Restart
  <2>2. \A f \in Flushes : at[f] \in {"due", "copying"} => at'[f] \in {"due", "copying"}
    BY <1>0, <1>5 DEF Signal, Goes, TypeOK, IInv, Quiet
  <2>3. Recorded' = Recorded /\ stream' = stream /\ Running
    BY <1>5 DEF Signal, Recorded, memoryVars, Running
  <2> QED
    BY <1>0, <2>1, <2>2, <2>3
<1>6. CASE Dies
  BY <1>6 DEF Dies, Running
<1>7. CASE Restart
  <2>1. Recorded' \subseteq Saved
    <3>1. records' \in {Load, NoRecords}
      BY <1>7 DEF Restart
    <3>2. \A s \in Streams : Load[s] > 0 => s \in Saved
      BY DEF Load, Saved, NoRecords
    <3> QED
      BY <3>1, <3>2 DEF Recorded, NoRecords
  <2>2. copied' = Saved
    <3>1. phase' # "down"
      BY <1>7 DEF Restart
    <3> QED
      BY <1>7, <3>1 DEF PromiseNext, HistoryNext
  <2> QED
    BY <2>1, <2>2
<1> QED
  BY <1>3, <1>4, <1>5, <1>6, <1>7 DEF PromiseNext, Next, Exit, Kill

-----------------------------------------------------------------------------
(* A flush that writes alone keeps what the file holds.                    *)

\* The steps that touch neither the files nor the flushes that write.
LEMMA AloneStays ==
  ASSUME WritesAlone, InWriting' \subseteq InWriting,
         \A f \in InWriting' : at'[f] = at[f] /\ copy'[f] = copy[f],
         file' = file,
         Running' => Running /\ Recorded \subseteq Recorded'
  PROVE  WritesAlone' /\ Saved' = Saved
<1>1. Saved' = Saved
  BY DEF Saved
<1> QED
  BY <1>1 DEF WritesAlone

\* The steps of a flush that writes and leaves the file as it is.
LEMMA DiskStays ==
  ASSUME WritesAlone, NEW f \in InWriting, InWriting' \subseteq {f},
         file'["disk"] = file["disk"], copy'[f] = copy[f],
         Recorded' = Recorded, Running' = Running,
         at'[f] = "writing" => file'["temp"].writer = f,
         at'[f] = "renaming" => file'["temp"] = Whole(copy[f])
  PROVE  WritesAlone' /\ Saved' = Saved
<1>1. Saved' = Saved
  BY DEF Saved
<1> QED
  BY <1>1 DEF WritesAlone

LEMMA StepAlone ==
  ASSUME IInv, PromiseNext, ~met', ~unread'
  PROVE  WritesAlone' /\ Saved \subseteq Saved'
<1>0. /\ TypeOK /\ CountedOnce /\ FlagIsKept /\ Quiet /\ WritesAlone
      /\ \A f, g \in InWriting' : f = g
  BY DEF IInv, PromiseNext, HistoryNext
<1>1. /\ file \in [Names -> Inode] /\ copy \in [Flushes -> Records]
      /\ records \in Records /\ at \in [Flushes -> Stages]
  BY <1>0 DEF TypeOK, Names
<1>2. ASSUME NEW s \in Streams,
             \/ \E usage, last \in BOOLEAN : Observe(s, usage, last)
             \/ Drop(s) \/ Schedule(s)
      PROVE  WritesAlone' /\ Saved \subseteq Saved'
  <2>1. file' = file /\ copy' = copy
    BY <1>2 DEF Observe, Drop, Schedule, flushVars
  <2>2. \A f \in Flushes : at'[f] = at[f] \/ (at[f] = "idle" /\ at'[f] = "due")
    BY <1>0, <1>2, StreamStages
  <2>3. Running /\ Recorded \subseteq Recorded'
    BY <1>0, <1>2, StreamStages, StreamRecords
  <2> QED
    BY <1>0, <2>1, <2>2, <2>3, AloneStays DEF InWriting
<1>3. ASSUME NEW f \in Flushes, Flush(f)
      PROVE  WritesAlone' /\ Saved \subseteq Saved'
  <2>0. /\ Running /\ Running' /\ Recorded' = Recorded /\ records' = records
        /\ \A g \in Flushes \ {f} : at'[g] = at[g]
        /\ f # Nobody
    BY <1>0, <1>3, FlushStages, MainIsNotATask DEF Running, Quiet, Recorded
  <2>1. CASE Begin(f)
    <3>1. file' = file /\ copy' = copy /\ at[f] = "due" /\ at'[f] = "copying"
      BY <1>1, <2>1 DEF Begin, Goes
    <3> QED
      BY <1>0, <2>0, <3>1, AloneStays DEF InWriting
  <2>2. CASE Copy(f)
    <3>1. file' = file /\ copy'[f] = records /\ at'[f] = "removing"
      BY <1>1, <2>2 DEF Copy, Goes
    <3>2. InWriting' = {f}
      BY <1>0, <3>1 DEF InWriting
    <3>3. Saved' = Saved /\ Saved \subseteq Recorded
      BY <1>0, <2>0, <3>1 DEF Saved, WritesAlone
    <3> QED
      BY <1>0, <2>0, <3>1, <3>2, <3>3 DEF WritesAlone, Recorded
  <2>3. CASE ~Begin(f) /\ ~Copy(f)
    <3>0. f \in InWriting /\ InWriting' \subseteq {f}
      <4>1. f \in InWriting
        BY <1>3, <2>3 DEF Flush, InWriting, Remove, Create, Write, WriteFails, Rename, CleanUp
      <4> QED
        BY <1>0, <2>0, <4>1 DEF InWriting, WritesAlone
    <3>1. CASE Remove(f) \/ Create(f)
      <4>1. /\ file'["disk"] = file["disk"] /\ copy'[f] = copy[f] /\ at'[f] # "renaming"
            /\ at'[f] = "writing" => file'["temp"].writer = f
        BY <1>1, <3>1 DEF Remove, Create, Goes, Created, Names
      <4> QED
        BY <1>0, <2>0, <3>0, <4>1, DiskStays
    <3>2. CASE Write(f) \/ WriteFails(f)
      <4>1. file["disk"].writer = Nobody /\ file["temp"].writer = f
        BY <1>0, <3>0, <3>2 DEF WritesAlone, Write, WriteFails
      <4>2. /\ file'["disk"] = file["disk"] /\ copy'[f] = copy[f] /\ at'[f] # "writing"
            /\ at'[f] = "renaming" => file'["temp"] = Whole(copy[f])
        BY <1>1, <2>0, <3>2, <4>1 DEF Write, WriteFails, Goes
      <4> QED
        BY <1>0, <2>0, <3>0, <4>2, DiskStays
    <3>3. CASE Rename(f)
      <4>1. file["temp"] = Whole(copy[f])
        BY <1>0, <3>0, <3>3 DEF WritesAlone, Rename
      <4>2. file' = [disk |-> Whole(copy[f]), temp |-> Absent] /\ at'[f] = "idle"
        BY <1>1, <3>3, <4>1 DEF Rename, Ends, Goes, Whole
      <4>3. file'["disk"].writer = Nobody /\ Saved' = {s \in Streams : copy[f][s] > 0}
        BY <4>2 DEF Whole, Saved
      <4>4. InWriting' = {}
        BY <3>0, <4>2 DEF InWriting
      <4>5. \A s \in Streams : copy[f][s] > 0 => s \in Recorded
        BY <1>0, <2>0, <3>0 DEF WritesAlone
      <4>6. Saved \subseteq Saved'
        BY <1>0, <3>0, <4>3 DEF WritesAlone, Saved
      <4> QED
        BY <2>0, <4>3, <4>4, <4>5, <4>6 DEF WritesAlone
    <3>4. CASE CleanUp(f)
      <4>1. file'["disk"] = file["disk"] /\ at'[f] = "idle"
        BY <1>1, <3>4 DEF CleanUp, Ends, Goes, Names
      <4>2. InWriting' = {} /\ Saved' = Saved
        BY <3>0, <4>1 DEF InWriting, Saved
      <4> QED
        BY <1>0, <2>0, <4>1, <4>2 DEF WritesAlone
    <3> QED
      BY <1>3, <2>3, <3>1, <3>2, <3>3, <3>4 DEF Flush
  <2> QED
    BY <2>1, <2>2, <2>3
<1>4. CASE Signal
  <2>1. file' = file /\ copy' = copy /\ Recorded' = Recorded /\ Running
    BY <1>4 DEF Signal, memoryVars, Recorded, Running
  <2>2. \A f \in Flushes : at'[f] = at[f] \/ (at[f] = "idle" /\ at'[f] = "due")
    BY <1>0, <1>4 DEF Signal, Goes, TypeOK, Quiet
  <2> QED
    BY <1>0, <2>1, <2>2, AloneStays DEF InWriting
<1>5. CASE Dies
  <2>1. InWriting' = {} /\ ~Running'
    BY <1>5 DEF Dies, InWriting, Running
  <2>2. file'["disk"].writer = Nobody /\ Saved' = Saved
    BY <1>5 DEF Dies, Closed, Saved
  <2> QED
    BY <2>1, <2>2 DEF WritesAlone
<1>6. CASE Restart
  <2>1. InWriting' = {} /\ file' = file
    BY <1>0, <1>6 DEF Restart, InWriting, Quiet, flushVars
  <2>2. Saved' = Saved
    BY <2>1 DEF Saved
  <2>3. Saved \subseteq Recorded'
    <3>1. records' = Load
      BY <1>6 DEF PromiseNext, HistoryNext
    <3>2. \A s \in Saved : Load[s] > 0
      BY DEF Load, Saved
    <3> QED
      BY <3>1, <3>2 DEF Recorded, Saved
  <2> QED
    BY <1>0, <2>1, <2>2, <2>3 DEF WritesAlone
<1> QED
  BY <1>2, <1>3, <1>4, <1>5, <1>6 DEF PromiseNext, Next, Exit, Kill

-----------------------------------------------------------------------------

LEMMA IInvStep == IInv /\ [PromiseNext]_allVars => IInv'
<1>1. ASSUME IInv, PromiseNext
      PROVE  IInv'
  <2>0. Next
    BY <1>1 DEF PromiseNext
  <2>1. TypeOK' /\ FlagIsKept' /\ Quiet'
    BY <1>1, <2>0, StepTypes, StepFlag
  <2>2. CountedOnce'
    BY <1>1, <2>0, StreamCounts, FlushCounts, ProcessCounts DEF IInv, Next, Exit, Kill
  <2>3. /\ NothingForgotten' /\ copied' \subseteq Streams
        /\ met' \in BOOLEAN /\ unread' \in BOOLEAN
    BY <1>1, StepForgotten
  <2>4. ~met' /\ ~unread' => WritesAlone'
    BY <1>1, StepAlone
  <2>5. AccountedIsRecorded'
    BY <1>1, StepAccounted
  <2> QED
    BY <2>1, <2>2, <2>3, <2>4, <2>5 DEF IInv
<1>2. ASSUME IInv, UNCHANGED allVars
      PROVE  IInv'
  BY <1>2
     DEF allVars, vars, memoryVars, flushVars, history, IInv, TypeOK, CountedOnce, Counted,
         AccountedIsRecorded, FlagIsKept, Quiet, NothingForgotten, WritesAlone, Running, Recorded, Saved, InWriting
<1> QED
  BY <1>1, <1>2

THEOREM LedgerInvariant == PromiseSpec => []IInv
BY IInvInit, IInvStep, PTL DEF PromiseSpec

\* Every variable keeps its type, and only a flush that is writing has a file
\* open, for any streams and any number of flushes.
THEOREM LedgerTypes == PromiseSpec => []TypeOK
<1>1. IInv => TypeOK
  BY DEF IInv
<1> QED
  BY LedgerInvariant, <1>1, PTL

\* No stream is recorded twice, and every one that broke off half way or ended
\* with known usage in this process is recorded.
THEOREM StreamsRecordedOnce == PromiseSpec => []RecordedOnce
<1>1. IInv => RecordedOnce
  BY DEF IInv, CountedOnce, Counted, AccountedIsRecorded, RecordedOnce
<1> QED
  BY LedgerInvariant, <1>1, PTL

\* A record that no flush has copied has a flush coming.
THEOREM NoRecordForgotten == PromiseSpec => []NothingForgotten
<1>1. IInv => NothingForgotten
  BY DEF IInv
<1> QED
  BY LedgerInvariant, <1>1, PTL

\* As long as no two flushes write at once and every start could read the file,
\* it only gains records.
THEOREM FileOnlyGrows == PromiseSpec => SavedStays
<1>1. ASSUME IInv, [PromiseNext]_allVars
      PROVE  [~met' /\ ~unread' => Saved \subseteq Saved']_allVars
  BY <1>1, StepAlone
<1> QED
  BY LedgerInvariant, <1>1, PTL DEF PromiseSpec, SavedStays
=============================================================================
