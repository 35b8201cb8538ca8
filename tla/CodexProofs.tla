----------------------------- MODULE CodexProofs -----------------------------
(***************************************************************************)
(* What a Codex login and its bars promise, proved of PromiseSpec: for any *)
(* number of requests, device codes and token pairs.                       *)
(*                                                                         *)
(* The inductive invariant says who can hold the mutex (Mutex) and what    *)
(* that buys (Current), that a pair which is on its way to the file is in  *)
(* no other hands (Tokened), and that a reading of the bars which is not   *)
(* stale has asked for the login in hand, or the bars are about to be      *)
(* cleared (Reading).                                                      *)
(***************************************************************************)
EXTENDS CodexPromises, TLAPS

\* Each flow that can hold the mutex, and the others when it does.
RefreshHolds(c) == task[c].pc = "refreshing"
CodeHolds(a) == poll[a].pc \in {"storing", "clearing"}
OutHolds == out.pc \in {"clearing", "revoking"}

Mutex ==
  /\ \A c, d \in Callers : RefreshHolds(c) /\ RefreshHolds(d) => c = d
  /\ \A a, b \in Codes : CodeHolds(a) /\ CodeHolds(b) => a = b
  /\ \A c \in Callers : RefreshHolds(c) => (\A a \in Codes : ~CodeHolds(a)) /\ ~OutHolds
  /\ \A a \in Codes : CodeHolds(a) => ~OutHolds

\* What a flow read or did under the mutex is still so while it holds it.
Current ==
  /\ \A c \in Callers : RefreshHolds(c) => task[c].base = login /\ login.pair # 0
  /\ OutHolds => login = NoLogin
  /\ login.pair = 0 => disk.pair = 0

\* A code's tokens are in nobody else's hands until they are stored.
InHandOf(a) == poll[a].pc \in {"answered", "queued", "storing"}

Tokened ==
  /\ login.pair <= issued
  /\ disk.pair <= issued
  /\ out.pair <= issued
  /\ out.pc \in {"idle", "waiting"} => out.pair = 0
  /\ \A a \in Codes : InHandOf(a) =>
       /\ poll[a].pair # 0
       /\ poll[a].pair <= issued
       /\ poll[a].pair \in valid
       /\ poll[a].pair # login.pair
       /\ poll[a].pair # out.pair
  /\ \A a, b \in Codes : InHandOf(a) /\ InHandOf(b) /\ a # b => poll[a].pair # poll[b].pair

Accepted == ~cut /\ login.pair # 0 => login.pair \in valid

\* A code is polled for after its start was answered; once it has been
\* cancelled, or was registered before and replaced, its task is over.
Polled ==
  /\ \A a \in Codes : start[a] \in {"none", "asking"} => poll[a].pc = "none"
  /\ polling # NoGrant => start[polling] = "done"
  /\ cancelled \subseteq {a \in Codes : poll[a].pc = "ended"}

\* A reading that is not stale has asked for the bars of the login in hand.
Clearing == out.pc = "clearing" \/ \E a \in Codes : poll[a].pc = "clearing"

Reading ==
  /\ task[Reader].pc # "idle" => bars.reading
  /\ task[Reader].pc # "idle" /\ task[Reader].base.pair # 0 /\ ~stale /\ ~Clearing
       => task[Reader].base.grant = login.grant

IInv ==
  /\ TypeOK
  /\ cut \in BOOLEAN
  /\ Mutex /\ Current /\ Tokened /\ Accepted /\ Polled /\ Reading
  /\ OneLoginInProgress
  /\ BarsAreOurs

-----------------------------------------------------------------------------
(* Where each step leaves the flow that takes it.                          *)

\* The caller c is at pc with these locals, and every other where it was.
After(c, pc, base) ==
  /\ task' \in [Callers -> Task]
  /\ \A d \in Callers \ {c} : task'[d] = task[d]
  /\ task'[c].pc = pc
  /\ task'[c].base = base

\* Its call is over.
Over(c, base) ==
  IF c = Reader THEN After(c, "landing", base) ELSE After(c, "idle", NoLogin)

LEMMA LocalsTyped ==
  ASSUME NEW pc \in {"idle", "asking", "refreshing", "calling", "landing"},
         NEW force \in BOOLEAN, NEW base \in Login
  PROVE  /\ Locals(pc, force, base) \in Task
         /\ Locals(pc, force, base).pc = pc
         /\ Locals(pc, force, base).base = base
BY DEF Locals, Task

LEMMA Lands ==
  ASSUME TypeOK, NEW c \in Callers, NEW force \in BOOLEAN, NEW base \in Login,
         NEW pc \in {"idle", "asking", "refreshing", "calling", "landing"},
         Becomes(c, Locals(pc, force, base))
  PROVE  After(c, pc, base)
<1>1. Locals(pc, force, base) \in Task
  BY LocalsTyped
<1>2. /\ task' \in [Callers -> Task]
      /\ \A d \in Callers \ {c} : task'[d] = task[d]
      /\ task'[c] = Locals(pc, force, base)
  BY <1>1 DEF Becomes, TypeOK
<1> QED
  BY <1>2, LocalsTyped DEF After

LEMMA CallEnds ==
  ASSUME TypeOK, NEW c \in Callers, NEW base \in Login, Ends(c, base)
  PROVE  Over(c, base)
<1>1. NoLogin \in Login
  BY DEF Login
<1>2. CASE c = Reader
  BY <1>2, Lands DEF Ends, Landing, Over
<1>3. CASE c # Reader
  BY <1>1, <1>3, Lands DEF Ends, Idle, Over
<1> QED
  BY <1>2, <1>3

LEMMA StepLocals ==
  ASSUME TypeOK, NEW c \in Callers
  PROVE
    /\ Ask(c) => After(c, "asking", NoLogin)
    /\ NotSignedIn(c) => Over(c, NoLogin)
    /\ TakeToken(c) => After(c, "calling", login)
    /\ StartRefresh(c) => After(c, "refreshing", login)
    /\ Rejected(c) => Over(c, NoLogin)
    /\ RefreshFails(c) => After(c, "calling", task[c].base) \/ Over(c, NoLogin)
    /\ Answered(c) => Over(c, task[c].base) \/ Over(c, NoLogin)
    /\ Unauthorized(c) => Over(c, NoLogin) \/ After(c, "asking", NoLogin)
    /\ HangUp(c) => After(c, "idle", NoLogin)
<1>0. /\ NoLogin \in Login /\ login \in Login
      /\ task[c].force \in BOOLEAN /\ task[c].base \in Login
  BY DEF TypeOK, Task, Login
<1> USE <1>0
<1>1. Ask(c) => After(c, "asking", NoLogin)
  BY Lands DEF Ask, Asking
<1>2. NotSignedIn(c) => Over(c, NoLogin)
  BY CallEnds DEF NotSignedIn, Fails
<1>3. TakeToken(c) => After(c, "calling", login)
  BY Lands DEF TakeToken, Calling
<1>4. StartRefresh(c) => After(c, "refreshing", login)
  BY Lands DEF StartRefresh, Refreshing
<1>5. Rejected(c) => Over(c, NoLogin)
  BY CallEnds DEF Rejected, Fails
<1>6. RefreshFails(c) => After(c, "calling", task[c].base) \/ Over(c, NoLogin)
  BY Lands, CallEnds DEF RefreshFails, Fails, Calling
<1>7. Answered(c) => Over(c, task[c].base) \/ Over(c, NoLogin)
  BY CallEnds DEF Answered, Fails
<1>8. Unauthorized(c) => Over(c, NoLogin) \/ After(c, "asking", NoLogin)
  BY Lands, CallEnds DEF Unauthorized, Fails, Asking
<1>9. HangUp(c) => After(c, "idle", NoLogin)
  BY Lands DEF HangUp, Idle
<1> QED
  BY <1>1, <1>2, <1>3, <1>4, <1>5, <1>6, <1>7, <1>8, <1>9

LEMMA ReaderStep ==
  ASSUME TypeOK
  PROVE  /\ Reader \in Callers
         /\ Read => After(Reader, "asking", NoLogin)
         /\ LandBars => After(Reader, "idle", NoLogin)
<1>0. NoLogin \in Login /\ Reader \in Callers
  BY DEF Login, Callers
<1>1. Read => After(Reader, "asking", NoLogin)
  BY <1>0, Lands DEF Read, Asking
<1>2. LandBars => After(Reader, "idle", NoLogin)
  BY <1>0, Lands DEF LandBars, Idle
<1> QED
  BY <1>0, <1>1, <1>2

\* A refresh that is answered stores a pair of the same grant.
LEMMA RefreshedStep ==
  ASSUME TypeOK, Current, NEW c \in Callers, Refreshed(c)
  PROVE  /\ login' = Tokens(login.grant, issued + 1)
         /\ login' \in Login
         /\ disk' \in {disk, login'}
         /\ After(c, "calling", login')
         /\ login.pair \in valid /\ login.pair # 0
         /\ issued < MaxPairs /\ issued' = issued + 1
         /\ valid' = (valid \ {login.pair}) \cup {issued + 1}
         /\ issued' \in 0..MaxPairs /\ valid' \subseteq Pairs
<1>1. /\ task[c].base = login /\ login.pair # 0 /\ login \in Login
      /\ task[c].force \in BOOLEAN /\ issued \in 0..MaxPairs /\ valid \subseteq Pairs
  BY DEF Refreshed, Current, RefreshHolds, TypeOK, Task
<1>2. /\ login' = Tokens(login.grant, issued + 1) /\ disk' \in {disk, login'}
      /\ login.pair \in valid
      /\ issued < MaxPairs /\ issued' = issued + 1
      /\ valid' = (valid \ {login.pair}) \cup {issued + 1}
  BY <1>1 DEF Refreshed, Rotates, Store
<1>3. issued + 1 \in Pairs /\ issued' \in 0..MaxPairs
  BY <1>1, <1>2, CodexAssumption DEF Pairs
<1>4. login' \in Login
  BY <1>1, <1>2, <1>3 DEF Login, Tokens, NoLogin
<1>5. After(c, "calling", login')
  BY <1>1, <1>4, Lands DEF Refreshed, Calling
<1> QED
  BY <1>1, <1>2, <1>3, <1>4, <1>5

\* The task of the code a is at pc with this pair, and every other where it was.
AfterPoll(a, pc, pair, aborted) ==
  /\ poll' \in [Codes -> Poll]
  /\ \A b \in Codes \ {a} : poll'[b] = poll[b]
  /\ poll'[a].pc = pc
  /\ poll'[a].pair = pair
  /\ poll'[a].aborted = aborted

LEMMA PollMoves ==
  ASSUME TypeOK, NEW a \in Codes, NEW pair \in 0..MaxPairs, NEW aborted \in BOOLEAN,
         NEW pc \in {"none", "answered", "storing", "clearing", "ended",
                     "polling", "exchanging", "queued"},
         Polls(a, Polling(pc, pair, aborted))
  PROVE  AfterPoll(a, pc, pair, aborted)
<1>1. Polling(pc, pair, aborted) \in Poll
  BY DEF Polling, Poll, Awaiting
<1>2. /\ poll' \in [Codes -> Poll]
      /\ \A b \in Codes \ {a} : poll'[b] = poll[b]
      /\ poll'[a] = Polling(pc, pair, aborted)
  BY <1>1 DEF Polls, TypeOK
<1> QED
  BY <1>2 DEF AfterPoll, Polling

LEMMA PollLocals ==
  ASSUME TypeOK, NEW a \in Codes
  PROVE
    /\ Spawn(a) => AfterPoll(a, "polling", 0, FALSE)
    /\ Approved(a) => AfterPoll(a, "exchanging", 0, FALSE)
    /\ GivesUp(a) => AfterPoll(a, "ended", 0, FALSE)
    /\ Exchanged(a) => AfterPoll(a, "answered", issued + 1, FALSE)
    /\ Queue(a) => \/ AfterPoll(a, "ended", 0, FALSE)
                   \/ ~poll[a].aborted /\ AfterPoll(a, "queued", poll[a].pair, FALSE)
    /\ TakeMutex(a) => AfterPoll(a, "storing", poll[a].pair, FALSE)
    /\ Persist(a) => AfterPoll(a, "clearing", 0, FALSE)
    /\ ForgetLimits(a) => AfterPoll(a, "ended", 0, FALSE)
<1>0. /\ poll[a].pair \in 0..MaxPairs /\ 0 \in 0..MaxPairs
      /\ FALSE \in BOOLEAN
      /\ issued < MaxPairs => issued + 1 \in 0..MaxPairs
  BY CodexAssumption DEF TypeOK, Poll
<1> USE <1>0, PollMoves
<1>1. Spawn(a) => AfterPoll(a, "polling", 0, FALSE)
  BY DEF Spawn, Polls
<1>2. Approved(a) => AfterPoll(a, "exchanging", 0, FALSE)
  BY DEF Approved
<1>3. GivesUp(a) => AfterPoll(a, "ended", 0, FALSE)
  BY DEF GivesUp, Ended
<1>4. Exchanged(a) => AfterPoll(a, "answered", issued + 1, FALSE)
  BY DEF Exchanged
<1>5. ASSUME Queue(a)
      PROVE  \/ AfterPoll(a, "ended", 0, FALSE)
             \/ ~poll[a].aborted /\ AfterPoll(a, "queued", poll[a].pair, FALSE)
  <2>1. CASE poll[a].aborted
    BY <1>5, <2>1 DEF Queue, Ended
  <2>2. CASE ~poll[a].aborted
    BY <1>5, <2>2 DEF Queue
  <2> QED
    BY <2>1, <2>2
<1>6. TakeMutex(a) => AfterPoll(a, "storing", poll[a].pair, FALSE)
  BY DEF TakeMutex
<1>7. Persist(a) => AfterPoll(a, "clearing", 0, FALSE)
  BY DEF Persist
<1>8. ForgetLimits(a) => AfterPoll(a, "ended", 0, FALSE)
  BY DEF ForgetLimits, Ended
<1> QED
  BY <1>1, <1>2, <1>3, <1>4, <1>5, <1>6, <1>7, <1>8

\* What aborting the registered task does to every task.
Stopped(b) ==
  IF b = polling /\ polling # NoGrant
  THEN \/ poll[b].pc \in Awaiting /\ poll'[b] = Ended
       \/ /\ poll[b].pc = "answered"
          /\ poll'[b] = Polling("answered", poll[b].pair, TRUE)
       \/ poll[b].pc \notin Awaiting \cup {"answered"} /\ poll'[b] = poll[b]
  ELSE poll'[b] = poll[b]

LEMMA AbortStep ==
  ASSUME TypeOK, SignOut \/ \E a \in Codes : Register(a)
  PROVE  /\ poll' \in [Codes -> Poll]
         /\ \A b \in Codes : Stopped(b)
<1>1. poll' = IF polling = NoGrant THEN poll ELSE [poll EXCEPT ![polling] = Aborted(@)]
  BY DEF SignOut, Register
<1>2. \A b \in Codes :
        /\ Aborted(poll[b]) \in Poll
        /\ poll[b].pc \in Awaiting => Aborted(poll[b]) = Ended
        /\ poll[b].pc = "answered" => Aborted(poll[b]) = Polling("answered", poll[b].pair, TRUE)
        /\ poll[b].pc \notin Awaiting \cup {"answered"} => Aborted(poll[b]) = poll[b]
  BY CodexAssumption DEF TypeOK, Aborted, Ended, Polling, Poll, Awaiting
<1>3. polling = NoGrant \/ polling \in Codes
  BY DEF TypeOK
<1>4. CASE polling = NoGrant
  BY <1>1, <1>4 DEF Stopped, TypeOK
<1>5. CASE polling \in Codes /\ polling # NoGrant
  <2>1. poll' \in [Codes -> Poll]
    BY <1>1, <1>2, <1>5 DEF TypeOK
  <2>2. ASSUME NEW b \in Codes PROVE Stopped(b)
    <3>1. poll'[b] = IF b = polling THEN Aborted(poll[b]) ELSE poll[b]
      BY <1>1, <1>5 DEF TypeOK
    <3> QED
      BY <1>2, <1>5, <3>1 DEF Stopped
  <2> QED
    BY <2>1, <2>2
<1> QED
  BY <1>3, <1>4, <1>5

-----------------------------------------------------------------------------
(* Types.                                                                  *)

LEMMA BarsTypes ==
  ASSUME BarsTypeOK
  PROVE  /\ BeginReading => BarsTypeOK'
         /\ ClearBars => BarsTypeOK'
         /\ ReadFallsDue => BarsTypeOK'
         /\ \A of \in Grants \cup {NoGrant} : Land(of) => BarsTypeOK'
<1>1. ASSUME NEW of \in Grants \cup {NoGrant}, NEW due \in BOOLEAN, NEW reading \in BOOLEAN
      PROVE  Shown(of, due, reading) \in Bars
  BY DEF Shown, Bars
<1>2. /\ bars.of \in Grants \cup {NoGrant} /\ NoGrant \in Grants \cup {NoGrant}
      /\ bars.due \in BOOLEAN /\ bars.reading \in BOOLEAN /\ stale \in BOOLEAN
  BY DEF BarsTypeOK, Bars
<1>3. BeginReading => BarsTypeOK'
  BY <1>1, <1>2 DEF BeginReading, BarsTypeOK
<1>4. ClearBars => BarsTypeOK'
  BY <1>1, <1>2 DEF ClearBars, BarsTypeOK
<1>5. ReadFallsDue => BarsTypeOK'
  BY <1>1, <1>2 DEF ReadFallsDue, BarsTypeOK
<1>6. ASSUME NEW of \in Grants \cup {NoGrant}, Land(of)
      PROVE  BarsTypeOK'
  <2>1. CASE stale
    BY <1>1, <1>2, <1>6, <2>1 DEF Land, BarsTypeOK
  <2>2. CASE ~stale
    BY <1>1, <1>2, <1>6, <2>2 DEF Land, BarsTypeOK
  <2> QED
    BY <2>1, <2>2
<1> QED
  BY <1>3, <1>4, <1>5, <1>6

LEMMA TypeStep ==
  ASSUME TypeOK, Current, Tokened, [Next]_vars
  PROVE  TypeOK'
<1> USE CodexAssumption DEF fileVars, flowVars, endpointVars, barsVars
<1>0. /\ NoLogin \in Login /\ NoGrant \notin Grants
      /\ \A l \in Login : l.pair # 0 => l.pair \in Pairs /\ l.grant \in Grants
      /\ \A l \in Login : l.pair \in 0..MaxPairs
      /\ Idle \in Task
  <2>1. NoLogin \in Login /\ NoLogin.pair = 0 /\ NoGrant \notin Grants
    BY DEF Login, NoLogin, Tokens
  <2>2. Idle \in Task
    BY <2>1, LocalsTyped DEF Idle
  <2>3. ASSUME NEW l \in Login
        PROVE  /\ l.pair # 0 => l.pair \in Pairs /\ l.grant \in Grants
               /\ l.pair \in 0..MaxPairs
    BY <2>1 DEF Login, Pairs
  <2> QED
    BY <2>1, <2>2, <2>3
<1>1. ASSUME NEW c \in Callers, RefreshHolds(c), RefreshUnheard(task[c].base.pair)
      PROVE  issued' \in 0..MaxPairs /\ valid' \subseteq Pairs
  <2>0. issued \in 0..MaxPairs /\ valid \subseteq Pairs
    BY DEF TypeOK
  <2>1. CASE Rotates(task[c].base.pair)
    <3>1. issued + 1 \in Pairs /\ issued + 1 \in 0..MaxPairs
      BY <2>0, <2>1 DEF Rotates, Pairs
    <3> QED
      BY <2>0, <2>1, <3>1 DEF Rotates
  <2>2. CASE UNCHANGED endpointVars
    BY <2>0, <2>2
  <2> QED
    BY <1>1, <2>1, <2>2 DEF RefreshUnheard
<1>2. ASSUME NEW c \in Callers,
             Ask(c) \/ NotSignedIn(c) \/ TakeToken(c) \/ StartRefresh(c) \/ Rejected(c)
               \/ RefreshFails(c) \/ Answered(c) \/ Unauthorized(c) \/ HangUp(c)
      PROVE  TypeOK'
  <2>1. task' \in [Callers -> Task]
    BY <1>2, StepLocals DEF After, Over
  <2>2. CASE RefreshFails(c) \/ HangUp(c)
    <3>1. issued' \in 0..MaxPairs /\ valid' \subseteq Pairs
      BY <1>1, <2>2 DEF RefreshFails, HangUp, RefreshHolds, TypeOK
    <3> QED
      BY <2>1, <2>2, <3>1 DEF RefreshFails, HangUp, TypeOK, BarsTypeOK
  <2>3. CASE ~RefreshFails(c) /\ ~HangUp(c)
    BY <1>2, <2>1, <2>3
       DEF TypeOK, BarsTypeOK, Ask, NotSignedIn, TakeToken, StartRefresh, Rejected, Answered,
           Unauthorized
  <2> QED
    BY <2>2, <2>3
<1>3. ASSUME NEW c \in Callers, Refreshed(c)
      PROVE  TypeOK'
  <2>1. UNCHANGED <<flowVars, out, barsVars>>
    BY <1>3 DEF Refreshed
  <2>2. /\ login' \in Login /\ disk' \in Login /\ task' \in [Callers -> Task]
        /\ issued' \in 0..MaxPairs /\ valid' \subseteq Pairs
    BY <1>3, RefreshedStep DEF After, TypeOK
  <2> QED
    BY <2>1, <2>2 DEF TypeOK, BarsTypeOK
<1>4. CASE Read
  BY <1>4, ReaderStep, BarsTypes DEF Read, After, TypeOK
<1>5. CASE LandBars
  <2>1. task[Reader].base \in Login
    BY ReaderStep DEF TypeOK, Task
  <2>2. BarsTypeOK'
    BY <1>0, <1>5, <2>1, BarsTypes DEF LandBars, TypeOK, BarsTypeOK, Bars
  <2> QED
    BY <1>5, <2>2, ReaderStep DEF LandBars, After, TypeOK
<1>6. CASE ReadFallsDue /\ UNCHANGED <<fileVars, task, flowVars, out, endpointVars>>
  BY <1>6, BarsTypes DEF TypeOK
<1>7. ASSUME NEW a \in Codes, Start(a) \/ StartFails(a)
      PROVE  TypeOK'
  BY <1>7 DEF Start, StartFails, TypeOK, BarsTypeOK
<1>8. ASSUME NEW a \in Codes, Spawn(a)
      PROVE  TypeOK'
  BY <1>8, PollLocals DEF Spawn, AfterPoll, TypeOK, BarsTypeOK
<1>9. ASSUME NEW a \in Codes, Register(a)
      PROVE  TypeOK'
  BY <1>9, AbortStep DEF Register, TypeOK, BarsTypeOK
<1>10. ASSUME NEW a \in Codes, Approved(a) \/ GivesUp(a) \/ Queue(a) \/ TakeMutex(a)
       PROVE  TypeOK'
  <2>1. poll' \in [Codes -> Poll]
    BY <1>10, PollLocals DEF AfterPoll
  <2> QED
    BY <1>10, <2>1 DEF Approved, GivesUp, Queue, TakeMutex, TypeOK, BarsTypeOK
<1>11. ASSUME NEW a \in Codes, Exchanged(a)
       PROVE  TypeOK'
  <2>1. poll' \in [Codes -> Poll]
    BY <1>11, PollLocals DEF AfterPoll
  <2>2. issued' \in 0..MaxPairs /\ valid' \subseteq Pairs
    BY <1>11 DEF Exchanged, TypeOK, Pairs
  <2> QED
    BY <1>11, <2>1, <2>2 DEF Exchanged, TypeOK, BarsTypeOK
<1>12. ASSUME NEW a \in Codes, Persist(a)
       PROVE  TypeOK'
  <2>1. poll' \in [Codes -> Poll]
    BY <1>12, PollLocals DEF AfterPoll
  <2>2. poll[a].pair \in Pairs
    BY <1>12 DEF Persist, Tokened, InHandOf, TypeOK
  <2>3. login' \in Login /\ disk' \in Login
    BY <1>12, <2>2 DEF Persist, Store, Tokens, Login, Codes, TypeOK
  <2> QED
    BY <1>12, <2>1, <2>3 DEF Persist, TypeOK, BarsTypeOK
<1>13. ASSUME NEW a \in Codes, ForgetLimits(a)
       PROVE  TypeOK'
  <2>1. poll' \in [Codes -> Poll]
    BY <1>13, PollLocals DEF AfterPoll
  <2> QED
    BY <1>13, <2>1, BarsTypes DEF ForgetLimits, TypeOK
<1>14. CASE SignOut
  <2>1. out' \in Out
    BY <1>14 DEF SignOut, SigningOut, Out
  <2> QED
    BY <1>14, <2>1, AbortStep DEF SignOut, TypeOK, BarsTypeOK
<1>15. CASE RemoveLogin
  <2>1. out' \in Out
    BY <1>0, <1>15 DEF RemoveLogin, SigningOut, Out, TypeOK
  <2> QED
    BY <1>0, <1>15, <2>1 DEF RemoveLogin, TypeOK, BarsTypeOK
<1>16. CASE SignOutForgets
  <2>1. out' \in Out
    BY <1>16 DEF SignOutForgets, SigningOut, Out, TypeOK
  <2> QED
    BY <1>16, <2>1, BarsTypes DEF SignOutForgets, TypeOK
<1>17. CASE Revoked \/ SignOutDropped
  <2>1. out' \in Out /\ valid' \subseteq Pairs
    BY <1>17 DEF Revoked, SignOutDropped, SigningOut, Out, TypeOK
  <2> QED
    BY <1>17, <2>1 DEF Revoked, SignOutDropped, TypeOK, BarsTypeOK
<1>18. CASE Restart
  <2>1. task' \in [Callers -> Task] /\ login' \in Login /\ disk' \in Login
    BY <1>0, <1>18 DEF Restart, TypeOK
  <2>2. /\ start' \in [Codes -> {"none", "asking", "spawned", "done"}]
        /\ polling' \in Codes \cup {NoGrant}
        /\ BarsTypeOK'
    BY <1>18 DEF Restart, FreshBars, Shown, BarsTypeOK, Bars
  <2>3. poll' \in [Codes -> Poll] /\ out' \in Out
    BY <1>18 DEF Restart, Ended, Polling, Poll, SigningOut, Out, TypeOK
  <2>4. issued' \in 0..MaxPairs /\ valid' \subseteq Pairs
    BY <1>1, <1>18 DEF Restart, RefreshUnheard, RefreshHolds, TypeOK
  <2> QED
    BY <2>1, <2>2, <2>3, <2>4 DEF TypeOK
<1>19. CASE UNCHANGED vars
  BY <1>19 DEF TypeOK, BarsTypeOK, vars
<1> QED
  BY <1>2, <1>3, <1>4, <1>5, <1>6, <1>7, <1>8, <1>9, <1>10, <1>11, <1>12, <1>13, <1>14,
     <1>15, <1>16, <1>17, <1>18, <1>19 DEF Next, Acquire, Resume, Complete

-----------------------------------------------------------------------------
(* The mutex.                                                              *)

LEMMA MutexShrinks ==
  ASSUME Mutex,
         \A c \in Callers : RefreshHolds(c)' => RefreshHolds(c),
         \A a \in Codes : CodeHolds(a)' => CodeHolds(a),
         OutHolds' => OutHolds
  PROVE  Mutex'
BY DEF Mutex

\* The steps that do not take the mutex.
LEMMA NobodyTakes ==
  ASSUME TypeOK, Next,
         ~(\E c \in Callers : StartRefresh(c)),
         ~(\E a \in Codes : TakeMutex(a)),
         ~RemoveLogin
  PROVE  /\ \A c \in Callers : RefreshHolds(c)' => RefreshHolds(c) /\ task'[c] = task[c]
         /\ \A a \in Codes : CodeHolds(a)' => CodeHolds(a)
         /\ OutHolds' => OutHolds
<1> USE DEF flowVars
<1>1. ASSUME NEW c \in Callers,
             Ask(c) \/ NotSignedIn(c) \/ TakeToken(c) \/ Rejected(c) \/ RefreshFails(c)
               \/ Answered(c) \/ Unauthorized(c) \/ HangUp(c) \/ Refreshed(c)
      PROVE  /\ \A d \in Callers : RefreshHolds(d)' => RefreshHolds(d) /\ task'[d] = task[d]
             /\ UNCHANGED <<poll, out>>
  <2>1. UNCHANGED <<poll, out>>
    BY <1>1 DEF Ask, NotSignedIn, TakeToken, Rejected, RefreshFails, Answered, Unauthorized,
                HangUp, Refreshed
  <2>2. CASE Refreshed(c)
    <3>1. NoLogin \in Login /\ task[c].base \in Login /\ task[c].force \in BOOLEAN
      BY DEF TypeOK, Task, Login
    <3>2. \A d \in Callers \ {c} : task'[d] = task[d]
      BY <2>2 DEF Refreshed, Becomes, TypeOK
    <3>3. task'[c].pc = "calling"
      BY <2>2 DEF Refreshed, Becomes, TypeOK, Calling, Locals
    <3> QED
      BY <2>1, <3>2, <3>3 DEF RefreshHolds
  <2>3. CASE ~Refreshed(c)
    <3>1. /\ \A d \in Callers \ {c} : task'[d] = task[d]
          /\ task'[c].pc # "refreshing"
      BY <1>1, <2>3, StepLocals DEF After, Over
    <3> QED
      BY <2>1, <3>1 DEF RefreshHolds
  <2> QED
    BY <2>2, <2>3
<1>2. CASE Read \/ LandBars \/ (ReadFallsDue /\ UNCHANGED <<fileVars, task, flowVars, out, endpointVars>>)
  <2>1. UNCHANGED <<poll, out>>
    BY <1>2 DEF Read, LandBars
  <2>2. \A d \in Callers : RefreshHolds(d)' => RefreshHolds(d) /\ task'[d] = task[d]
    BY <1>2, ReaderStep DEF After, RefreshHolds
  <2> QED
    BY <2>1, <2>2 DEF CodeHolds, OutHolds
<1>3. ASSUME NEW a \in Codes,
             Spawn(a) \/ Approved(a) \/ GivesUp(a) \/ Exchanged(a) \/ Queue(a)
               \/ ForgetLimits(a) \/ Persist(a)
      PROVE  /\ \A b \in Codes : CodeHolds(b)' => CodeHolds(b)
             /\ UNCHANGED <<task, out>>
  <2>1. UNCHANGED <<task, out>>
    BY <1>3 DEF Spawn, Approved, GivesUp, Exchanged, Queue, ForgetLimits, Persist
  <2>2. CASE Persist(a)
    BY <2>1, <2>2, PollLocals DEF AfterPoll, CodeHolds, Persist
  <2>3. CASE ~Persist(a)
    BY <1>3, <2>1, <2>3, PollLocals DEF AfterPoll, CodeHolds
  <2> QED
    BY <2>2, <2>3
<1>4. ASSUME SignOut \/ \E a \in Codes : Register(a)
      PROVE  /\ \A b \in Codes : CodeHolds(b)' => CodeHolds(b)
             /\ task' = task /\ (OutHolds' => OutHolds)
  <2>1. task' = task /\ (OutHolds' => OutHolds)
    BY <1>4 DEF SignOut, Register, OutHolds, SigningOut
  <2>2. \A b \in Codes : CodeHolds(b)' => CodeHolds(b)
    <3>1. \A b \in Codes : Stopped(b)
      BY <1>4, AbortStep
    <3>2. Ended.pc = "ended" /\ \A pair : Polling("answered", pair, TRUE).pc = "answered"
      BY DEF Ended, Polling
    <3> QED
      BY <3>1, <3>2 DEF Stopped, CodeHolds
  <2> QED
    BY <2>1, <2>2
<1>5. ASSUME NEW a \in Codes, Start(a) \/ StartFails(a)
      PROVE  UNCHANGED <<task, poll, out>>
  BY <1>5 DEF Start, StartFails
<1>6. CASE SignOutForgets \/ Revoked \/ SignOutDropped
  BY <1>6 DEF SignOutForgets, Revoked, SignOutDropped, OutHolds, SigningOut, RefreshHolds,
              CodeHolds
<1>7. CASE Restart
  <2>1. \A c \in Callers : ~RefreshHolds(c)'
    BY <1>7 DEF Restart, Idle, Locals, RefreshHolds
  <2>2. \A a \in Codes : ~CodeHolds(a)'
    BY <1>7 DEF Restart, Ended, Polling, CodeHolds
  <2>3. ~OutHolds'
    BY <1>7 DEF Restart, SigningOut, OutHolds
  <2> QED
    BY <2>1, <2>2, <2>3
<1>8. CASE \E c \in Callers : Ask(c) \/ Acquire(c) \/ Resume(c) \/ HangUp(c)
  BY <1>1, <1>8 DEF Acquire, Resume, CodeHolds, OutHolds
<1>9. CASE \E a \in Codes : \/ Start(a) \/ StartFails(a) \/ Spawn(a) \/ Register(a)
                            \/ Approved(a) \/ TakeMutex(a) \/ Complete(a)
  BY <1>3, <1>4, <1>5, <1>9 DEF Complete, RefreshHolds, CodeHolds, OutHolds
<1> QED
  BY <1>2, <1>4, <1>6, <1>7, <1>8, <1>9 DEF Next, RefreshHolds

LEMMA MutexStep ==
  ASSUME TypeOK, Mutex, Next
  PROVE  Mutex'
<1>1. ASSUME NEW c \in Callers, StartRefresh(c)
      PROVE  Mutex'
  <2>1. /\ \A d \in Callers : ~RefreshHolds(d)
        /\ \A a \in Codes : ~CodeHolds(a)
        /\ ~OutHolds
        /\ UNCHANGED <<poll, out>>
    BY <1>1 DEF StartRefresh, Free, RefreshHolds, CodeHolds, OutHolds, flowVars
  <2>2. \A d \in Callers : RefreshHolds(d)' => d = c
    BY <1>1, <2>1, StepLocals DEF After, RefreshHolds
  <2> QED
    BY <2>1, <2>2 DEF Mutex, CodeHolds, OutHolds
<1>2. ASSUME NEW a \in Codes, TakeMutex(a)
      PROVE  Mutex'
  <2>1. /\ \A d \in Callers : ~RefreshHolds(d)
        /\ \A b \in Codes : ~CodeHolds(b)
        /\ ~OutHolds
        /\ UNCHANGED <<task, out>>
    BY <1>2 DEF TakeMutex, Free, RefreshHolds, CodeHolds, OutHolds
  <2>2. \A b \in Codes : CodeHolds(b)' => b = a
    BY <1>2, <2>1, PollLocals DEF AfterPoll, CodeHolds
  <2> QED
    BY <2>1, <2>2 DEF Mutex, RefreshHolds, OutHolds
<1>3. CASE RemoveLogin
  <2>1. /\ \A d \in Callers : ~RefreshHolds(d)
        /\ \A b \in Codes : ~CodeHolds(b)
        /\ UNCHANGED <<task, poll>>
    BY <1>3 DEF RemoveLogin, Free, RefreshHolds, CodeHolds, flowVars
  <2> QED
    BY <2>1 DEF Mutex, RefreshHolds, CodeHolds
<1> QED
  BY <1>1, <1>2, <1>3, NobodyTakes, MutexShrinks

-----------------------------------------------------------------------------
(* The login and the pairs.                                                *)

\* The steps that leave the login alone.
LEMMA LoginFixed ==
  ASSUME Next,
         ~(\E c \in Callers : Refreshed(c)),
         ~(\E a \in Codes : Persist(a)),
         ~RemoveLogin, ~Restart
  PROVE  login' = login /\ disk' = disk
<1> USE DEF fileVars
<1>1. ASSUME NEW c \in Callers, Ask(c) \/ Acquire(c) \/ Resume(c) \/ HangUp(c)
      PROVE  UNCHANGED fileVars
  BY <1>1 DEF Acquire, Resume, Ask, NotSignedIn, TakeToken, StartRefresh, Rejected,
              RefreshFails, Answered, Unauthorized, HangUp
<1>2. ASSUME NEW a \in Codes,
             \/ Start(a) \/ StartFails(a) \/ Spawn(a) \/ Register(a)
             \/ Approved(a) \/ TakeMutex(a) \/ Complete(a)
      PROVE  UNCHANGED fileVars
  BY <1>2 DEF Complete, Start, StartFails, Spawn, Register, Approved, TakeMutex, GivesUp,
              Exchanged, Queue, ForgetLimits
<1>3. CASE Read \/ LandBars \/ SignOut \/ SignOutForgets \/ Revoked \/ SignOutDropped
  BY <1>3 DEF Read, LandBars, SignOut, SignOutForgets, Revoked, SignOutDropped
<1> QED
  BY <1>1, <1>2, <1>3 DEF Next

\* The steps that leave the endpoint alone.
LEMMA EndpointFixed ==
  ASSUME Next,
         ~(\E c \in Callers : Refreshed(c) \/ RefreshFails(c) \/ HangUp(c)),
         ~(\E a \in Codes : Exchanged(a)),
         ~Revoked, ~SignOutDropped, ~Restart
  PROVE  issued' = issued /\ valid' = valid
<1> USE DEF endpointVars
<1>1. ASSUME NEW c \in Callers, Ask(c) \/ Acquire(c) \/ Resume(c)
      PROVE  UNCHANGED endpointVars
  BY <1>1 DEF Acquire, Resume, Ask, NotSignedIn, TakeToken, StartRefresh, Rejected,
              Answered, Unauthorized
<1>2. ASSUME NEW a \in Codes,
             \/ Start(a) \/ StartFails(a) \/ Spawn(a) \/ Register(a)
             \/ Approved(a) \/ TakeMutex(a) \/ Complete(a)
      PROVE  UNCHANGED endpointVars
  BY <1>2 DEF Complete, Start, StartFails, Spawn, Register, Approved, TakeMutex, GivesUp,
              Queue, Persist, ForgetLimits
<1>3. CASE Read \/ LandBars \/ SignOut \/ RemoveLogin \/ SignOutForgets
  BY <1>3 DEF Read, LandBars, SignOut, RemoveLogin, SignOutForgets
<1> QED
  BY <1>1, <1>2, <1>3 DEF Next

\* A refresh whose answer is not heard spends at most the pair in hand.
LEMMA Unheard ==
  ASSUME TypeOK, Current, Tokened, NEW c \in Callers, RefreshFails(c) \/ HangUp(c)
  PROVE  \/ issued' = issued /\ valid' = valid
         \/ /\ task[c].pc = "refreshing"
            /\ issued' = issued + 1
            /\ valid' = (valid \ {login.pair}) \cup {issued + 1}
            /\ valid' # valid
<1>1. CASE Rotates(login.pair) /\ task[c].pc = "refreshing"
  <2>1. /\ issued' = issued + 1
        /\ valid' = (valid \ {login.pair}) \cup {issued + 1}
        /\ login.pair \in valid
    BY <1>1 DEF Rotates
  <2>2. login.pair # issued + 1
    BY <2>1 DEF TypeOK, Tokened, Pairs
  <2>3. login.pair \notin valid'
    BY <2>1, <2>2
  <2> QED
    BY <1>1, <2>1, <2>3
<1>2. CASE UNCHANGED endpointVars
  BY <1>2 DEF endpointVars
<1> QED
  BY <1>1, <1>2 DEF RefreshFails, HangUp, RefreshUnheard, Current, RefreshHolds

\* A new login is stored under the mutex.
LEMMA PersistStep ==
  ASSUME TypeOK, Mutex, Tokened, NEW a \in Codes, Persist(a)
  PROVE  /\ login' = Tokens(a, poll[a].pair) /\ disk' \in {disk, login'}
         /\ poll[a].pair # 0 /\ poll[a].pair \in valid /\ poll[a].pair <= issued
         /\ InHandOf(a) /\ CodeHolds(a) /\ ~OutHolds
         /\ \A c \in Callers : ~RefreshHolds(c)
         /\ UNCHANGED <<task, out, issued, valid>>
BY DEF Persist, Store, Mutex, CodeHolds, Tokened, InHandOf, endpointVars

LEMMA CurrentStep ==
  ASSUME TypeOK, Mutex, Current, Tokened, Next
  PROVE  Current'
<1>1. ASSUME NEW c \in Callers, StartRefresh(c)
      PROVE  Current'
  <2>1. /\ login' = login /\ disk' = disk /\ out' = out
        /\ login.pair # 0
        /\ \A d \in Callers : ~RefreshHolds(d)
    BY <1>1 DEF StartRefresh, Free, RefreshHolds, fileVars
  <2>2. After(c, "refreshing", login)
    BY <1>1, StepLocals
  <2> QED
    BY <2>1, <2>2 DEF Current, After, RefreshHolds, OutHolds
<1>2. ASSUME NEW c \in Callers, Refreshed(c)
      PROVE  Current'
  <2>1. /\ login'.pair # 0 /\ out' = out /\ ~OutHolds
        /\ \A d \in Callers : RefreshHolds(d) => d = c
    BY <1>2, RefreshedStep DEF Refreshed, Mutex, RefreshHolds, Tokens, TypeOK
  <2>2. After(c, "calling", login')
    BY <1>2, RefreshedStep
  <2> QED
    BY <2>1, <2>2 DEF Current, After, RefreshHolds, OutHolds
<1>3. ASSUME NEW a \in Codes, Persist(a)
      PROVE  Current'
  BY <1>3, PersistStep DEF Current, RefreshHolds, OutHolds, Tokens
<1>4. CASE RemoveLogin
  BY <1>4 DEF RemoveLogin, Free, Current, RefreshHolds
<1>5. CASE Restart
  <2>1. \A c \in Callers : ~RefreshHolds(c)'
    BY <1>5 DEF Restart, Idle, Locals, RefreshHolds
  <2> QED
    BY <1>5, <2>1 DEF Restart, SigningOut, OutHolds, Current
<1>6. CASE /\ ~(\E c \in Callers : StartRefresh(c) \/ Refreshed(c))
           /\ ~(\E a \in Codes : Persist(a))
           /\ ~RemoveLogin /\ ~Restart
  <2>1. login' = login /\ disk' = disk
    BY <1>6, LoginFixed
  <2>2. CASE ~(\E a \in Codes : TakeMutex(a))
    BY <1>6, <2>1, <2>2, NobodyTakes DEF Current, RefreshHolds
  <2>3. CASE \E a \in Codes : TakeMutex(a)
    BY <2>1, <2>3 DEF TakeMutex, Current, RefreshHolds, OutHolds
  <2> QED
    BY <2>2, <2>3
<1> QED
  BY <1>1, <1>2, <1>3, <1>4, <1>5, <1>6

\* Only an exchange puts tokens in the hands of a code's task.
LEMMA TokensStay ==
  ASSUME TypeOK, Next, ~(\E a \in Codes : Exchanged(a)), NEW b \in Codes, InHandOf(b)'
  PROVE  InHandOf(b) /\ poll'[b].pair = poll[b].pair
<1> USE DEF flowVars
<1>1. CASE poll' = poll
  BY <1>1 DEF InHandOf
<1>2. ASSUME NEW a \in Codes,
             \/ Spawn(a) \/ Approved(a) \/ GivesUp(a) \/ Queue(a) \/ TakeMutex(a)
             \/ Persist(a) \/ ForgetLimits(a)
      PROVE  InHandOf(b) /\ poll'[b].pair = poll[b].pair
  <2>1. CASE a # b
    BY <1>2, <2>1, PollLocals DEF AfterPoll, InHandOf
  <2>2. CASE a = b
    BY <1>2, <2>2, PollLocals DEF AfterPoll, InHandOf, Queue, TakeMutex
  <2> QED
    BY <2>1, <2>2
<1>3. CASE SignOut \/ \E a \in Codes : Register(a)
  <2>1. Stopped(b)
    BY <1>3, AbortStep
  <2>2. /\ Ended.pc = "ended"
        /\ \A pair : /\ Polling("answered", pair, TRUE).pc = "answered"
                     /\ Polling("answered", pair, TRUE).pair = pair
    BY DEF Ended, Polling
  <2> QED
    BY <2>1, <2>2 DEF Stopped, InHandOf, Awaiting
<1>4. CASE Restart
  BY <1>4 DEF Restart, Ended, Polling, InHandOf
<1>5. ASSUME NEW c \in Callers, Ask(c) \/ Acquire(c) \/ Resume(c) \/ HangUp(c)
      PROVE  poll' = poll
  BY <1>5 DEF Acquire, Resume, Ask, NotSignedIn, TakeToken, StartRefresh, Rejected,
              RefreshFails, Answered, Unauthorized, HangUp, Refreshed
<1>6. CASE Read \/ LandBars \/ RemoveLogin \/ SignOutForgets \/ Revoked \/ SignOutDropped
  BY <1>1, <1>6 DEF Read, LandBars, RemoveLogin, SignOutForgets, Revoked, SignOutDropped
<1>7. ASSUME NEW a \in Codes, Start(a) \/ StartFails(a)
      PROVE  poll' = poll
  BY <1>7 DEF Start, StartFails
<1> QED
  BY <1>1, <1>2, <1>3, <1>4, <1>5, <1>6, <1>7 DEF Next, Complete

\* The sign-out is where it was.
LEMMA OutFixed ==
  ASSUME Next, ~SignOut, ~RemoveLogin, ~SignOutForgets, ~Revoked, ~SignOutDropped, ~Restart
  PROVE  out' = out
<1>1. ASSUME NEW c \in Callers, Ask(c) \/ Acquire(c) \/ Resume(c) \/ HangUp(c)
      PROVE  out' = out
  BY <1>1 DEF Acquire, Resume, Ask, NotSignedIn, TakeToken, StartRefresh, Rejected,
              RefreshFails, Answered, Unauthorized, HangUp, Refreshed
<1>2. ASSUME NEW a \in Codes,
             \/ Start(a) \/ StartFails(a) \/ Spawn(a) \/ Register(a)
             \/ Approved(a) \/ TakeMutex(a) \/ Complete(a)
      PROVE  out' = out
  BY <1>2 DEF Complete, Start, StartFails, Spawn, Register, Approved, TakeMutex, GivesUp,
              Exchanged, Queue, Persist, ForgetLimits
<1> QED
  BY <1>1, <1>2 DEF Next, Read, LandBars

LEMMA TokenedStep ==
  ASSUME TypeOK, Mutex, Current, Tokened, Next
  PROVE  Tokened'
<1> USE DEF fileVars, flowVars, endpointVars
<1>0. /\ issued \in Nat /\ login.pair \in Nat /\ disk.pair \in Nat /\ out.pair \in Nat
      /\ \A b \in Codes : poll[b].pair \in Nat
      /\ NoLogin.pair = 0
      /\ \A pc, pair : SigningOut(pc, pair).pc = pc /\ SigningOut(pc, pair).pair = pair
      /\ \A grant, pair : Tokens(grant, pair).pair = pair
  BY CodexAssumption DEF TypeOK, Login, NoLogin, Tokens, Pairs, Out, Poll, SigningOut
<1>1. ASSUME NEW a \in Codes, Exchanged(a)
      PROVE  Tokened'
  <2>1. /\ UNCHANGED <<login, disk, out>>
        /\ issued' = issued + 1 /\ valid' = valid \cup {issued + 1}
    BY <1>1 DEF Exchanged
  <2>2. /\ \A b \in Codes \ {a} : poll'[b] = poll[b]
        /\ poll'[a].pair = issued + 1
    BY <1>1, PollLocals DEF AfterPoll
  <2>3. ASSUME NEW b \in Codes, InHandOf(b)'
        PROVE  /\ poll'[b].pair # 0 /\ poll'[b].pair <= issued + 1 /\ poll'[b].pair \in valid'
               /\ poll'[b].pair # login.pair /\ poll'[b].pair # out.pair
               /\ b # a => poll'[b].pair # issued + 1
    BY <1>0, <2>1, <2>2, <2>3 DEF Tokened, InHandOf
  <2> QED
    BY <1>0, <2>1, <2>2, <2>3 DEF Tokened, InHandOf
<1>3. CASE Restart
  <2>1. /\ \A b \in Codes : ~InHandOf(b)'
        /\ login' = disk /\ disk' = disk /\ out' = SigningOut("idle", 0)
    BY <1>3 DEF Restart, Ended, Polling, InHandOf
  <2>2. issued' \in {issued, issued + 1}
    BY <1>3 DEF Restart, Rotates
  <2> QED
    BY <1>0, <2>1, <2>2 DEF Tokened
<1>4. ASSUME NEW c \in Callers, Refreshed(c)
      PROVE  Tokened'
  <2>1. /\ login'.pair = issued + 1 /\ disk'.pair \in {disk.pair, issued + 1}
        /\ issued' = issued + 1 /\ out' = out
        /\ valid' = (valid \ {login.pair}) \cup {issued + 1}
    BY <1>0, <1>4, RefreshedStep DEF Refreshed
  <2>2. poll' = poll
    BY <1>4 DEF Refreshed
  <2> QED
    BY <1>0, <2>1, <2>2 DEF Tokened, InHandOf
<1>5. ASSUME NEW c \in Callers, RefreshFails(c) \/ HangUp(c)
      PROVE  Tokened'
  <2>1. UNCHANGED <<login, disk, out, poll>>
    BY <1>5 DEF RefreshFails, HangUp
  <2>2. CASE issued' = issued /\ valid' = valid
    BY <2>1, <2>2 DEF Tokened, InHandOf
  <2>3. CASE issued' = issued + 1 /\ valid' = (valid \ {login.pair}) \cup {issued + 1}
    BY <1>0, <2>1, <2>3 DEF Tokened, InHandOf
  <2> QED
    BY <1>5, <2>2, <2>3, Unheard
<1>6. CASE Revoked \/ SignOutDropped
  <2>1. /\ UNCHANGED <<login, disk, issued, poll>> /\ out' = SigningOut("idle", 0)
        /\ valid' \in {valid, valid \ {out.pair}}
    BY <1>6 DEF Revoked, SignOutDropped
  <2> QED
    BY <1>0, <2>1 DEF Tokened, InHandOf
<1>7. CASE RemoveLogin
  <2>1. /\ login' = NoLogin /\ disk' = NoLogin /\ out' = SigningOut("clearing", login.pair)
        /\ UNCHANGED <<issued, valid, poll>>
    BY <1>7 DEF RemoveLogin
  <2> QED
    BY <1>0, <2>1 DEF Tokened, InHandOf
<1>8. CASE SignOutForgets
  <2>1. /\ UNCHANGED <<login, disk, issued, valid, poll>>
        /\ \/ out' = SigningOut("idle", 0)
           \/ out' = SigningOut("revoking", out.pair)
    BY <1>8 DEF SignOutForgets
  <2> QED
    BY <1>0, <2>1 DEF Tokened, InHandOf
<1>9. CASE SignOut
  <2>1. UNCHANGED <<login, disk, issued, valid>> /\ out' = SigningOut("waiting", 0)
    BY <1>9 DEF SignOut
  <2>2. \A b \in Codes : InHandOf(b)' => InHandOf(b) /\ poll'[b].pair = poll[b].pair
    <3>1. ASSUME NEW a \in Codes, Exchanged(a) PROVE FALSE
      <4>1. issued' = issued /\ issued' = issued + 1
        BY <2>1, <3>1 DEF Exchanged
      <4> QED
        BY <1>0, <4>1
    <3> QED
      BY <3>1, TokensStay
  <2> QED
    BY <1>0, <2>1, <2>2 DEF Tokened
<1>10. ASSUME NEW a \in Codes, Persist(a)
       PROVE  Tokened'
  <2>1. /\ login'.pair = poll[a].pair /\ disk'.pair \in {disk.pair, poll[a].pair}
        /\ poll[a].pair <= issued /\ InHandOf(a)
        /\ UNCHANGED <<issued, valid, out>>
    BY <1>0, <1>10, PersistStep
  <2>2. /\ \A b \in Codes \ {a} : poll'[b] = poll[b]
        /\ ~InHandOf(a)'
    BY <1>10, PollLocals DEF AfterPoll, InHandOf
  <2> QED
    BY <1>0, <2>1, <2>2 DEF Tokened, InHandOf
<1>11. CASE /\ ~(\E c \in Callers : Refreshed(c) \/ RefreshFails(c) \/ HangUp(c))
            /\ ~(\E a \in Codes : Exchanged(a) \/ Persist(a))
            /\ ~SignOut /\ ~RemoveLogin /\ ~SignOutForgets /\ ~Revoked /\ ~SignOutDropped
            /\ ~Restart
  <2>1. UNCHANGED <<login, disk, out, issued, valid>>
    BY <1>11, LoginFixed, EndpointFixed, OutFixed
  <2>2. \A b \in Codes : InHandOf(b)' => InHandOf(b) /\ poll'[b].pair = poll[b].pair
    BY <1>11, TokensStay
  <2> QED
    BY <2>1, <2>2 DEF Tokened
<1> QED
  BY <1>1, <1>3, <1>4, <1>5, <1>6, <1>7, <1>8, <1>9, <1>10, <1>11

LEMMA AcceptedStep ==
  ASSUME TypeOK, Mutex, Current, Tokened, Accepted, PromiseNext
  PROVE  Accepted'
<1> USE DEF endpointVars
<1>0. Next /\ NoLogin.pair = 0 /\ \A grant, pair : Tokens(grant, pair).pair = pair
  BY DEF PromiseNext, NoLogin, Tokens
<1>1. CASE \E a \in Codes : Persist(a)
  BY <1>0, <1>1, PersistStep DEF Accepted
<1>2. CASE ~(\E a \in Codes : Persist(a))
  <2>0. cut' = (cut \/ CutOff)
    BY <1>2 DEF PromiseNext, HistoryNext
  <2>1. ASSUME NEW c \in Callers, Refreshed(c)
        PROVE  Accepted'
    BY <1>0, <2>1, RefreshedStep DEF Accepted
  <2>2. ASSUME NEW c \in Callers, RefreshFails(c) \/ HangUp(c)
        PROVE  Accepted'
    <3>1. login' = login
      BY <2>2 DEF RefreshFails, HangUp, fileVars
    <3>2. CASE valid' = valid
      BY <2>0, <3>1, <3>2 DEF Accepted
    <3>3. CASE valid' # valid
      BY <2>0, <2>2, <3>3, Unheard DEF CutOff, Accepted
    <3> QED
      BY <3>2, <3>3
  <2>3. CASE Revoked \/ SignOutDropped
    <3>1. login' = login /\ valid' \in {valid, valid \ {out.pair}}
      BY <2>3 DEF Revoked, SignOutDropped, fileVars
    <3>2. login = NoLogin \/ out.pair = 0
      BY <2>3 DEF Revoked, SignOutDropped, Current, OutHolds, Tokened
    <3> QED
      BY <1>0, <2>0, <3>1, <3>2 DEF Accepted
  <2>4. CASE RemoveLogin
    BY <1>0, <2>4 DEF RemoveLogin, Accepted
  <2>5. CASE Restart
    <3>1. login' = disk
      BY <2>5 DEF Restart
    <3>2. CASE disk # login
      BY <2>0, <2>5, <3>2 DEF CutOff, Accepted
    <3>3. CASE valid' # valid
      <4>1. \E c \in Callers : task[c].pc = "refreshing"
        BY <2>5, <3>3 DEF Restart
      <4> QED
        BY <2>0, <2>5, <3>3, <4>1 DEF CutOff, Accepted
    <3>4. CASE disk = login /\ valid' = valid
      BY <2>0, <3>1, <3>4 DEF Accepted
    <3> QED
      BY <3>2, <3>3, <3>4
  <2>6. ASSUME NEW a \in Codes, Exchanged(a)
        PROVE  Accepted'
    BY <2>0, <2>6 DEF Exchanged, fileVars, Accepted
  <2>7. CASE /\ ~(\E c \in Callers : Refreshed(c) \/ RefreshFails(c) \/ HangUp(c))
             /\ ~(\E a \in Codes : Exchanged(a))
             /\ ~Revoked /\ ~SignOutDropped /\ ~RemoveLogin /\ ~Restart
    <3>1. login' = login /\ valid' = valid
      BY <1>0, <1>2, <2>7, LoginFixed, EndpointFixed
    <3> QED
      BY <2>0, <3>1 DEF Accepted
  <2> QED
    BY <2>1, <2>2, <2>3, <2>4, <2>5, <2>6, <2>7
<1> QED
  BY <1>1, <1>2

-----------------------------------------------------------------------------
(* The codes.                                                              *)

\* A code whose task can still sign the slot in.
Live(a) == poll[a].pc \in Awaiting \/ (poll[a].pc = "answered" /\ ~poll[a].aborted)

\* The steps that leave every code's flow alone.
LEMMA FlowFixed ==
  ASSUME Next,
         ~(\E a \in Codes : \/ Start(a) \/ StartFails(a) \/ Spawn(a) \/ Register(a)
                            \/ Approved(a) \/ TakeMutex(a) \/ Complete(a)),
         ~SignOut, ~Restart
  PROVE  start' = start /\ poll' = poll /\ polling' = polling
<1> USE DEF flowVars
<1>1. ASSUME NEW c \in Callers, Ask(c) \/ Acquire(c) \/ Resume(c) \/ HangUp(c)
      PROVE  UNCHANGED flowVars
  BY <1>1 DEF Acquire, Resume, Ask, NotSignedIn, TakeToken, StartRefresh, Rejected,
              RefreshFails, Answered, Unauthorized, HangUp, Refreshed
<1>2. CASE Read \/ LandBars \/ RemoveLogin \/ SignOutForgets \/ Revoked \/ SignOutDropped
  BY <1>2 DEF Read, LandBars, RemoveLogin, SignOutForgets, Revoked, SignOutDropped
<1> QED
  BY <1>1, <1>2 DEF Next

LEMMA PolledStep ==
  ASSUME TypeOK, Polled, OneLoginInProgress, PromiseNext
  PROVE  Polled' /\ OneLoginInProgress'
<1> USE DEF Codes
<1>0. /\ Next
      /\ cancelled \subseteq Codes
      /\ polling \in Codes \cup {NoGrant}
      /\ cancelled' = IF (SignOut \/ \E a \in Codes : Register(a))
                         /\ polling # NoGrant /\ poll[polling].pc \in Awaiting
                      THEN cancelled \cup {polling} ELSE cancelled
      /\ Ended.pc = "ended" /\ "ended" \notin Awaiting
      /\ \A pair, aborted : /\ Polling("answered", pair, aborted).pc = "answered"
                            /\ Polling("answered", pair, aborted).aborted = aborted
  BY DEF PromiseNext, HistoryNext, Polled, Ended, Polling, Awaiting, TypeOK
<1>1. CASE SignOut \/ \E a \in Codes : Register(a)
  <2>1. /\ poll' \in [Codes -> Poll]
        /\ \A b \in Codes : Stopped(b)
    BY <1>1, AbortStep
  <2>2. ASSUME NEW b \in Codes, b # polling \/ polling = NoGrant
        PROVE  poll'[b] = poll[b]
    BY <2>1, <2>2 DEF Stopped
  <2>3. ASSUME NEW b \in Codes, b = polling, polling # NoGrant
        PROVE  /\ ~Live(b)'
               /\ poll[b].pc \in Awaiting => poll'[b].pc = "ended"
               /\ poll[b].pc = "ended" => poll'[b].pc = "ended"
               /\ poll[b].pc = "none" => poll'[b].pc = "none"
    <3>1. \/ poll[b].pc \in Awaiting /\ poll'[b].pc = "ended"
          \/ /\ poll[b].pc = "answered"
             /\ poll'[b].pc = "answered" /\ poll'[b].aborted
          \/ poll[b].pc \notin Awaiting \cup {"answered"} /\ poll'[b] = poll[b]
      <4>1. Stopped(b)
        BY <2>1
      <4>2. CASE poll[b].pc \in Awaiting
        <5>1. poll'[b] = Ended
          BY <2>3, <4>1, <4>2 DEF Stopped, Awaiting
        <5> QED
          BY <1>0, <4>2, <5>1
      <4>3. CASE poll[b].pc = "answered"
        <5>1. poll'[b] = Polling("answered", poll[b].pair, TRUE)
          BY <2>3, <4>1, <4>3 DEF Stopped, Awaiting
        <5> QED
          BY <4>3, <5>1 DEF Polling
      <4>4. CASE poll[b].pc \notin Awaiting \cup {"answered"}
        BY <2>3, <4>1, <4>4 DEF Stopped
      <4> QED
        BY <4>2, <4>3, <4>4
    <3> QED
      BY <3>1 DEF Live, Awaiting
  <2>4. cancelled' \subseteq {b \in Codes : poll'[b].pc = "ended"}
    BY <1>0, <2>2, <2>3 DEF Polled, TypeOK
  <2>5. \A b \in Codes : Live(b)' => Live(b) /\ (b # polling \/ polling = NoGrant)
    BY <2>2, <2>3 DEF Live
  <2>6. \A b \in Codes : poll[b].pc = "none" => poll'[b].pc = "none"
    BY <2>2, <2>3
  <2>7. CASE SignOut
    BY <2>4, <2>5, <2>6, <2>7 DEF SignOut, Polled, OneLoginInProgress, Live
  <2>8. ASSUME NEW a \in Codes, Register(a)
        PROVE  Polled' /\ OneLoginInProgress'
    <3>1. /\ start[a] = "spawned" /\ start'[a] = "done" /\ polling' = a
          /\ \A b \in Codes \ {a} : start'[b] = start[b]
      BY <2>8 DEF Register, TypeOK
    <3>2. \A b \in Codes : start'[b] \in {"none", "asking"} => poll'[b].pc = "none"
      BY <2>6, <3>1 DEF Polled
    <3>3. \A b \in Codes : Live(b)' => polling' = b \/ start'[b] = "spawned"
      BY <1>0, <2>5, <3>1, CodexAssumption DEF OneLoginInProgress, Live
    <3>4. polling' # NoGrant => start'[polling'] = "done"
      BY <3>1
    <3>5. Polled'
      BY <2>4, <3>2, <3>4 DEF Polled
    <3>6. OneLoginInProgress'
      BY <3>3 DEF OneLoginInProgress, Live
    <3> QED
      BY <3>5, <3>6
  <2> QED
    BY <1>1, <2>7, <2>8
<1>2. CASE ~(SignOut \/ \E a \in Codes : Register(a))
  <2>0. cancelled' = cancelled
    BY <1>0, <1>2
  <2>1. ASSUME NEW a \in Codes, Start(a) \/ StartFails(a)
        PROVE  Polled' /\ OneLoginInProgress'
    <3>1. /\ poll' = poll /\ polling' = polling
          /\ \A b \in Codes \ {a} : start'[b] = start[b]
          /\ start[a] \in {"none", "asking"} /\ start'[a] \in {"asking", "done"}
      BY <2>1 DEF Start, StartFails, TypeOK
    <3>2. poll[a].pc = "none"
      BY <3>1 DEF Polled
    <3>3. polling # NoGrant => polling # a /\ start'[polling] = "done"
      BY <1>0, <3>1 DEF Polled
    <3>4. \A b \in Codes : start'[b] \in {"none", "asking"} => poll'[b].pc = "none"
      BY <3>1, <3>2 DEF Polled
    <3>5. OneLoginInProgress'
      BY <3>1, <3>2 DEF OneLoginInProgress, Awaiting
    <3> QED
      BY <2>0, <3>1, <3>3, <3>4, <3>5 DEF Polled
  <2>2. ASSUME NEW a \in Codes, Spawn(a)
        PROVE  Polled' /\ OneLoginInProgress'
    <3>1. /\ polling' = polling /\ start[a] = "asking" /\ start'[a] = "spawned"
          /\ \A b \in Codes \ {a} : start'[b] = start[b]
      BY <2>2 DEF Spawn, TypeOK
    <3>2. AfterPoll(a, "polling", 0, FALSE) /\ poll[a].pc = "none"
      BY <2>2, <3>1, PollLocals DEF Polled
    <3>3. polling # NoGrant => polling # a /\ start'[polling] = "done"
      BY <1>0, <3>1 DEF Polled
    <3>4. \A b \in Codes : start'[b] \in {"none", "asking"} => poll'[b].pc = "none"
      BY <3>1, <3>2 DEF Polled, AfterPoll
    <3>5. OneLoginInProgress'
      BY <3>1, <3>2 DEF OneLoginInProgress, AfterPoll
    <3>6. cancelled \subseteq {b \in Codes : poll'[b].pc = "ended"}
      BY <3>2 DEF Polled, AfterPoll
    <3> QED
      BY <2>0, <3>1, <3>3, <3>4, <3>5, <3>6 DEF Polled
  <2>3. ASSUME NEW a \in Codes, Approved(a) \/ TakeMutex(a) \/ Complete(a)
        PROVE  Polled' /\ OneLoginInProgress'
    <3>1. UNCHANGED <<start, polling>>
      BY <2>3 DEF Approved, TakeMutex, Complete, GivesUp, Exchanged, Queue, Persist,
                  ForgetLimits
    <3>2. \A b \in Codes \ {a} : poll'[b] = poll[b]
      BY <2>3, PollLocals DEF Complete, AfterPoll
    <3>3. poll[a].pc \notin {"none", "ended"} /\ poll'[a].pc # "none"
      BY <2>3, PollLocals DEF Complete, AfterPoll, Approved, TakeMutex, GivesUp, Exchanged,
                              Queue, Persist, ForgetLimits
    <3>4. Live(a)' => Live(a)
      BY <2>3, PollLocals DEF Complete, AfterPoll, Approved, TakeMutex, GivesUp, Exchanged,
                              Queue, Persist, ForgetLimits, Live, Awaiting
    <3> QED
      BY <2>0, <3>1, <3>2, <3>3, <3>4 DEF Polled, OneLoginInProgress, Live
  <2>4. CASE Restart
    <3>1. \A b \in Codes : /\ poll'[b].pc \in {"none", "ended"}
                           /\ poll[b].pc = "none" <=> poll'[b].pc = "none"
                           /\ start'[b] \in {"none", "asking"} => start[b] = "none"
      BY <1>0, <2>4 DEF Restart
    <3>2. polling' = NoGrant
      BY <2>4 DEF Restart
    <3> QED
      BY <2>0, <3>1, <3>2 DEF Polled, OneLoginInProgress, Awaiting
  <2>5. CASE /\ ~(\E a \in Codes : \/ Start(a) \/ StartFails(a) \/ Spawn(a) \/ Register(a)
                                   \/ Approved(a) \/ TakeMutex(a) \/ Complete(a))
             /\ ~Restart
    <3>1. start' = start /\ poll' = poll /\ polling' = polling
      BY <1>0, <1>2, <2>5, FlowFixed
    <3> QED
      BY <2>0, <3>1 DEF Polled, OneLoginInProgress
  <2> QED
    BY <1>2, <2>1, <2>2, <2>3, <2>4, <2>5
<1> QED
  BY <1>1, <1>2

-----------------------------------------------------------------------------
(* The reader and the bars.                                                *)

\* What a caller's step other than the answer of a refresh does to the reader.
LEMMA ReaderMoves ==
  ASSUME TypeOK, NEW c \in Callers,
         Ask(c) \/ Acquire(c) \/ Rejected(c) \/ RefreshFails(c) \/ Answered(c)
           \/ Unauthorized(c) \/ HangUp(c)
  PROVE  \/ task'[Reader] = task[Reader]
         \/ /\ task[Reader].pc # "idle"
            /\ \/ task'[Reader].base.pair = 0
               \/ task'[Reader].base = login
               \/ task'[Reader].base = task[Reader].base
<1>0. NoLogin.pair = 0
  BY DEF NoLogin, Tokens
<1>1. CASE c # Reader
  <2>1. task'[Reader] = task[Reader]
    BY <1>1, StepLocals, ReaderStep DEF Acquire, After, Over
  <2> QED
    BY <2>1
<1>2. CASE c = Reader
  <2>1. ~Ask(c) /\ ~HangUp(c) /\ task[Reader].pc # "idle"
    BY <1>2 DEF Ask, HangUp, Acquire, NotSignedIn, TakeToken, StartRefresh, Rejected,
                RefreshFails, Answered, Unauthorized
  <2>2. task'[Reader].base \in {NoLogin, login, task[Reader].base}
    BY <1>2, <2>1, StepLocals DEF Acquire, After, Over
  <2> QED
    BY <1>0, <2>1, <2>2
<1> QED
  BY <1>1, <1>2

\* The steps of a code or a sign-out that do not end a clearing, begin one or
\* change the login.
LEMMA ClearingStays ==
  ASSUME TypeOK, Polled,
         \/ \E a \in Codes : \/ Start(a) \/ StartFails(a) \/ Spawn(a) \/ Register(a)
                             \/ Approved(a) \/ TakeMutex(a) \/ GivesUp(a) \/ Exchanged(a)
                             \/ Queue(a)
         \/ SignOut \/ Revoked \/ SignOutDropped
  PROVE  /\ UNCHANGED <<login, task, bars, stale>>
         /\ Clearing => Clearing'
<1> USE DEF fileVars, flowVars, barsVars
<1>1. ASSUME NEW a \in Codes,
             \/ Spawn(a) \/ Approved(a) \/ TakeMutex(a) \/ GivesUp(a) \/ Exchanged(a)
             \/ Queue(a)
      PROVE  UNCHANGED <<login, task, bars, stale>> /\ (Clearing => Clearing')
  <2>1. UNCHANGED <<login, task, bars, stale, out>>
    BY <1>1 DEF Spawn, Approved, TakeMutex, GivesUp, Exchanged, Queue
  <2>2. \A b \in Codes \ {a} : poll'[b] = poll[b]
    BY <1>1, PollLocals DEF AfterPoll
  <2>3. poll[a].pc # "clearing"
    BY <1>1 DEF Spawn, Approved, TakeMutex, GivesUp, Exchanged, Queue, Polled
  <2> QED
    BY <2>1, <2>2, <2>3 DEF Clearing
<1>2. CASE SignOut \/ \E a \in Codes : Register(a)
  <2>1. UNCHANGED <<login, task, bars, stale>> /\ (out.pc = "clearing" => out'.pc = "clearing")
    BY <1>2 DEF SignOut, Register
  <2>2. ASSUME NEW b \in Codes, poll[b].pc = "clearing"
        PROVE  poll'[b].pc = "clearing"
    <3>1. Stopped(b)
      BY <1>2, AbortStep
    <3> QED
      BY <2>2, <3>1 DEF Stopped, Awaiting
  <2> QED
    BY <2>1, <2>2 DEF Clearing
<1>3. ASSUME NEW a \in Codes, Start(a) \/ StartFails(a)
      PROVE  UNCHANGED <<login, task, bars, stale>> /\ (Clearing => Clearing')
  BY <1>3 DEF Start, StartFails, Clearing
<1>4. CASE Revoked \/ SignOutDropped
  BY <1>4 DEF Revoked, SignOutDropped, Clearing
<1> QED
  BY <1>1, <1>2, <1>3, <1>4

LEMMA ReadingStep ==
  ASSUME TypeOK, Mutex, Current, Polled, Reading, BarsAreOurs, Next
  PROVE  Reading' /\ BarsAreOurs'
<1> USE DEF fileVars, flowVars, endpointVars, barsVars
<1>0. /\ NoLogin.pair = 0 /\ Reader \in Callers
      /\ ~Clearing => bars.of \in {NoGrant, login.grant}
      /\ ~Clearing' => (\A a \in Codes : poll'[a].pc # "clearing") /\ out'.pc # "clearing"
  BY DEF NoLogin, Tokens, Callers, BarsAreOurs, Clearing
<1>1. ASSUME NEW c \in Callers,
             Ask(c) \/ Acquire(c) \/ Rejected(c) \/ RefreshFails(c) \/ Answered(c)
               \/ Unauthorized(c) \/ HangUp(c)
      PROVE  Reading' /\ BarsAreOurs'
  <2>1. UNCHANGED <<login, poll, out, bars, stale>>
    BY <1>1 DEF Acquire, Ask, NotSignedIn, TakeToken, StartRefresh, Rejected, RefreshFails,
                Answered, Unauthorized, HangUp
  <2>2. Reading'
    BY <1>1, <2>1, ReaderMoves DEF Reading, Clearing
  <2> QED
    BY <2>1, <2>2 DEF BarsAreOurs
<1>2. ASSUME NEW c \in Callers, Refreshed(c)
      PROVE  Reading' /\ BarsAreOurs'
  <2>1. UNCHANGED <<poll, out, bars, stale>> /\ task[c].pc = "refreshing"
    BY <1>2 DEF Refreshed
  <2>2. login'.grant = login.grant /\ After(c, "calling", login')
    BY <1>2, RefreshedStep DEF Tokens
  <2>3. Reading'
    <3>1. CASE c = Reader
      BY <2>1, <2>2, <3>1 DEF Reading, Clearing, After
    <3>2. CASE c # Reader
      BY <1>0, <2>1, <2>2, <3>2 DEF Reading, Clearing, After
    <3> QED
      BY <3>1, <3>2
  <2> QED
    BY <2>1, <2>2, <2>3 DEF BarsAreOurs
<1>3. CASE Read
  <2>1. /\ UNCHANGED <<login, poll, out>> /\ bars'.reading /\ bars'.of = bars.of
        /\ task'[Reader].base = NoLogin
    BY <1>3, ReaderStep DEF Read, BeginReading, Shown, After
  <2> QED
    BY <1>0, <2>1 DEF Reading, BarsAreOurs
<1>4. CASE LandBars
  <2>1. /\ UNCHANGED <<login, poll, out>> /\ task'[Reader].pc = "idle"
        /\ task[Reader].pc # "idle"
    BY <1>4, ReaderStep DEF LandBars, After
  <2>2. \/ bars'.of = bars.of
        \/ ~stale /\ task[Reader].base.pair # 0 /\ bars'.of = task[Reader].base.grant
    BY <1>4 DEF LandBars, Land, Shown
  <2>3. ~Clearing => bars'.of \in {NoGrant, login.grant}
    BY <1>0, <2>1, <2>2 DEF Reading
  <2> QED
    BY <2>1, <2>3 DEF Reading, BarsAreOurs, Clearing
<1>5. CASE ReadFallsDue /\ UNCHANGED <<fileVars, task, flowVars, out, endpointVars>>
  <2>1. bars'.of = bars.of /\ bars'.reading = bars.reading /\ stale' = stale
    BY <1>5 DEF ReadFallsDue, Shown
  <2> QED
    BY <1>5, <2>1 DEF Reading, BarsAreOurs, Clearing
<1>6. ASSUME NEW a \in Codes, Persist(a)
      PROVE  Reading' /\ BarsAreOurs'
  <2>1. UNCHANGED <<task, bars, stale>>
    BY <1>6 DEF Persist
  <2>2. poll'[a].pc = "clearing"
    BY <1>6, PollLocals DEF AfterPoll
  <2> QED
    BY <2>1, <2>2 DEF Reading, BarsAreOurs, Clearing
<1>7. CASE RemoveLogin
  BY <1>7 DEF RemoveLogin, SigningOut, Reading, BarsAreOurs, Clearing
<1>8. ASSUME SignOutForgets \/ \E a \in Codes : ForgetLimits(a)
      PROVE  Reading' /\ BarsAreOurs'
  <2>1. /\ task' = task
        /\ bars'.of = NoGrant /\ bars'.reading = bars.reading
        /\ stale' = (stale \/ bars.reading)
    BY <1>8 DEF SignOutForgets, ForgetLimits, ClearBars, Shown
  <2> QED
    BY <2>1 DEF Reading, BarsAreOurs
<1>9. CASE Restart
  <2>1. task'[Reader].pc = "idle" /\ bars'.of = NoGrant
    BY <1>0, <1>9 DEF Restart, Idle, Locals, FreshBars, Shown
  <2> QED
    BY <2>1 DEF Reading, BarsAreOurs
<1>10. CASE \/ \E a \in Codes : \/ Start(a) \/ StartFails(a) \/ Spawn(a) \/ Register(a)
                                \/ Approved(a) \/ TakeMutex(a) \/ GivesUp(a)
                                \/ Exchanged(a) \/ Queue(a)
            \/ SignOut \/ Revoked \/ SignOutDropped
  <2>1. UNCHANGED <<login, task, bars, stale>> /\ (Clearing => Clearing')
    BY <1>10, ClearingStays
  <2>2. Reading'
    BY <2>1 DEF Reading
  <2>3. BarsAreOurs'
    BY <1>0, <2>1 DEF BarsAreOurs, Clearing
  <2> QED
    BY <2>2, <2>3
<1> QED
  BY <1>1, <1>2, <1>3, <1>4, <1>5, <1>6, <1>7, <1>8, <1>9, <1>10 DEF Next, Resume, Complete

-----------------------------------------------------------------------------
(* The theorems.                                                           *)

LEMMA IInvInit == PromiseInit => IInv
<1> SUFFICES ASSUME PromiseInit
             PROVE  IInv
  OBVIOUS
<1> USE CodexAssumption DEF PromiseInit, Init, HistoryInit
<1>0. /\ NoLogin \in Login /\ NoLogin.pair = 0 /\ NoLogin.grant = NoGrant
      /\ Idle \in Task /\ Idle.pc = "idle"
      /\ out \in Out /\ out.pc = "idle" /\ out.pair = 0
      /\ Reader \in Callers
  <2>1. NoLogin \in Login /\ NoLogin.pair = 0 /\ NoLogin.grant = NoGrant
    BY DEF Login, NoLogin, Tokens
  <2>2. Idle \in Task /\ Idle.pc = "idle"
    <3>1. Idle \in Task
      BY <2>1, LocalsTyped DEF Idle
    <3>2. Idle.pc = "idle"
      BY DEF Idle, Locals
    <3> QED
      BY <3>1, <3>2
  <2>3. out = [pc |-> "idle", pair |-> 0]
    BY DEF SigningOut
  <2>5. 0 \in 0..MaxPairs
    BY CodexAssumption
  <2>4. out \in Out /\ out.pc = "idle" /\ out.pair = 0
    BY <2>3, <2>5 DEF Out
  <2> QED
    BY <2>1, <2>2, <2>4 DEF Callers
<1>1. \A a \in Codes : poll[a] \in Poll /\ poll[a].pc = "none"
  BY DEF Polling, Poll
<1>2. \/ /\ login = NoLogin /\ issued = 0 /\ valid = {}
         /\ start = [a \in Codes |-> "none"]
      \/ /\ login \in Login /\ login.pair = 1 /\ 1 \in Pairs
         /\ issued = 1 /\ issued \in 0..MaxPairs /\ valid = {1}
         /\ start \in [Codes -> {"none", "done"}]
  <2>1. ASSUME NEW g \in Grants, MaxPairs > 0, login = Tokens(g, 1)
        PROVE  login \in Login /\ login.pair = 1 /\ 1 \in Pairs
    BY <2>1 DEF Tokens, Login, Pairs
  <2> QED
    BY <2>1
<1>3. BarsTypeOK /\ bars.of = NoGrant
  BY DEF BarsInit, FreshBars, Shown, BarsTypeOK, Bars
<1>4. TypeOK
  <2>1. /\ task \in [Callers -> Task] /\ poll \in [Codes -> Poll]
        /\ login \in Login /\ disk \in Login
    BY <1>0, <1>1, <1>2
  <2>2. /\ start \in [Codes -> {"none", "asking", "spawned", "done"}]
        /\ polling \in Codes \cup {NoGrant}
        /\ issued \in 0..MaxPairs /\ valid \subseteq Pairs
    BY <1>2
  <2> QED
    BY <1>0, <1>3, <2>1, <2>2 DEF TypeOK
<1>5. Mutex /\ Current
  BY <1>0, <1>1 DEF Mutex, Current, RefreshHolds, CodeHolds, OutHolds
<1>6. Tokened /\ Accepted
  <2>1. \A a \in Codes : ~InHandOf(a)
    BY <1>1 DEF InHandOf
  <2>2. disk = login /\ login.pair <= issued /\ 0 <= issued
    BY <1>0, <1>2
  <2>3. login.pair # 0 => login.pair \in valid
    BY <1>0, <1>2
  <2> QED
    BY <1>0, <2>1, <2>2, <2>3 DEF Tokened, Accepted
<1>7. Polled /\ OneLoginInProgress
  BY <1>1 DEF Polled, OneLoginInProgress, Awaiting
<1>8. Reading /\ BarsAreOurs
  BY <1>0, <1>3 DEF Reading, BarsAreOurs
<1> QED
  BY <1>4, <1>5, <1>6, <1>7, <1>8 DEF IInv

LEMMA IInvStep == IInv /\ [PromiseNext]_allVars => IInv'
<1> SUFFICES ASSUME IInv, [PromiseNext]_allVars
             PROVE  IInv'
  OBVIOUS
<1>1. CASE PromiseNext
  <2>1. Next /\ TypeOK /\ Mutex /\ Current /\ Tokened /\ Polled /\ cut \in BOOLEAN
    BY <1>1 DEF PromiseNext, IInv
  <2>2. TypeOK'
    BY <2>1, TypeStep
  <2>3. cut' \in BOOLEAN
    BY <1>1, <2>1 DEF PromiseNext, HistoryNext
  <2>4. Mutex' /\ Current' /\ Tokened'
    BY <2>1, MutexStep, CurrentStep, TokenedStep
  <2>5. Accepted'
    BY <1>1, AcceptedStep DEF IInv
  <2>6. Polled' /\ OneLoginInProgress'
    BY <1>1, PolledStep DEF IInv
  <2>7. Reading' /\ BarsAreOurs'
    BY <2>1, ReadingStep DEF IInv
  <2> QED
    BY <2>2, <2>3, <2>4, <2>5, <2>6, <2>7 DEF IInv
<1>2. CASE UNCHANGED allVars
  <2> USE DEF allVars, vars, history, fileVars, flowVars, endpointVars, barsVars
  <2>1. TypeOK'
    BY <1>2, TypeStep DEF IInv
  <2>2. cut' \in BOOLEAN /\ Mutex' /\ Current'
    BY <1>2 DEF IInv, Mutex, Current, RefreshHolds, CodeHolds, OutHolds
  <2>3. Tokened' /\ Accepted'
    BY <1>2 DEF IInv, Tokened, Accepted, InHandOf
  <2>4. Polled' /\ OneLoginInProgress'
    BY <1>2 DEF IInv, Polled, OneLoginInProgress
  <2>5. Reading' /\ BarsAreOurs'
    BY <1>2 DEF IInv, Reading, BarsAreOurs, Clearing
  <2> QED
    BY <2>1, <2>2, <2>3, <2>4, <2>5 DEF IInv
<1> QED
  BY <1>1, <1>2

\* The inductive invariant holds in every behaviour of the slot's login, its
\* requests and its bars.
THEOREM CodexInvariant == PromiseSpec => []IInv
BY IInvInit, IInvStep, PTL DEF PromiseSpec

\* Every variable keeps its type: no pair beyond those the endpoint has issued,
\* no task in a state its code does not have.
THEOREM CodexTypes == PromiseSpec => []TypeOK
<1>1. IInv => TypeOK
  BY DEF IInv
<1> QED
  BY <1>1, CodexInvariant, PTL

\* Refreshes do not race: whatever requests, hang-ups, sign-outs and new logins
\* do, a refresh token that is being sent is one the endpoint accepts, unless
\* an earlier answer never reached the file.
THEOREM CodexRefreshesDoNotRace == PromiseSpec => []InHandIsValid
<1>1. IInv => InHandIsValid
  BY DEF IInv, Accepted, Current, RefreshHolds, InHandIsValid
<1> QED
  BY <1>1, CodexInvariant, PTL

\* At most one code that the next start or sign-out cannot stop is polled for:
\* the one whose start has not registered it yet.
THEOREM CodesCanBeStopped == PromiseSpec => []OneLoginInProgress
<1>1. IInv => OneLoginInProgress
  BY DEF IInv
<1> QED
  BY <1>1, CodexInvariant, PTL

\* The bars shown are those of the login in hand, whenever a reading that began
\* under another login lands.
THEOREM BarsBelong == PromiseSpec => []BarsAreOurs
<1>1. IInv => BarsAreOurs
  BY DEF IInv
<1> QED
  BY <1>1, CodexInvariant, PTL

\* After a sign-out only the task of a code that was not cancelled signs the
\* slot in again.
THEOREM CodexSignOutsAreFinal == PromiseSpec => SignOutIsFinal
<1>1. ASSUME IInv, [PromiseNext]_allVars
      PROVE  [login.pair = 0 /\ login'.pair # 0 =>
                login'.grant \notin cancelled /\ poll[login'.grant].pc = "storing"]_allVars
  <2> SUFFICES ASSUME PromiseNext, login.pair = 0, login'.pair # 0
               PROVE  login'.grant \notin cancelled /\ poll[login'.grant].pc = "storing"
    BY <1>1 DEF allVars, vars, fileVars
  <2>0. /\ Next /\ TypeOK /\ Mutex /\ Current /\ Tokened /\ Polled
        /\ NoLogin.pair = 0
    BY <1>1 DEF PromiseNext, IInv, NoLogin, Tokens
  <2>1. ASSUME NEW a \in Codes, Persist(a)
        PROVE  login'.grant \notin cancelled /\ poll[login'.grant].pc = "storing"
    <3>0. login' = Tokens(a, poll[a].pair)
      BY <2>0, <2>1, PersistStep
    <3>1. login'.grant = a /\ poll[a].pc = "storing"
      BY <2>1, <3>0 DEF Persist, Tokens
    <3>2. a \notin cancelled
      BY <2>0, <3>1 DEF Polled
    <3> QED
      BY <3>1, <3>2
  <2>2. ~(\E c \in Callers : Refreshed(c))
    BY <2>0, RefreshedStep
  <2>3. ~RemoveLogin
    BY <2>0 DEF RemoveLogin
  <2>4. ~Restart
    BY <2>0 DEF Restart, Current
  <2> QED
    BY <2>0, <2>1, <2>2, <2>3, <2>4, LoginFixed
<1> QED
  BY <1>1, CodexInvariant, PTL DEF PromiseSpec, SignOutIsFinal
=============================================================================
