----------------------------- MODULE LoginProofs -----------------------------
(***************************************************************************)
(* What a Claude login promises, proved of PromiseSpec: for any number of  *)
(* calls in flight, of token pairs and of login attempts.                  *)
(*                                                                         *)
(* The inductive invariant says what the lock buys.  Whoever awaits the    *)
(* endpoint holds it (AtWork), so that what that call read under the lock  *)
(* is still what the file holds when the answer comes, and the pair it was *)
(* issued is still accepted when it is stored.                             *)
(***************************************************************************)
EXTENDS LoginPromises, TLAPS

\* The locals of a call say what they claim, as long as it holds the lock.
AtWork(t) ==
  /\ (lock = t) <=> (task[t].pc \in Holding)
  /\ task[t].pc \in {"refreshing", "hydrating"} =>
       task[t].base = login /\ login.pair # 0
  /\ task[t].pc = "profiling" => task[t].got \in valid /\ login.pair # 0
  /\ task[t].pc = "welcoming" =>
       task[t].got \in valid /\ task[t].attempt = attempts /\ closed < attempts
  /\ task[t].pc \in {"pasting", "exchanging", "welcoming"} => task[t].attempt # 0

\* An attempt under way is the last one, and newer than any sign-out.
AttemptIsLast ==
  /\ closed \in 0..attempts
  /\ memory # 0 => memory = attempts /\ closed < attempts
  /\ filed # 0 => filed = attempts /\ closed < attempts

\* The pair in hand is accepted unless its successor is being completed.
InHand ==
  /\ login.pair = 0 => disk.pair = 0
  /\ ~cut /\ login.pair # 0 /\ (\A t \in Tasks : task[t].pc # "profiling")
       => login.pair \in valid

IInv ==
  /\ TypeOK
  /\ cut \in BOOLEAN
  /\ AttemptIsLast
  /\ InHand
  /\ \A t \in Tasks : AtWork(t)

-----------------------------------------------------------------------------
(* The locals of a call.                                                   *)

\* The call t is at pc with these locals, and every other call where it was.
After(t, pc, base, got, attempt) ==
  /\ task' \in [Tasks -> Task]
  /\ \A u \in Tasks \ {t} : task'[u] = task[u]
  /\ task'[t].pc = pc
  /\ task'[t].base = base
  /\ task'[t].got = got
  /\ task'[t].attempt = attempt

LEMMA TableStep ==
  ASSUME TypeOK, NEW t \in Tasks, NEW e \in Task, Becomes(t, e)
  PROVE  After(t, e.pc, e.base, e.got, e.attempt)
BY DEF TypeOK, Becomes, After

\* The locals of each phase.
Made(e, pc, base, got, attempt) ==
  e \in Task /\ e.pc = pc /\ e.base = base /\ e.got = got /\ e.attempt = attempt

LEMMA LocalsMade ==
  ASSUME NEW e, NEW pc \in Pcs, NEW force \in BOOLEAN, NEW base \in Login,
         NEW got \in 0..MaxPairs, NEW attempt \in 0..MaxAttempts,
         e = Locals(pc, force, base, got, attempt)
  PROVE  Made(e, pc, base, got, attempt)
BY DEF Made, Locals, Task

LEMMA Phases ==
  ASSUME NEW force \in BOOLEAN, NEW base \in Login,
         NEW got \in 0..MaxPairs, NEW attempt \in 0..MaxAttempts
  PROVE
    /\ Made(Idle, "idle", NoLogin, 0, 0)
    /\ Made(Asking(force), "asking", NoLogin, 0, 0)
    /\ Made(Calling(force), "calling", NoLogin, 0, 0)
    /\ Made(Refreshing(force, base), "refreshing", base, 0, 0)
    /\ Made(Profiling(force, got), "profiling", NoLogin, got, 0)
    /\ Made(Hydrating(base), "hydrating", base, 0, 0)
    /\ Made(Pasting(attempt), "pasting", NoLogin, 0, attempt)
    /\ Made(Exchanging(attempt), "exchanging", NoLogin, 0, attempt)
    /\ Made(Welcoming(got, attempt), "welcoming", NoLogin, got, attempt)
<1>0. /\ 0 \in 0..MaxPairs /\ 0 \in 0..MaxAttempts /\ NoLogin \in Login
      /\ TRUE \in BOOLEAN /\ FALSE \in BOOLEAN
  BY LoginAssumption DEF Login
<1>1. {"idle", "asking", "calling", "refreshing", "profiling", "hydrating", "pasting",
       "exchanging", "welcoming"} \subseteq Pcs
  BY DEF Pcs, Holding
<1> QED
  BY <1>0, <1>1, LocalsMade
     DEF Idle, Asking, Calling, Refreshing, Profiling, Hydrating, Pasting,
         Exchanging, Welcoming

LEMMA PhaseStep ==
  ASSUME TypeOK, NEW t \in Tasks, NEW e, NEW pc, NEW base, NEW got, NEW attempt,
         Made(e, pc, base, got, attempt), Becomes(t, e)
  PROVE  After(t, pc, base, got, attempt)
BY TableStep DEF Made

\* Where each step of a call leaves it.
LEMMA StepLocals ==
  ASSUME TypeOK, NEW t \in Tasks
  PROVE
    /\ Ask(t) => After(t, "asking", NoLogin, 0, 0)
    /\ NotSignedIn(t) => After(t, "idle", NoLogin, 0, 0)
    /\ TakeToken(t) => After(t, "calling", NoLogin, 0, 0)
    /\ StartRefresh(t) => After(t, "refreshing", login, 0, 0)
    /\ Profiled(t) => After(t, "calling", NoLogin, 0, 0)
    /\ Rejected(t) => After(t, "idle", NoLogin, 0, 0)
    /\ Answered(t) => After(t, "idle", NoLogin, 0, 0)
    /\ PasteRefused(t) => After(t, "idle", NoLogin, 0, 0)
    /\ StartExchange(t) => After(t, "exchanging", NoLogin, 0, task[t].attempt)
    /\ Exchanged(t) => After(t, "welcoming", NoLogin, issued + 1, task[t].attempt)
    /\ Welcomed(t) => After(t, "idle", NoLogin, 0, 0)
    /\ ExchangeFails(t) => After(t, "idle", NoLogin, 0, 0)
    /\ Hydrate(t) => After(t, "hydrating", login, 0, 0)
    /\ Hydrated(t) => After(t, "idle", NoLogin, 0, 0)
    /\ HangUp(t) => After(t, "idle", NoLogin, 0, 0)
    /\ \A attempt \in Attempts :
         Paste(t, attempt) => After(t, "pasting", NoLogin, 0, attempt)
    /\ Refreshed(t) => \/ task[t].base.profile /\ After(t, "calling", NoLogin, 0, 0)
                       \/ ~task[t].base.profile /\ After(t, "profiling", NoLogin, issued + 1, 0)
    /\ RefreshFails(t) => After(t, "idle", NoLogin, 0, 0) \/ After(t, "calling", NoLogin, 0, 0)
    /\ Unauthorized(t) => After(t, "idle", NoLogin, 0, 0) \/ After(t, "asking", NoLogin, 0, 0)
<1>0. /\ task[t].force \in BOOLEAN /\ login \in Login
      /\ task[t].attempt \in 0..MaxAttempts
      /\ issued < MaxPairs => issued + 1 \in 0..MaxPairs
      /\ 0 \in 0..MaxPairs /\ 0 \in 0..MaxAttempts /\ NoLogin \in Login
  BY LoginAssumption DEF TypeOK, Task, Login
<1> USE <1>0, Phases, PhaseStep DEF Stop, Call
<1>1. Ask(t) => After(t, "asking", NoLogin, 0, 0)
  BY DEF Ask
<1>2. NotSignedIn(t) => After(t, "idle", NoLogin, 0, 0)
  BY DEF NotSignedIn
<1>3. TakeToken(t) => After(t, "calling", NoLogin, 0, 0)
  BY DEF TakeToken
<1>4. StartRefresh(t) => After(t, "refreshing", login, 0, 0)
  BY DEF StartRefresh
<1>5. Profiled(t) => After(t, "calling", NoLogin, 0, 0)
  BY DEF Profiled
<1>6. Rejected(t) => After(t, "idle", NoLogin, 0, 0)
  BY DEF Rejected
<1>7. Answered(t) => After(t, "idle", NoLogin, 0, 0)
  BY DEF Answered
<1>8. PasteRefused(t) => After(t, "idle", NoLogin, 0, 0)
  BY DEF PasteRefused
<1>9. StartExchange(t) => After(t, "exchanging", NoLogin, 0, task[t].attempt)
  BY DEF StartExchange
<1>10. Exchanged(t) => After(t, "welcoming", NoLogin, issued + 1, task[t].attempt)
  BY DEF Exchanged
<1>11. Welcomed(t) => After(t, "idle", NoLogin, 0, 0)
  BY DEF Welcomed
<1>12. ExchangeFails(t) => After(t, "idle", NoLogin, 0, 0)
  BY DEF ExchangeFails
<1>13. Hydrate(t) => After(t, "hydrating", login, 0, 0)
  BY DEF Hydrate
<1>14. Hydrated(t) => After(t, "idle", NoLogin, 0, 0)
  BY DEF Hydrated
<1>15. HangUp(t) => After(t, "idle", NoLogin, 0, 0)
  BY DEF HangUp
<1>16. ASSUME NEW attempt \in Attempts
       PROVE  Paste(t, attempt) => After(t, "pasting", NoLogin, 0, attempt)
  BY DEF Paste, Attempts
<1>17. ASSUME Refreshed(t)
       PROVE  \/ task[t].base.profile /\ After(t, "calling", NoLogin, 0, 0)
              \/ ~task[t].base.profile /\ After(t, "profiling", NoLogin, issued + 1, 0)
  <2>1. issued < MaxPairs
    BY <1>17 DEF Refreshed, Rotates
  <2>2. CASE task[t].base.profile
    BY <1>17, <2>2 DEF Refreshed
  <2>3. CASE ~task[t].base.profile
    BY <1>17, <2>1, <2>3 DEF Refreshed
  <2> QED
    BY <2>2, <2>3
<1>18. RefreshFails(t) => After(t, "idle", NoLogin, 0, 0) \/ After(t, "calling", NoLogin, 0, 0)
  BY DEF RefreshFails
<1>19. Unauthorized(t) => After(t, "idle", NoLogin, 0, 0) \/ After(t, "asking", NoLogin, 0, 0)
  BY DEF Unauthorized
<1> QED
  BY <1>1, <1>2, <1>3, <1>4, <1>5, <1>6, <1>7, <1>8, <1>9, <1>10, <1>11, <1>12, <1>13, <1>14, <1>15, <1>16, <1>17, <1>18, <1>19

-----------------------------------------------------------------------------
(* Types.                                                                  *)

LEMMA TypeStep ==
  ASSUME TypeOK, \A t \in Tasks : AtWork(t), [Next]_vars
  PROVE  TypeOK'
<1> USE LoginAssumption
        DEF fileVars, attemptVars, endpointVars, Attempts, Pairs
<1>0. /\ Idle \in Task
      /\ NoLogin \in Login
      /\ \A l \in Login : l.pair # 0 => l.pair \in Pairs
  BY Phases DEF Made, Login, NoLogin, TypeOK
<1>1. ASSUME NEW pair \in Pairs, Rotates(pair)
      PROVE  issued' \in 0..MaxPairs /\ valid' \subseteq Pairs /\ issued + 1 \in Pairs
  BY <1>1 DEF Rotates, TypeOK
<1>2. ASSUME NEW pair \in Pairs, NEW profile \in BOOLEAN,
             Store([pair |-> pair, profile |-> profile])
      PROVE  login' \in Login /\ disk' \in Login
  BY <1>2 DEF Store, TypeOK, Login
<1>3. ASSUME NEW t \in Tasks, Arrive(t) \/ Acquire(t) \/ Resume(t) \/ HangUp(t)
      PROVE  task' \in [Tasks -> Task]
  BY <1>3, StepLocals DEF Arrive, Acquire, Resume, After
<1>4. ASSUME NEW t \in Tasks, Arrive(t)
      PROVE  TypeOK'
  BY <1>3, <1>4 DEF TypeOK, Arrive, Ask, Hydrate, Paste
<1>5. ASSUME NEW t \in Tasks, Acquire(t)
      PROVE  TypeOK'
  BY <1>3, <1>5 DEF TypeOK, Acquire, NotSignedIn, TakeToken, StartRefresh,
                    PasteRefused, StartExchange
<1>6. ASSUME NEW t \in Tasks, Refreshed(t)
      PROVE  TypeOK'
  <2>1. task' \in [Tasks -> Task]
    BY <1>3, <1>6 DEF Resume
  <2>2. task[t].base.pair \in Pairs
    BY <1>6 DEF Refreshed, Rotates, TypeOK
  <2>3. issued' \in 0..MaxPairs /\ valid' \subseteq Pairs /\ issued + 1 \in Pairs
    BY <1>1, <1>6, <2>2 DEF Refreshed
  <2>4. login' \in Login /\ disk' \in Login
    BY <1>2, <1>6, <2>3 DEF Refreshed, TypeOK
  <2>5. probed' \in BOOLEAN /\ lock' \in Tasks \cup {NoTask}
    BY <1>6 DEF Refreshed, TypeOK
  <2> QED
    BY <1>6, <2>1, <2>3, <2>4, <2>5 DEF Refreshed, TypeOK
<1>7. ASSUME NEW t \in Tasks, Profiled(t) \/ Welcomed(t)
      PROVE  TypeOK'
  <2>1. task' \in [Tasks -> Task]
    BY <1>3, <1>7 DEF Resume
  <2>2. task[t].got \in Pairs
    BY <1>7 DEF Profiled, Welcomed, AtWork, TypeOK
  <2>3. login' \in Login /\ disk' \in Login
    BY <1>2, <1>7, <2>2 DEF Profiled, Welcomed
  <2>4. /\ lock' = NoTask
        /\ UNCHANGED <<attempts, probed, issued, valid, spent>>
        /\ memory' \in {0, memory} /\ filed' \in {0, filed}
    BY <1>7 DEF Profiled, Welcomed
  <2> QED
    BY <2>1, <2>3, <2>4 DEF TypeOK
<1>8. ASSUME NEW t \in Tasks, Rejected(t) \/ Answered(t) \/ Unauthorized(t)
      PROVE  TypeOK'
  BY <1>3, <1>8 DEF Resume, Rejected, Answered, Unauthorized, TypeOK
<1>9. ASSUME NEW t \in Tasks, RefreshFails(t) \/ ExchangeFails(t) \/ HangUp(t)
      PROVE  TypeOK'
  <2>1. task' \in [Tasks -> Task]
    BY <1>3, <1>9 DEF Resume
  <2>2. task[t].pc = "refreshing" => task[t].base.pair \in Pairs
    BY <1>0 DEF AtWork, TypeOK
  <2>3. task[t].pc = "exchanging" => task[t].attempt \in Attempts
    BY DEF AtWork, TypeOK, Task
  <2>4. issued' \in 0..MaxPairs /\ valid' \subseteq Pairs /\ spent' \subseteq Attempts
    BY <1>1, <1>9, <2>2, <2>3
       DEF RefreshFails, ExchangeFails, HangUp, RefreshUnheard, ExchangeUnheard, TypeOK
  <2>5. lock' \in Tasks \cup {NoTask}
    BY <1>9 DEF RefreshFails, ExchangeFails, HangUp, TypeOK
  <2> QED
    BY <1>9, <2>1, <2>4, <2>5 DEF RefreshFails, ExchangeFails, HangUp, TypeOK
<1>10. ASSUME NEW t \in Tasks, Exchanged(t)
       PROVE  TypeOK'
  <2>1. task' \in [Tasks -> Task]
    BY <1>3, <1>10 DEF Resume
  <2>2. task[t].attempt \in Attempts
    BY <1>10 DEF AtWork, TypeOK, Task, Exchanged
  <2>3. issued' \in 0..MaxPairs /\ valid' \subseteq Pairs
    BY <1>10 DEF Exchanged, TypeOK
  <2> QED
    BY <1>10, <2>1, <2>2, <2>3 DEF Exchanged, TypeOK
<1>11. ASSUME NEW t \in Tasks, Hydrated(t)
       PROVE  TypeOK'
  <2>1. task' \in [Tasks -> Task]
    BY <1>3, <1>11 DEF Resume
  <2>2. task[t].base.pair \in Pairs
    BY <1>0, <1>11 DEF Hydrated, AtWork, TypeOK
  <2>3. login' \in Login /\ disk' \in Login
    BY <1>2, <1>11, <2>2 DEF Hydrated, TypeOK
  <2> QED
    BY <1>11, <2>1, <2>3 DEF Hydrated, TypeOK
<1>12. CASE Start
  BY <1>12 DEF Start, TypeOK
<1>13. CASE SignOut
  BY <1>0, <1>13 DEF SignOut, TypeOK
<1>14. CASE Restart
  <2>1. task' \in [Tasks -> Task]
    BY <1>0, <1>14 DEF Restart
  <2>2. \A t \in Tasks : task[t].pc = "refreshing" => task[t].base.pair \in Pairs
    BY <1>0 DEF AtWork, TypeOK
  <2>3. issued' \in 0..MaxPairs /\ valid' \subseteq Pairs /\ spent' = spent
    BY <1>1, <1>14, <2>2 DEF Restart, TypeOK
  <2>4. /\ login' = disk /\ disk' = disk /\ lock' = NoTask /\ probed' \in BOOLEAN
        /\ memory' = 0 /\ filed' = filed /\ attempts' = attempts
    BY <1>14 DEF Restart
  <2> QED
    BY <2>1, <2>3, <2>4 DEF TypeOK
<1>15. CASE UNCHANGED vars
  BY <1>15 DEF TypeOK, vars
<1> QED
  BY <1>4, <1>5, <1>6, <1>7, <1>8, <1>9, <1>10, <1>11, <1>12, <1>13, <1>14, <1>15
     DEF Next, Resume

-----------------------------------------------------------------------------
(* The lock.                                                               *)

\* Nobody else is at an await that needs the lock.
LEMMA Alone ==
  ASSUME TypeOK, \A t \in Tasks : AtWork(t), NEW t \in Tasks, NEW u \in Tasks, t # u,
         task[t].pc \in Holding
  PROVE  lock = t /\ task[u].pc \notin Holding
BY DEF AtWork

LEMMA Nobody ==
  ASSUME TypeOK, \A t \in Tasks : AtWork(t), NEW u \in Tasks, lock = NoTask
  PROVE  task[u].pc \notin Holding
BY LoginAssumption DEF AtWork

\* A call that is not at such an await is not disturbed by anybody's.
LEMMA Bystander ==
  ASSUME NEW u \in Tasks, AtWork(u), task'[u] = task[u],
         \/ task[u].pc \notin Holding /\ lock' # u
         \/ UNCHANGED <<login, valid, lock, attempts, closed>>
  PROVE  AtWork(u)'
BY DEF AtWork, Holding

LEMMA AtWorkStep ==
  ASSUME IInv, PromiseNext, NEW u \in Tasks
  PROVE  AtWork(u)'
<1> USE LoginAssumption DEF fileVars, attemptVars, endpointVars
<1>0. /\ TypeOK /\ (\A t \in Tasks : AtWork(t)) /\ AtWork(u) /\ AttemptIsLast
      /\ u # NoTask
  BY DEF IInv
<1>1. closed' = IF SignOut THEN attempts ELSE closed
  BY DEF PromiseNext, HistoryNext
<1>2. CASE SignOut
  BY <1>0, <1>2, Nobody, Bystander DEF SignOut
<1>3. CASE ~SignOut /\ Start
  BY <1>0, <1>3, Nobody, Bystander DEF Start
<1>4. CASE ~SignOut /\ Restart
  BY <1>4, Phases, <1>0 DEF Restart, AtWork, Made, Holding, TypeOK, Login
<1>5. ASSUME ~SignOut, NEW t \in Tasks, Arrive(t)
      PROVE  AtWork(u)'
  <2>1. CASE t = u
    <3>1. CASE Ask(u)
      <4>1. After(u, "asking", NoLogin, 0, 0)
        BY <1>0, <3>1, StepLocals
      <4> QED
        BY <1>0, <3>1, <4>1 DEF Ask, After, AtWork, Holding
    <3>2. CASE Hydrate(u)
      <4>1. After(u, "hydrating", login, 0, 0)
        BY <1>0, <3>2, StepLocals
      <4> QED
        BY <1>0, <3>2, <4>1 DEF Hydrate, After, AtWork, Holding
    <3>3. ASSUME NEW attempt \in Attempts, Paste(u, attempt)
          PROVE  AtWork(u)'
      <4>1. After(u, "pasting", NoLogin, 0, attempt) /\ attempt # 0
        BY <1>0, <3>3, StepLocals DEF Attempts
      <4> QED
        BY <1>0, <3>3, <4>1 DEF Paste, After, AtWork, Holding
    <3> QED
      BY <1>5, <2>1, <3>1, <3>2, <3>3 DEF Arrive
  <2>2. CASE t # u
    BY <1>0, <1>1, <1>5, <2>2, StepLocals, Nobody, Bystander
       DEF Arrive, Ask, Hydrate, Paste, After
  <2> QED
    BY <2>1, <2>2
<1>6. ASSUME ~SignOut, NEW t \in Tasks, Acquire(t)
      PROVE  AtWork(u)'
  <2>1. CASE t = u
    BY <1>0, <1>6, <2>1, StepLocals
       DEF Acquire, NotSignedIn, TakeToken, StartRefresh, PasteRefused, StartExchange,
           After, AtWork, Holding
  <2>2. CASE t # u
    BY <1>0, <1>1, <1>6, <2>2, StepLocals, Nobody, Bystander
       DEF Acquire, NotSignedIn, TakeToken, StartRefresh, PasteRefused, StartExchange, After
  <2> QED
    BY <2>1, <2>2
<1>7. ASSUME ~SignOut, NEW t \in Tasks, Resume(t), t # u
      PROVE  AtWork(u)'
  <2>1. task'[u] = task[u]
    BY <1>0, <1>7, StepLocals DEF Resume, After
  <2>2. CASE Answered(t) \/ Unauthorized(t)
    BY <1>0, <1>1, <1>7, <2>1, <2>2, Bystander DEF Answered, Unauthorized
  <2>3. CASE task[t].pc \in Holding
    <3>1. task[u].pc \notin Holding /\ lock = t
      BY <1>0, <1>7, <2>3, Alone
    <3>2. lock' \in {lock, NoTask}
      BY <1>7 DEF Resume, Refreshed, Profiled, Rejected, RefreshFails, Answered,
                  Unauthorized, Exchanged, Welcomed, ExchangeFails, Hydrated
    <3> QED
      BY <1>0, <1>7, <2>1, <3>1, <3>2, Bystander
  <2> QED
    BY <1>7, <2>2, <2>3
       DEF Resume, Refreshed, Profiled, Rejected, RefreshFails, Exchanged, Welcomed,
           ExchangeFails, Hydrated, Holding
<1>8. ASSUME ~SignOut, Resume(u)
      PROVE  AtWork(u)'
  <2>1. CASE Refreshed(u)
    <3>1. issued + 1 \in valid' /\ task[u].pc = "refreshing" /\ login.pair # 0
      BY <1>0, <2>1 DEF Refreshed, Rotates, AtWork
    <3>2. CASE task[u].base.profile
      BY <1>0, <2>1, <3>1, <3>2, StepLocals DEF Refreshed, After, AtWork, Holding
    <3>3. CASE ~task[u].base.profile
      <4>1. After(u, "profiling", NoLogin, issued + 1, 0) /\ UNCHANGED <<login, lock>>
        BY <1>0, <2>1, <3>3, StepLocals DEF Refreshed
      <4> QED
        BY <1>0, <3>1, <4>1 DEF After, AtWork, Holding
    <3> QED
      BY <3>2, <3>3
  <2>2. CASE Exchanged(u)
    <3>1. /\ After(u, "welcoming", NoLogin, issued + 1, task[u].attempt)
          /\ valid' = valid \cup {issued + 1}
          /\ UNCHANGED <<attempts, lock>>
      BY <1>0, <2>2, StepLocals DEF Exchanged
    <3>2. task[u].attempt = attempts /\ closed < attempts /\ task[u].attempt # 0
      BY <1>0, <2>2 DEF Exchanged, Expected, AttemptIsLast, AtWork
    <3>3. task[u].pc \in Holding
      BY <2>2 DEF Exchanged, Holding
    <3> QED
      BY <1>0, <1>1, <1>8, <3>1, <3>2, <3>3 DEF After, AtWork, Holding
  <2>3. CASE ~Refreshed(u) /\ ~Exchanged(u)
    <3>1. task'[u].pc \in {"idle", "calling", "asking"}
      BY <1>0, <1>8, <2>3, StepLocals DEF Resume, After
    <3>2. lock' # u
      BY <1>0, <1>8, <2>3
         DEF Resume, Profiled, Rejected, RefreshFails, Answered, Unauthorized, Welcomed,
             ExchangeFails, Hydrated, AtWork, Holding
    <3> QED
      BY <3>1, <3>2 DEF AtWork, Holding
  <2> QED
    BY <2>1, <2>2, <2>3
<1>9. ASSUME ~SignOut, NEW t \in Tasks, HangUp(t)
      PROVE  AtWork(u)'
  <2>1. After(t, "idle", NoLogin, 0, 0)
    BY <1>0, <1>9, StepLocals
  <2>2. CASE t = u
    BY <1>0, <1>9, <2>1, <2>2 DEF HangUp, After, AtWork, Holding
  <2>3. CASE t # u /\ task[t].pc \in Holding
    BY <1>0, <1>9, <2>1, <2>3, Alone, Bystander DEF HangUp, After
  <2>4. CASE t # u /\ task[t].pc \notin Holding
    <3>1. UNCHANGED <<login, valid, lock, attempts, closed>>
      BY <1>0, <1>1, <1>9, <2>4 DEF HangUp, AtWork, Holding
    <3> QED
      BY <1>0, <2>1, <2>4, <3>1, Bystander DEF After
  <2> QED
    BY <2>2, <2>3, <2>4
<1> QED
  BY <1>2, <1>3, <1>4, <1>5, <1>6, <1>7, <1>8, <1>9 DEF PromiseNext, Next

-----------------------------------------------------------------------------
(* Attempts.                                                               *)

LEMMA AttemptStep ==
  ASSUME IInv, PromiseNext
  PROVE  AttemptIsLast'
<1> USE LoginAssumption DEF fileVars, attemptVars, endpointVars
<1>0. /\ AttemptIsLast
      /\ closed \in Nat /\ attempts \in Nat /\ memory \in Nat /\ filed \in Nat
      /\ closed' = IF SignOut THEN attempts ELSE closed
  BY DEF IInv, TypeOK, AttemptIsLast, PromiseNext, HistoryNext
<1>1. CASE SignOut
  BY <1>0, <1>1 DEF SignOut, AttemptIsLast
<1>2. CASE ~SignOut /\ Start
  BY <1>0, <1>2 DEF Start, AttemptIsLast
<1>3. CASE ~SignOut /\ ~Start
  <2>1. ASSUME NEW t \in Tasks, Arrive(t) \/ Acquire(t) \/ Resume(t) \/ HangUp(t)
        PROVE  attempts' = attempts /\ memory' \in {0, memory} /\ filed' \in {0, filed}
    BY <2>1 DEF Arrive, Acquire, Resume, HangUp, Ask, Hydrate, Paste, NotSignedIn,
                TakeToken, StartRefresh, PasteRefused, StartExchange, Refreshed, Profiled,
                Rejected, RefreshFails, Answered, Unauthorized, Exchanged, Welcomed,
                ExchangeFails, Hydrated
  <2>2. Restart => attempts' = attempts /\ memory' \in {0, memory} /\ filed' \in {0, filed}
    BY DEF Restart
  <2>3. attempts' = attempts /\ memory' \in {0, memory} /\ filed' \in {0, filed}
    BY <1>1, <1>3, <2>1, <2>2 DEF PromiseNext, Next
  <2> QED
    BY <1>0, <1>3, <2>3 DEF AttemptIsLast
<1> QED
  BY <1>1, <1>2, <1>3

-----------------------------------------------------------------------------
(* The pair in hand.                                                       *)

\* An answer of the endpoint that is not heard.
LEMMA Unheard ==
  ASSUME TypeOK, NEW t \in Tasks, AtWork(t),
         RefreshFails(t) \/ ExchangeFails(t) \/ HangUp(t)
  PROVE  /\ UNCHANGED fileVars
         /\ valid' # valid => task[t].pc = "refreshing" /\ ~ExchangeFails(t)
BY DEF RefreshFails, ExchangeFails, HangUp, RefreshUnheard, ExchangeUnheard, endpointVars

\* A login that is completed is in hand, and accepted.
LEMMA WelcomedInHand ==
  ASSUME IInv, NEW t \in Tasks, Welcomed(t)
  PROVE  InHand' /\ login'.pair # 0
<1>1. task[t].got \in valid /\ task[t].got # 0 /\ valid' = valid
  BY DEF IInv, AtWork, Welcomed, TypeOK, Pairs, endpointVars
<1>2. login'.pair = task[t].got
  BY DEF Welcomed, Store
<1> QED
  BY <1>1, <1>2 DEF InHand

LEMMA InHandStep ==
  ASSUME IInv, PromiseNext
  PROVE  InHand'
<1> USE LoginAssumption DEF fileVars, endpointVars
<1>0. /\ TypeOK /\ InHand /\ \A t \in Tasks : AtWork(t)
  BY DEF IInv
<1>1. CASE \E t \in Tasks : Welcomed(t)
  BY <1>1, WelcomedInHand
<1>2. CASE ~\E t \in Tasks : Welcomed(t)
  <2>0. cut' = (cut \/ CutOff)
    BY <1>2 DEF PromiseNext, HistoryNext
  <2>1. CASE Start
    BY <1>0, <2>0, <2>1 DEF Start, InHand
  <2>2. CASE SignOut
    BY <2>2 DEF SignOut, InHand, NoLogin
  <2>3. CASE Restart
    <3>1. CASE disk # login
      BY <2>0, <2>3, <3>1 DEF CutOff, Restart, InHand
    <3>2. CASE \E t \in Tasks : task[t].pc = "profiling"
      BY <2>0, <2>3, <3>2 DEF CutOff, Restart, InHand
    <3>3. CASE valid' # valid
      BY <2>0, <2>3, <3>3 DEF CutOff, Restart, InHand
    <3>4. CASE disk = login /\ valid' = valid /\ ~\E t \in Tasks : task[t].pc = "profiling"
      BY <1>0, <2>0, <2>3, <3>4 DEF Restart, InHand
    <3> QED
      BY <3>1, <3>2, <3>3, <3>4
  <2>4. ASSUME NEW t \in Tasks, Arrive(t) \/ Acquire(t)
        PROVE  InHand'
    <3>1. UNCHANGED <<login, disk, valid>>
      BY <2>4 DEF Arrive, Acquire, Ask, Hydrate, Paste, NotSignedIn, TakeToken,
                  StartRefresh, PasteRefused, StartExchange
    <3>2. \A u \in Tasks : task[u].pc = "profiling" => task'[u].pc = "profiling"
      BY <1>0, <2>4, StepLocals
         DEF Arrive, Acquire, Ask, Hydrate, Paste, NotSignedIn, TakeToken,
             StartRefresh, PasteRefused, StartExchange, After
    <3> QED
      BY <1>0, <2>0, <3>1, <3>2 DEF InHand
  <2>5. ASSUME NEW t \in Tasks, Refreshed(t)
        PROVE  InHand'
    <3>1. issued + 1 \in valid' /\ login.pair # 0 /\ issued + 1 # 0
      BY <1>0, <2>5 DEF Refreshed, Rotates, AtWork, TypeOK
    <3>2. CASE task[t].base.profile
      BY <2>5, <3>1, <3>2 DEF Refreshed, Store, InHand
    <3>3. CASE ~task[t].base.profile
      <4>1. After(t, "profiling", NoLogin, issued + 1, 0) /\ UNCHANGED fileVars
        BY <1>0, <2>5, <3>3, StepLocals DEF Refreshed
      <4> QED
        BY <1>0, <3>1, <4>1 DEF After, InHand
    <3> QED
      BY <3>2, <3>3
  <2>6. ASSUME NEW t \in Tasks, Profiled(t)
        PROVE  InHand'
    BY <1>0, <2>6 DEF Profiled, Store, AtWork, TypeOK, Pairs, InHand
  <2>7. ASSUME NEW t \in Tasks, Hydrated(t)
        PROVE  InHand'
    <3>1. /\ task[t].base.pair = login.pair /\ login.pair # 0
          /\ login'.pair = login.pair
          /\ valid' = valid
      BY <1>0, <2>7 DEF Hydrated, Store, AtWork
    <3>2. \A u \in Tasks : task[u].pc # "profiling"
      BY <1>0, <2>7, Alone DEF Hydrated, Holding
    <3> QED
      BY <1>0, <2>0, <3>1, <3>2 DEF InHand
  <2>8. ASSUME NEW t \in Tasks,
               Rejected(t) \/ Answered(t) \/ Unauthorized(t) \/ Exchanged(t)
        PROVE  InHand'
    <3>1. UNCHANGED fileVars /\ valid \subseteq valid'
      BY <2>8 DEF Rejected, Answered, Unauthorized, Exchanged
    <3>2. \A u \in Tasks : task[u].pc = "profiling" => task'[u].pc = "profiling"
      BY <1>0, <2>8, StepLocals DEF Rejected, Answered, Unauthorized, Exchanged, After
    <3> QED
      BY <1>0, <2>0, <3>1, <3>2 DEF InHand
  <2>9. ASSUME NEW t \in Tasks, RefreshFails(t) \/ ExchangeFails(t) \/ HangUp(t)
        PROVE  InHand'
    <3>1. UNCHANGED fileVars
      BY <1>0, <2>9, Unheard
    <3>2. CASE valid' # valid
      BY <1>0, <2>0, <2>9, <3>1, <3>2, Unheard DEF CutOff, InHand
    <3>3. CASE HangUp(t) /\ task[t].pc = "profiling"
      BY <1>0, <2>0, <3>1, <3>3 DEF CutOff, InHand
    <3>4. CASE valid' = valid /\ ~(HangUp(t) /\ task[t].pc = "profiling")
      <4>1. \A u \in Tasks : task[u].pc = "profiling" => task'[u].pc = "profiling"
        BY <1>0, <2>9, <3>4, StepLocals DEF RefreshFails, ExchangeFails, After
      <4> QED
        BY <1>0, <2>0, <3>1, <3>4, <4>1 DEF InHand
    <3> QED
      BY <3>2, <3>3, <3>4
  <2> QED
    BY <1>2, <2>1, <2>2, <2>3, <2>4, <2>5, <2>6, <2>7, <2>8, <2>9
       DEF PromiseNext, Next, Resume
<1> QED
  BY <1>1, <1>2

-----------------------------------------------------------------------------
(* The invariant.                                                          *)

LEMMA IInvInit == PromiseInit => IInv
<1> SUFFICES ASSUME PromiseInit PROVE IInv
  OBVIOUS
<1> USE LoginAssumption DEF PromiseInit, Init, HistoryInit
<1>1. Idle \in Task /\ NoLogin \in Login /\ Idle.pc = "idle"
  BY DEF Idle, Locals, Task, Pcs, Login, NoLogin
<1>2. login \in Login /\ issued \in 0..MaxPairs /\ valid \subseteq Pairs
  BY <1>1 DEF Login, Pairs
<1>3. TypeOK
  <2>1. disk \in Login /\ task \in [Tasks -> Task] /\ probed \in BOOLEAN
    BY <1>1, <1>2
  <2>2. /\ memory \in 0..MaxAttempts /\ filed \in 0..MaxAttempts
        /\ attempts \in 0..MaxAttempts /\ lock \in Tasks \cup {NoTask}
        /\ spent \subseteq Attempts
    OBVIOUS
  <2> QED
    BY <1>2, <2>1, <2>2 DEF TypeOK
<1>4. \A t \in Tasks : AtWork(t)
  BY <1>1 DEF AtWork, Holding
<1>5. InHand
  BY DEF InHand, NoLogin
<1>6. AttemptIsLast
  BY DEF AttemptIsLast
<1>7. cut \in BOOLEAN
  OBVIOUS
<1> QED
  BY <1>3, <1>4, <1>5, <1>6, <1>7 DEF IInv

LEMMA IInvStep == IInv /\ [PromiseNext]_allVars => IInv'
<1> SUFFICES ASSUME IInv, [PromiseNext]_allVars PROVE IInv'
  OBVIOUS
<1>1. CASE PromiseNext
  <2>1. TypeOK'
    BY <1>1, TypeStep DEF IInv, PromiseNext
  <2>2. cut' \in BOOLEAN
    BY <1>1 DEF PromiseNext, HistoryNext, IInv
  <2> QED
    BY <1>1, <2>1, <2>2, AttemptStep, InHandStep, AtWorkStep DEF IInv
<1>2. CASE UNCHANGED allVars
  BY <1>2 DEF IInv, TypeOK, AttemptIsLast, InHand, AtWork, allVars, vars, fileVars,
              attemptVars, endpointVars
<1> QED
  BY <1>1, <1>2

THEOREM LoginInvariant == PromiseSpec => []IInv
BY IInvInit, IInvStep, PTL DEF PromiseSpec

\* Every variable keeps its type, for any number of calls, pairs and attempts.
THEOREM LoginTypes == PromiseSpec => []TypeOK
<1>1. IInv => TypeOK
  BY DEF IInv
<1> QED
  BY LoginInvariant, <1>1, PTL

\* Two refreshes never race: nobody refreshing, and no answer lost, the pair in
\* hand is one the endpoint accepts.
THEOREM RefreshesDoNotRace == PromiseSpec => []InHandIsValid
<1>1. IInv => InHandIsValid
  BY Nobody DEF IInv, InHand, InHandIsValid, Holding
<1> QED
  BY LoginInvariant, <1>1, PTL

\* Of several logins in progress only the last one started is ever stored.
THEOREM OnlyLastAttempt == PromiseSpec => []LastAttemptWins
<1>1. IInv => LastAttemptWins
  BY DEF IInv, AtWork, LastAttemptWins
<1> QED
  BY LoginInvariant, <1>1, PTL

\* A login comes back after a sign-out by a login started later, and not
\* through a refresh, a profile read or a restart.
THEOREM SignOutsAreFinal == PromiseSpec => SignOutIsFinal
<1> DEFINE Final ==
      login.pair = 0 /\ login'.pair # 0 =>
        \E t \in Tasks : task[t].pc = "welcoming" /\ task[t].attempt > closed
<1>1. ASSUME IInv, [PromiseNext]_allVars
      PROVE  [Final]_allVars
  <2>1. SUFFICES ASSUME PromiseNext, login.pair = 0, login'.pair # 0
                 PROVE  \E t \in Tasks : task[t].pc = "welcoming" /\ task[t].attempt > closed
    BY <1>1
  <2>2. ASSUME NEW t \in Tasks, Welcomed(t)
        PROVE  task[t].pc = "welcoming" /\ task[t].attempt > closed
    BY <1>1, <2>2 DEF Welcomed, IInv, AtWork, AttemptIsLast, TypeOK
  <2>3. ASSUME NEW t \in Tasks, Refreshed(t) \/ Profiled(t) \/ Hydrated(t)
        PROVE  FALSE
    BY <1>1, <2>1, <2>3 DEF Refreshed, Profiled, Hydrated, IInv, AtWork
  <2>4. ~Restart /\ ~SignOut
    BY <1>1, <2>1 DEF Restart, SignOut, IInv, InHand, NoLogin
  <2>5. login' # login
    BY <2>1
  <2>6. PICK t \in Tasks : Arrive(t) \/ Acquire(t) \/ Resume(t) \/ HangUp(t)
    BY <2>1, <2>4, <2>5 DEF PromiseNext, Next, Start, fileVars
  <2>7. Welcomed(t)
    BY <2>3, <2>5, <2>6
       DEF Arrive, Acquire, Resume, HangUp, Ask, Hydrate, Paste, NotSignedIn, TakeToken,
           StartRefresh, PasteRefused, StartExchange, Rejected, RefreshFails, Answered,
           Unauthorized, Exchanged, ExchangeFails, fileVars
  <2> QED
    BY <2>2, <2>7
<1> QED
  BY LoginInvariant, <1>1, PTL DEF PromiseSpec, SignOutIsFinal
=============================================================================
