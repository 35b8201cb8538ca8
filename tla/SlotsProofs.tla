---------------------------- MODULE SlotsProofs ----------------------------
(***************************************************************************)
(* The slots' invariants, proved for any number of requests, slots and     *)
(* accounts.                                                               *)
(*                                                                         *)
(* The inductive invariant says what the holder of accounts_lock knows at  *)
(* each stage of an add or a removal (Managers), that the registry and the *)
(* pool differ by the slot it is working on and no other (InStep), that a  *)
(* slot nobody has signed in to has no login on disk, so that the next add *)
(* sees it (NotYetUsed), and whose files may be found under a free id      *)
(* (Leftover).                                                             *)
(***************************************************************************)
EXTENDS Slots, TLAPS

HasAccount == {"open", "unregister", "close", "erase", "home", "starting",
               "exchange", "logout", "revoke", "chat", "renew"}

OneManager ==
  \A t, u \in Tasks : tasks[t].at \in Managing /\ tasks[u].at \in Managing => t = u

Managers ==
  \A t \in Tasks :
    /\ tasks[t].at \in HasAccount => Of(t) \in Accounts
    /\ At(t, "check") =>
         /\ \A a \in pool \ tasks[t].left : a.id \notin unused
         /\ \E n \in SlotIds : FirstFree(n, registry)
         /\ NewAccounts # {}
    /\ At(t, "open") =>
         Of(t).id \in registry /\ \A a \in pool : a.id # Of(t).id
    /\ At(t, "unregister") => Of(t) \in pool
    /\ At(t, "close") => Of(t) \in pool /\ Of(t).id \notin registry
    /\ tasks[t].at \in {"erase", "home"} => Of(t).id \notin registry

InStep ==
  /\ \A a, b \in pool : a.id = b.id => a = b
  /\ \A a \in pool : a.id \in registry \/ \E t \in Tasks : At(t, "close") /\ Of(t) = a
  /\ \A n \in registry : \/ \E a \in pool : a.id = n
                         \/ \E t \in Tasks : At(t, "open") /\ Of(t).id = n

NotYetUsed ==
  /\ unused \subseteq registry
  /\ \A n \in unused : <<n, "login">> \notin files
  /\ OneNewSlot

\* The ids being removed, from the registry on.
Erasing ==
  {n \in SlotIds : \E t \in Tasks : tasks[t].at \in Leaving /\ Of(t).id = n}

Leftover ==
  \A n \in SlotIds \ registry, f \in Files :
    \/ <<n, f>> \notin files
    \/ n \in strays
    \/ n \in Erasing

\* Between the two directories of a Codex slot.
HalfErased ==
  \A t \in Tasks :
    At(t, "home") =>
      /\ provider = "codex"
      /\ <<Of(t).id, "tokens">> \in files => Of(t).id \in strays

IInv ==
  /\ TypeOK
  /\ OneManager
  /\ Managers
  /\ InStep
  /\ NotYetUsed
  /\ Leftover
  /\ HalfErased
  /\ NoNeedlessDiscovery
-----------------------------------------------------------------------------
LEMMA FreeIsFree ==
  ASSUME \E n \in SlotIds : FirstFree(n, registry)
  PROVE  Free(registry) \in SlotIds /\ Free(registry) \notin registry
BY DEF Free, FirstFree

\* The slot ids, accounts and requests stay what they are declared to be.
LEMMA TypeStep ==
  ASSUME TypeOK, Managers, [Next]_vars
  PROVE  TypeOK'
<1> USE DEF TypeOK, Goes, Ends, Idle, Stages, Managing, Awaiting, Empty, Of, At
<1>1. ASSUME NEW t \in Tasks, Add(t) \/ RequireNoUnsigned(t)
      PROVE  TypeOK'
  BY <1>1 DEF Add, RequireNoUnsigned
<1>2. ASSUME NEW t \in Tasks, Register(t)
      PROVE  TypeOK'
  <2>1. At(t, "check") /\ tasks[t].left = {}
    BY <1>2 DEF Register
  <2>2. CASE Ends(t) /\ UNCHANGED <<registry, unused>>
    BY <1>2, <2>2 DEF Register
  <2>3. ASSUME NEW a \in {CHOOSE a \in NewAccounts : TRUE},
               registry' = registry \cup {a.id},
               unused' = IF SignedIn(a) THEN unused ELSE unused \cup {a.id},
               Goes(t, "open", a, {})
        PROVE  TypeOK'
    <3>1. a \in NewAccounts
      BY <2>1, <2>3 DEF Managers
    <3>2. a \in Accounts
      BY <3>1, <2>1, FreeIsFree DEF Managers, NewAccounts, Accounts
    <3>3. a.id \in SlotIds
      BY <3>2 DEF Accounts
    <3> QED
      BY <1>2, <2>3, <3>2, <3>3 DEF Register
  <2> QED
    BY <1>2, <2>2, <2>3 DEF Register
<1>3. ASSUME NEW t \in Tasks, Open(t) \/ Unregister(t) \/ Close(t)
      PROVE  TypeOK'
  <2>1. Of(t) \in Accounts
    BY <1>3 DEF Open, Unregister, Close, Managers, HasAccount
  <2>2. CASE Open(t)
    BY <2>1, <2>2 DEF Open
  <2>3. CASE Unregister(t)
    BY <2>1, <2>3 DEF Unregister
  <2>4. CASE Close(t)
    BY <2>1, <2>4 DEF Close
  <2> QED
    BY <1>3, <2>2, <2>3, <2>4
<1>4. ASSUME NEW t \in Tasks, Erase(t)
      PROVE  TypeOK'
  <2>1. Of(t) \in Accounts /\ Of(t).id \in SlotIds
    BY <1>4 DEF Erase, Managers, HasAccount, Accounts
  <2>2. files' \subseteq files /\ strays' \subseteq strays \cup {Of(t).id}
    BY <1>4 DEF Erase
  <2>3. tasks' \in [Tasks -> [at : Stages, account : Accounts \cup {Nobody},
                             left : SUBSET Accounts]]
    BY <1>4, <2>1 DEF Erase
  <2> QED
    BY <1>4, <2>1, <2>2, <2>3 DEF Erase
<1>5. ASSUME NEW t \in Tasks, Forget(t) \/ Started(t) \/ Revoked(t) \/ Recorded(t)
      PROVE  TypeOK'
  <2>1. CASE Forget(t)
    BY <2>1 DEF Forget
  <2>2. CASE Revoked(t)
    BY <2>2 DEF Revoked
  <2>3. CASE Started(t) \/ Recorded(t)
    <3>1. Of(t) \in Accounts
      BY <2>3 DEF Started, Recorded, Managers, HasAccount
    <3> QED
      BY <2>3, <3>1 DEF Started, Recorded
  <2> QED
    BY <1>5, <2>1, <2>2, <2>3
<1>6. ASSUME NEW t \in Tasks, Finished(t)
      PROVE  TypeOK'
  BY <1>6 DEF Finished, Managers, HasAccount, Accounts, Files
<1>7. ASSUME NEW t \in Tasks, Renew(t) \/ Renewed(t)
      PROVE  TypeOK'
  BY <1>7 DEF Renew, Renewed, Writes, Managers, HasAccount, Accounts, Files
<1>8. ASSUME NEW t \in Tasks, Models(t) \/ LiveCatalog(t) \/ Discovered(t) \/ HangUp(t)
      PROVE  TypeOK'
  <2>1. CASE Models(t)
    <3>1. catalog' \in [young : BOOLEAN, resting : BOOLEAN]
      <4>1. CASE catalog' = catalog
        BY <4>1
      <4>2. CASE catalog' = Empty
        BY <4>2
      <4> QED
        BY <2>1, <4>1, <4>2 DEF Models
    <3>2. tasks' \in [Tasks -> [at : Stages, account : Accounts \cup {Nobody},
                               left : SUBSET Accounts]]
      BY <2>1 DEF Models
    <3> QED
      BY <2>1, <3>1, <3>2 DEF Models
  <2>2. CASE LiveCatalog(t)
    <3>1. catalog' \in [young : BOOLEAN, resting : BOOLEAN]
      BY <2>2 DEF LiveCatalog, Discover
    <3>2. tasks' \in [Tasks -> [at : Stages, account : Accounts \cup {Nobody},
                               left : SUBSET Accounts]]
      BY <2>2 DEF LiveCatalog, Discover
    <3> QED
      BY <2>2, <3>1, <3>2 DEF LiveCatalog
  <2>3. CASE Discovered(t)
    <3>1. catalog' \in [young : BOOLEAN, resting : BOOLEAN]
      <4>1. CASE catalog' = [young |-> TRUE, resting |-> FALSE]
        BY <4>1
      <4>2. CASE catalog' = [catalog EXCEPT !.resting = TRUE]
        BY <4>2
      <4> QED
        BY <2>3, <4>1, <4>2 DEF Discovered
    <3>2. tasks' \in [Tasks -> [at : Stages, account : Accounts \cup {Nobody},
                               left : SUBSET Accounts]]
      BY <2>3 DEF Discovered
    <3> QED
      BY <2>3, <3>1, <3>2 DEF Discovered
  <2>4. CASE HangUp(t)
    BY <2>4 DEF HangUp
  <2> QED
    BY <1>8, <2>1, <2>2, <2>3, <2>4
<1>9. ASSUME NEW t \in Tasks, NEW a \in pool,
             Remove(t, a) \/ Start(t, a) \/ Logout(t, a) \/ Chat(t, a)
      PROVE  TypeOK'
  BY <1>9 DEF Remove, Start, Logout, Chat
<1>10. ASSUME NEW t \in Tasks, Attempted(t) \/ FinishLogin(t) \/ SignedOut(t)
       PROVE  TypeOK'
  <2>1. Of(t) \in Accounts
    BY <1>10 DEF Attempted, FinishLogin, SignedOut, Managers, HasAccount
  <2>2. CASE Attempted(t)
    BY <2>1, <2>2 DEF Attempted, Writes, Accounts, Files
  <2>3. CASE FinishLogin(t)
    BY <2>1, <2>3 DEF FinishLogin
  <2>4. CASE SignedOut(t)
    BY <2>1, <2>4 DEF SignedOut
  <2> QED
    BY <1>10, <2>2, <2>3, <2>4
<1>11. ASSUME NEW a \in polls, Complete(a)
       PROVE  TypeOK'
  BY <1>11 DEF Complete, Writes, Accounts, Files
<1>12. ASSUME NEW a \in flushes, Flush(a)
       PROVE  TypeOK'
  BY <1>12 DEF Flush, Writes, Accounts, Files
<1>13. CASE Tick
  BY <1>13 DEF Tick
<1>14. CASE Restart
  BY <1>14, SlotsAssumption DEF Restart, Accounts, Leaving, Managers, HasAccount
<1>15. CASE UNCHANGED vars
  BY <1>15 DEF vars
<1> QED
  BY <1>1, <1>2, <1>3, <1>4, <1>5, <1>6, <1>7, <1>8, <1>9, <1>10, <1>11, <1>12,
     <1>13, <1>14, <1>15 DEF Next

\* The steps that are no part of an add or a removal.
Aside ==
  \/ \E t \in Tasks :
       \/ Forget(t) \/ Attempted(t) \/ Started(t) \/ FinishLogin(t) \/ Finished(t)
       \/ SignedOut(t) \/ Revoked(t)
       \/ Renew(t) \/ Renewed(t) \/ Recorded(t)
       \/ Models(t) \/ LiveCatalog(t) \/ Discovered(t) \/ HangUp(t)
       \/ \E a \in pool : Start(t, a) \/ Logout(t, a) \/ Chat(t, a)
  \/ \E a \in polls : Complete(a)
  \/ \E a \in flushes : Flush(a)
  \/ Tick

\* What they leave to whoever holds accounts_lock: the registry, the pool, its own
\* stage, and a free account for the id it is about to register.
Undisturbed ==
  /\ registry' = registry
  /\ pool' = pool
  /\ unused' \subseteq unused
  /\ Held' \subseteq Held \cup {Nobody}
  /\ \A t \in Tasks :
       \/ tasks'[t] = tasks[t]
       \/ /\ tasks[t].at \notin Managing
          /\ tasks'[t].at \notin Managing
          /\ tasks'[t].at \in HasAccount => tasks'[t].account \in Accounts

LEMMA AsideUndisturbed ==
  ASSUME TypeOK, Managers, Aside
  PROVE  Undisturbed
<1> USE DEF TypeOK, Undisturbed, Goes, Ends, Idle, Managing, HasAccount, At, Of
<1>1. ASSUME NEW t \in Tasks, NEW at \in Stages \ Managing, NEW a \in Held \cup {Nobody},
             at \in HasAccount => a \in Accounts,
             tasks[t].at \notin Managing,
             Goes(t, at, a, {}),
             registry' = registry, pool' = pool, unused' \subseteq unused,
             polls' \subseteq Held, flushes' \subseteq Held
      PROVE  Undisturbed
  <2>1. \A u \in Tasks : u # t => tasks'[u] = tasks[u]
    BY <1>1
  <2>2. tasks'[t] = [at |-> at, account |-> a, left |-> {}]
    BY <1>1
  <2>3. \A u \in Tasks : tasks'[u].account \in Held \cup {Nobody}
    BY <1>1, <2>1, <2>2 DEF Held
  <2>4. Held' \subseteq Held \cup {Nobody}
    BY <1>1, <2>3 DEF Held
  <2> QED
    BY <1>1, <2>1, <2>2, <2>4
<1>2. polls \subseteq Held /\ flushes \subseteq Held /\ pool \subseteq Held
  BY DEF Held
<1>3. \A t \in Tasks : Of(t) \in Held
  BY DEF Held
<1>4. ASSUME NEW t \in Tasks, Forget(t) \/ HangUp(t)
      PROVE  Undisturbed
  BY <1>1, <1>2, <1>4 DEF Forget, HangUp, Awaiting, Stages
<1>5. ASSUME NEW t \in Tasks, Revoked(t) \/ Renew(t)
      PROVE  Undisturbed
  BY <1>1, <1>2, <1>3, <1>5 DEF Revoked, Renew, Managers, Awaiting, Stages
<1>6. ASSUME NEW t \in Tasks, Started(t) \/ Recorded(t)
      PROVE  Undisturbed
  BY <1>1, <1>2, <1>3, <1>6 DEF Started, Recorded, Stages
<1>7. ASSUME NEW t \in Tasks, Finished(t)
      PROVE  Undisturbed
  BY <1>1, <1>2, <1>7 DEF Finished, Stages
<1>8. ASSUME NEW t \in Tasks, Renewed(t)
      PROVE  Undisturbed
  BY <1>1, <1>2, <1>3, <1>8 DEF Renewed, Writes, Managers, Awaiting, Stages
<1>9. ASSUME NEW t \in Tasks, Discovered(t)
      PROVE  Undisturbed
  BY <1>1, <1>2, <1>9 DEF Discovered, Stages
<1>10. ASSUME NEW t \in Tasks, LiveCatalog(t)
       PROVE  Undisturbed
  BY <1>1, <1>2, <1>10 DEF LiveCatalog, Discover, Awaiting, Stages
<1>11. ASSUME UNCHANGED tasks, registry' = registry, pool' = pool, unused' \subseteq unused,
              polls' \subseteq polls, flushes' \subseteq flushes
       PROVE  Undisturbed
  BY <1>11 DEF Held
<1>12. ASSUME NEW t \in Tasks, Models(t)
       PROVE  Undisturbed
  BY <1>1, <1>2, <1>11, <1>12 DEF Models, Awaiting, Stages
<1>13. ASSUME NEW t \in Tasks, Attempted(t) \/ FinishLogin(t) \/ SignedOut(t)
       PROVE  Undisturbed
  <2>1. CASE Attempted(t)
    BY <1>1, <1>2, <2>1 DEF Attempted, Writes, Stages
  <2>2. CASE FinishLogin(t)
    BY <1>1, <1>2, <1>3, <2>2 DEF FinishLogin, Managers, Awaiting, Stages
  <2>3. CASE SignedOut(t)
    BY <1>1, <1>2, <1>3, <2>3 DEF SignedOut, Managers, Awaiting, Stages
  <2> QED
    BY <1>13, <2>1, <2>2, <2>3
<1>14. ASSUME NEW t \in Tasks, NEW a \in pool,
              Start(t, a) \/ Logout(t, a) \/ Chat(t, a)
       PROVE  Undisturbed
  BY <1>1, <1>2, <1>14 DEF Start, Logout, Chat, Awaiting, Stages
<1>15. ASSUME NEW a \in polls, Complete(a)
       PROVE  Undisturbed
  BY <1>11, <1>15 DEF Complete, Writes
<1>16. ASSUME NEW a \in flushes, Flush(a)
       PROVE  Undisturbed
  BY <1>11, <1>16 DEF Flush, Writes
<1>17. CASE Tick
  BY <1>11, <1>17 DEF Tick
<1> QED
  BY <1>4, <1>5, <1>6, <1>7, <1>8, <1>9, <1>10, <1>12, <1>13, <1>14, <1>15,
     <1>16, <1>17 DEF Aside

\* One request at a time holds accounts_lock: it is taken by an add or a removal
\* that finds nobody holding it, and kept from stage to stage.
LEMMA OneManagerStep ==
  ASSUME TypeOK, OneManager, Managers, [Next]_vars
  PROVE  OneManager'
<1> USE DEF TypeOK, OneManager, Goes, Ends, Idle, Managing, At, Managed
<1>1. ASSUME NEW t \in Tasks,
             \/ Add(t) \/ RequireNoUnsigned(t) \/ Register(t) \/ Open(t)
             \/ Unregister(t) \/ Close(t) \/ Erase(t)
      PROVE  OneManager'
  <2>1. \A u \in Tasks \ {t} : tasks'[u] = tasks[u]
    BY <1>1 DEF Add, RequireNoUnsigned, Register, Open, Unregister, Close, Erase
  <2>2. ~Managed \/ tasks[t].at \in Managing
    BY <1>1 DEF Add, RequireNoUnsigned, Register, Open, Unregister, Close, Erase
  <2> QED
    BY <2>1, <2>2
<1>2. ASSUME NEW t \in Tasks, NEW a \in pool, Remove(t, a)
      PROVE  OneManager'
  BY <1>2 DEF Remove
<1>3. CASE Aside
  BY <1>3, AsideUndisturbed DEF Undisturbed
<1>4. CASE Restart
  BY <1>4 DEF Restart
<1>5. CASE UNCHANGED vars
  BY <1>5 DEF vars
<1> QED
  BY <1>1, <1>2, <1>3, <1>4, <1>5 DEF Next, Aside

\* What the holder of accounts_lock knows at its stage stays true while others
\* come between: nothing else changes the registry or the pool, a slot that was
\* found signed in stays one that was signed in to, and nobody takes hold of an
\* account that is not there yet.
LEMMA ManagersStep ==
  ASSUME TypeOK, OneManager, Managers, InStep, NotYetUsed, [Next]_vars
  PROVE  Managers'
<1> USE DEF TypeOK, Goes, Ends, Idle, At, Of
<1>1. ASSUME NEW t \in Tasks, Add(t)
      PROVE  Managers'
  <2>1. \A u \in Tasks : u # t => tasks'[u] = tasks[u]
    BY <1>1 DEF Add
  <2>2. tasks'[t] = [at |-> "check", account |-> Nobody, left |-> pool]
    BY <1>1 DEF Add
  <2>3. NewAccounts' # {}
    <3>1. Free(registry') = Free(registry) /\ Free(registry) \in SlotIds
      BY <1>1, FreeIsFree DEF Add
    <3>2. Held' \cap Accounts \subseteq Held
      BY <1>1, <2>1, <2>2 DEF Add, Held, Nobody, Accounts
    <3> QED
      BY <1>1, <3>1, <3>2 DEF Add, NewAccounts, Accounts
  <2>4. \A u \in Tasks : u # t => tasks[u].at \notin Managing
    BY <1>1 DEF Add, Managed
  <2> QED
    BY <1>1, <2>1, <2>2, <2>3, <2>4 DEF Add, Managers, Managing, HasAccount
<1>2. ASSUME NEW t \in Tasks, RequireNoUnsigned(t)
      PROVE  Managers'
  <2>1. \A u \in Tasks : u # t => tasks'[u] = tasks[u] /\ tasks[u].at \notin Managing
    BY <1>2 DEF RequireNoUnsigned, OneManager, Managing
  <2>2. PICK a \in tasks[t].left :
          IF SignedIn(a) THEN Goes(t, "check", Nobody, tasks[t].left \ {a}) ELSE Ends(t)
    BY <1>2 DEF RequireNoUnsigned
  <2>3. CASE SignedIn(a)
    <3>1. tasks'[t] = [at |-> "check", account |-> Nobody, left |-> tasks[t].left \ {a}]
      BY <2>2, <2>3
    <3>2. a.id \notin unused
      BY <2>3 DEF SignedIn, NotYetUsed
    <3>3. NewAccounts' # {}
      <4>1. Free(registry') = Free(registry) /\ Free(registry) \in SlotIds
        BY <1>2, FreeIsFree DEF RequireNoUnsigned, Managers
      <4>2. Held' \cap Accounts \subseteq Held
        BY <1>2, <2>1, <3>1 DEF RequireNoUnsigned, Held, Nobody, Accounts
      <4> QED
        BY <1>2, <4>1, <4>2 DEF RequireNoUnsigned, NewAccounts, Accounts, Managers
    <3> QED
      BY <1>2, <2>1, <3>1, <3>2, <3>3 DEF RequireNoUnsigned, Managers, Managing, HasAccount
  <2>4. CASE ~SignedIn(a)
    BY <1>2, <2>1, <2>2, <2>4 DEF RequireNoUnsigned, Managers, Managing, HasAccount
  <2> QED
    BY <2>3, <2>4
<1>3. ASSUME NEW t \in Tasks, Register(t)
      PROVE  Managers'
  <2>1. \A u \in Tasks : u # t => tasks'[u] = tasks[u] /\ tasks[u].at \notin Managing
    BY <1>3 DEF Register, OneManager, Managing
  <2>2. CASE Ends(t)
    BY <1>3, <2>1, <2>2 DEF Register, Managers, Managing, HasAccount
  <2>3. ASSUME NEW a \in {CHOOSE a \in NewAccounts : TRUE},
               registry' = registry \cup {a.id},
               Goes(t, "open", a, {})
        PROVE  Managers'
    <3>1. a \in NewAccounts /\ (\E n \in SlotIds : FirstFree(n, registry))
      BY <1>3, <2>3 DEF Register, Managers
    <3>2. a \in Accounts /\ a.id \notin registry
      BY <3>1, FreeIsFree DEF NewAccounts, Accounts
    <3>3. \A b \in pool : b.id \in registry
      BY <1>3, <2>1 DEF Register, InStep, Managing
    <3>4. tasks'[t] = [at |-> "open", account |-> a, left |-> {}]
      BY <2>3
    <3> QED
      BY <1>3, <2>1, <2>3, <3>2, <3>3, <3>4 DEF Register, Managers, Managing, HasAccount
  <2> QED
    BY <1>3, <2>2, <2>3 DEF Register
<1>4. ASSUME NEW t \in Tasks, \/ Open(t) \/ Unregister(t) \/ Close(t) \/ Erase(t)
      PROVE  Managers'
  <2>1. \A u \in Tasks : u # t => tasks'[u] = tasks[u] /\ tasks[u].at \notin Managing
    BY <1>4 DEF Open, Unregister, Close, Erase, OneManager, Managing
  <2>2. CASE Open(t)
    BY <2>1, <2>2 DEF Open, Managers, Managing, HasAccount
  <2>3. CASE Unregister(t)
    BY <2>1, <2>3 DEF Unregister, Managers, Managing, HasAccount
  <2>4. CASE Close(t)
    BY <2>1, <2>4 DEF Close, Managers, Managing, HasAccount
  <2>5. CASE Erase(t)
    BY <2>1, <2>5 DEF Erase, Managers, Managing, HasAccount
  <2> QED
    BY <1>4, <2>2, <2>3, <2>4, <2>5
<1>5. ASSUME NEW t \in Tasks, NEW a \in pool, Remove(t, a)
      PROVE  Managers'
  <2>1. \A u \in Tasks : u # t => tasks'[u] = tasks[u] /\ tasks[u].at \notin Managing
    BY <1>5 DEF Remove, Managed
  <2> QED
    BY <1>5, <2>1 DEF Remove, Managers, Managing, HasAccount
<1>6. CASE Aside
  <2>1. Undisturbed
    BY <1>6, AsideUndisturbed
  <2>2. \A t \in Tasks : At(t, "check") => NewAccounts' # {}
    <3> SUFFICES ASSUME NEW t \in Tasks, At(t, "check")
                 PROVE  NewAccounts' # {}
      OBVIOUS
    <3>1. Free(registry') = Free(registry) /\ Free(registry) \in SlotIds
      BY <2>1, FreeIsFree DEF Undisturbed, Managers
    <3>2. Held' \cap Accounts \subseteq Held
      BY <2>1 DEF Undisturbed, Nobody, Accounts
    <3> QED
      BY <3>1, <3>2 DEF NewAccounts, Accounts, Managers
  <2> QED
    BY <2>1, <2>2 DEF Undisturbed, Managers, Managing
<1>7. CASE Restart
  BY <1>7 DEF Restart, Managers, HasAccount
<1>8. CASE UNCHANGED vars
  BY <1>8 DEF vars, Managers, NewAccounts, Held
<1> QED
  BY <1>1, <1>2, <1>3, <1>4, <1>5, <1>6, <1>7, <1>8 DEF Next, Aside

\* The registry and the pool gain an id, and lose one, at two steps of the same
\* request; between them only that id is in one and not in the other.
LEMMA InStepStep ==
  ASSUME TypeOK, OneManager, Managers, InStep, [Next]_vars
  PROVE  InStep'
<1> USE DEF TypeOK, InStep, Goes, Ends, Idle, At, Of
<1>1. ASSUME NEW t \in Tasks, Add(t) \/ RequireNoUnsigned(t) \/ Erase(t)
      PROVE  InStep'
  BY <1>1 DEF Add, RequireNoUnsigned, Erase
<1>2. ASSUME NEW t \in Tasks, Register(t)
      PROVE  InStep'
  <2>1. CASE Ends(t) /\ registry' = registry
    BY <1>2, <2>1 DEF Register
  <2>2. ASSUME NEW a \in {CHOOSE a \in NewAccounts : TRUE},
               registry' = registry \cup {a.id},
               Goes(t, "open", a, {})
        PROVE  InStep'
    <3>1. tasks'[t] = [at |-> "open", account |-> a, left |-> {}]
      BY <2>2
    <3>2. \A u \in Tasks : u # t => tasks'[u] = tasks[u]
      BY <2>2
    <3> QED
      BY <1>2, <2>2, <3>1, <3>2 DEF Register
  <2> QED
    BY <1>2, <2>1, <2>2 DEF Register
<1>3. ASSUME NEW t \in Tasks, Open(t)
      PROVE  InStep'
  <2>1. Of(t).id \in registry /\ \A a \in pool : a.id # Of(t).id
    BY <1>3 DEF Open, Managers
  <2>2. \A u \in Tasks : u # t => tasks'[u] = tasks[u]
    BY <1>3 DEF Open
  <2>3. \A u \in Tasks : At(u, "open") => u = t
    BY <1>3 DEF Open, OneManager, Managing
  <2> QED
    BY <1>3, <2>1, <2>2, <2>3 DEF Open
<1>4. ASSUME NEW t \in Tasks, Unregister(t)
      PROVE  InStep'
  <2>1. CASE Ends(t) /\ registry' = registry
    BY <1>4, <2>1 DEF Unregister
  <2>2. CASE registry' = registry \ {Of(t).id} /\ Goes(t, "close", Of(t), {})
    <3>1. tasks'[t] = [at |-> "close", account |-> Of(t), left |-> {}]
      BY <2>2
    <3>2. \A u \in Tasks : u # t => tasks'[u] = tasks[u]
      BY <2>2
    <3>3. Of(t) \in pool
      BY <1>4 DEF Unregister, Managers
    <3> QED
      BY <1>4, <2>2, <3>1, <3>2, <3>3 DEF Unregister
  <2> QED
    BY <1>4, <2>1, <2>2 DEF Unregister
<1>5. ASSUME NEW t \in Tasks, Close(t)
      PROVE  InStep'
  <2>1. Of(t).id \notin registry
    BY <1>5 DEF Close, Managers
  <2>2. \A u \in Tasks : u # t => tasks'[u] = tasks[u]
    BY <1>5 DEF Close
  <2>3. \A u \in Tasks : At(u, "close") => u = t
    BY <1>5 DEF Close, OneManager, Managing
  <2> QED
    BY <1>5, <2>1, <2>2, <2>3 DEF Close
<1>6. ASSUME NEW t \in Tasks, NEW a \in pool, Remove(t, a)
      PROVE  InStep'
  BY <1>6 DEF Remove
<1>7. CASE Aside
  <2>1. \A t \in Tasks : tasks[t].at \in Managing => tasks'[t] = tasks[t]
    BY <1>7, AsideUndisturbed DEF Undisturbed
  <2>2. registry' = registry /\ pool' = pool
    BY <1>7, AsideUndisturbed DEF Undisturbed
  <2> QED
    BY <2>1, <2>2 DEF Managing
<1>8. CASE Restart
  <2>1. pool' = {[id |-> n, life |-> 1] : n \in registry} /\ registry' = registry
    BY <1>8 DEF Restart
  <2>2. ASSUME NEW a \in pool'
        PROVE  a = [id |-> a.id, life |-> 1] /\ a.id \in registry'
    <3>1. PICK n \in registry : a = [id |-> n, life |-> 1]
      BY <2>1
    <3>2. a.id = n
      BY <3>1
    <3> QED
      BY <2>1, <3>1, <3>2
  <2>3. \A a, b \in pool' : a.id = b.id => a = b
    <3> SUFFICES ASSUME NEW a \in pool', NEW b \in pool', a.id = b.id
                 PROVE  a = b
      OBVIOUS
    <3>1. a = [id |-> a.id, life |-> 1]
      BY <2>2
    <3>2. b = [id |-> b.id, life |-> 1]
      BY <2>2
    <3> QED
      BY <3>1, <3>2
  <2>4. ASSUME NEW n \in registry'
        PROVE  \E a \in pool' : a.id = n
    <3>1. [id |-> n, life |-> 1] \in pool'
      BY <2>1
    <3>2. [id |-> n, life |-> 1].id = n
      OBVIOUS
    <3> QED
      BY <3>1, <3>2
  <2> QED
    BY <2>2, <2>3, <2>4
<1>9. CASE UNCHANGED vars
  BY <1>9 DEF vars
<1> QED
  BY <1>1, <1>2, <1>3, <1>4, <1>5, <1>6, <1>7, <1>8, <1>9 DEF Next, Aside

\* A slot nobody has signed in to has no login on disk, so the next add finds it
\* and is refused: when a slot is registered, no other is unused.
LEMMA NotYetUsedStep ==
  ASSUME TypeOK, OneManager, Managers, InStep, NotYetUsed, [Next]_vars
  PROVE  NotYetUsed'
<1> USE DEF NotYetUsed, OneNewSlot
<1>1. ASSUME registry' = registry, unused' = unused,
             \A n \in unused : <<n, "login">> \in files' => <<n, "login">> \in files
      PROVE  NotYetUsed'
  BY <1>1
<1>2. ASSUME NEW a \in Accounts, registry' = registry, Writes(a, {"login"})
      PROVE  NotYetUsed'
  BY <1>2 DEF Writes
<1>3. ASSUME NEW a \in Accounts, NEW f \in {"attempt", "tokens"},
             registry' = registry, Writes(a, {f})
      PROVE  NotYetUsed'
  BY <1>3 DEF Writes
<1>4. ASSUME NEW t \in Tasks, Register(t)
      PROVE  NotYetUsed'
  <2>1. CASE UNCHANGED <<registry, unused>>
    BY <1>1, <1>4, <2>1 DEF Register
  <2>2. ASSUME NEW a \in {CHOOSE a \in NewAccounts : TRUE},
               registry' = registry \cup {a.id},
               unused' = IF SignedIn(a) THEN unused ELSE unused \cup {a.id}
        PROVE  NotYetUsed'
    <3>1. At(t, "check") /\ tasks[t].left = {} /\ files' = files
      BY <1>4 DEF Register
    <3>2. \A n \in registry : \E b \in pool : b.id = n
      BY <3>1 DEF InStep, OneManager, Managing, At
    <3>3. \A b \in pool : b.id \notin unused
      BY <3>1 DEF Managers
    <3>4. unused = {}
      BY <3>2, <3>3
    <3> QED
      BY <2>2, <3>1, <3>4 DEF SignedIn
  <2> QED
    BY <1>4, <2>1, <2>2 DEF Register
<1>5. ASSUME NEW t \in Tasks, Unregister(t)
      PROVE  NotYetUsed'
  BY <1>5 DEF Unregister
<1>6. ASSUME NEW t \in Tasks,
             Add(t) \/ RequireNoUnsigned(t) \/ Open(t) \/ Close(t) \/ Erase(t)
      PROVE  NotYetUsed'
  BY <1>1, <1>6 DEF Add, RequireNoUnsigned, Open, Close, Erase
<1>7. ASSUME NEW t \in Tasks, Forget(t) \/ Started(t) \/ Revoked(t) \/ Recorded(t)
      PROVE  NotYetUsed'
  BY <1>1, <1>7 DEF Forget, Started, Revoked, Recorded
<1>8. ASSUME NEW t \in Tasks, Finished(t)
      PROVE  NotYetUsed'
  BY <1>8 DEF Finished
<1>9. ASSUME NEW t \in Tasks, Renew(t) \/ Models(t) \/ LiveCatalog(t) \/ Discovered(t) \/ HangUp(t)
      PROVE  NotYetUsed'
  BY <1>1, <1>9 DEF Renew, Models, LiveCatalog, Discovered, HangUp
<1>10. ASSUME NEW t \in Tasks, Renewed(t)
       PROVE  NotYetUsed'
  BY <1>2, <1>10 DEF Renewed, Managers, HasAccount, At
<1>11. ASSUME NEW t \in Tasks, NEW a \in pool,
              Remove(t, a) \/ Start(t, a) \/ Logout(t, a) \/ Chat(t, a)
       PROVE  NotYetUsed'
  BY <1>1, <1>11 DEF Remove, Start, Logout, Chat
<1>12. ASSUME NEW t \in Tasks, Attempted(t) \/ FinishLogin(t) \/ SignedOut(t)
       PROVE  NotYetUsed'
  <2>1. Of(t) \in Accounts
    BY <1>12 DEF Attempted, FinishLogin, SignedOut, Managers, HasAccount, At
  <2>2. CASE Attempted(t)
    BY <1>3, <2>1, <2>2 DEF Attempted
  <2>3. CASE FinishLogin(t) \/ SignedOut(t)
    BY <1>1, <2>3 DEF FinishLogin, SignedOut
  <2> QED
    BY <1>12, <2>2, <2>3
<1>13. ASSUME NEW a \in polls, Complete(a)
       PROVE  NotYetUsed'
  BY <1>1, <1>2, <1>13 DEF Complete, TypeOK
<1>14. ASSUME NEW a \in flushes, Flush(a)
       PROVE  NotYetUsed'
  BY <1>3, <1>14 DEF Flush, TypeOK
<1>15. CASE Tick \/ Restart \/ UNCHANGED vars
  BY <1>1, <1>15 DEF Tick, Restart, vars
<1> QED
  BY <1>4, <1>5, <1>6, <1>7, <1>8, <1>9, <1>10, <1>11, <1>12, <1>13, <1>14,
     <1>15 DEF Next

\* Files turn up under a free id by a removal that is not done, or by an account the
\* pool had let go: an account of the pool whose id is free is one being removed.
LEMMA LeftoverStep ==
  ASSUME TypeOK, OneManager, Managers, InStep, Leftover, HalfErased, [Next]_vars
  PROVE  Leftover'
<1>1. ASSUME files' \subseteq files, registry \subseteq registry', strays \subseteq strays',
             Erasing \subseteq Erasing'
      PROVE  Leftover'
  BY <1>1 DEF Leftover
<1>2. ASSUME \A t \in Tasks : tasks[t].at \in Leaving => tasks'[t] = tasks[t]
      PROVE  Erasing \subseteq Erasing'
  BY <1>2 DEF Erasing, Of
<1>3. ASSUME NEW a \in Accounts,
             \A n \in SlotIds, f \in Files :
               <<n, f>> \in files' => <<n, f>> \in files \/ n = a.id,
             strays' = IF a \in pool THEN strays ELSE strays \cup {a.id},
             registry' = registry, Erasing \subseteq Erasing'
      PROVE  Leftover'
  <2>1. a \in pool /\ a.id \notin registry => a.id \in Erasing
    BY DEF InStep, Erasing, Accounts, At, Leaving
  <2> QED
    BY <1>3, <2>1 DEF Leftover
<1>4. ASSUME NEW a \in Accounts, NEW names \in SUBSET Files, Writes(a, names),
             registry' = registry, Erasing \subseteq Erasing'
      PROVE  Leftover'
  BY <1>3, <1>4 DEF Writes
<1> USE DEF Goes, Ends, Idle, Leaving, At
<1>5. ASSUME NEW t \in Tasks, Add(t) \/ RequireNoUnsigned(t) \/ Register(t) \/ Open(t)
      PROVE  Leftover'
  <2>1. Erasing \subseteq Erasing'
    BY <1>2, <1>5 DEF TypeOK, Add, RequireNoUnsigned, Register, Open
  <2> QED
    BY <1>1, <1>5, <2>1 DEF Add, RequireNoUnsigned, Register, Open
<1>6. ASSUME NEW t \in Tasks, Unregister(t)
      PROVE  Leftover'
  <2>1. Erasing \subseteq Erasing'
    BY <1>2, <1>6 DEF TypeOK, Unregister
  <2>2. CASE Ends(t) /\ registry' = registry
    BY <1>1, <1>6, <2>1, <2>2 DEF Unregister
  <2>3. CASE registry' = registry \ {Of(t).id} /\ Goes(t, "close", Of(t), {})
    <3>1. tasks'[t] = [at |-> "close", account |-> Of(t), left |-> {}]
      BY <2>3 DEF TypeOK
    <3>2. Of(t).id \in SlotIds => Of(t).id \in Erasing'
      BY <3>1 DEF Erasing, Of
    <3> QED
      BY <1>6, <2>1, <2>3, <3>2 DEF Unregister, Leftover
  <2> QED
    BY <1>6, <2>2, <2>3 DEF Unregister
<1>7. ASSUME NEW t \in Tasks, Close(t)
      PROVE  Leftover'
  <2>1. tasks'[t] = [at |-> "erase", account |-> Of(t), left |-> {}]
    BY <1>7 DEF Close, TypeOK
  <2>2. \A u \in Tasks : u # t => tasks'[u] = tasks[u]
    BY <1>7 DEF Close, TypeOK
  <2>3. Erasing \subseteq Erasing'
    BY <2>1, <2>2 DEF Erasing, Of
  <2> QED
    BY <1>1, <1>7, <2>3 DEF Close
<1>8. ASSUME NEW t \in Tasks, NEW a \in pool, Remove(t, a)
      PROVE  Leftover'
  BY <1>1, <1>2, <1>8 DEF Remove, TypeOK
<1>9. ASSUME Aside
      PROVE  Erasing \subseteq Erasing'
  BY <1>2, <1>9, AsideUndisturbed DEF Undisturbed, Managing
<1>10. ASSUME NEW t \in Tasks,
              \/ Forget(t) \/ Started(t) \/ FinishLogin(t) \/ SignedOut(t) \/ Revoked(t)
              \/ Renew(t) \/ Recorded(t) \/ HangUp(t) \/ Discovered(t) \/ Models(t)
              \/ LiveCatalog(t)
       PROVE  Leftover'
  <2>1. Erasing \subseteq Erasing'
    BY <1>9, <1>10 DEF Aside
  <2> QED
    BY <1>1, <1>10, <2>1
       DEF Forget, Started, FinishLogin, SignedOut, Revoked, Renew, Recorded, HangUp,
           Discovered, Models, LiveCatalog
<1>11. ASSUME NEW t \in Tasks, Finished(t)
       PROVE  Leftover'
  <2>1. Of(t) \in Accounts
    BY <1>11 DEF Finished, Managers, HasAccount
  <2>2. Erasing \subseteq Erasing'
    BY <1>9, <1>11 DEF Aside
  <2> QED
    BY <1>3, <1>11, <2>1, <2>2 DEF Finished
<1>12. ASSUME NEW t \in Tasks, Renewed(t)
       PROVE  Leftover'
  <2>1. Of(t) \in Accounts
    BY <1>12 DEF Renewed, Managers, HasAccount
  <2>2. Erasing \subseteq Erasing'
    BY <1>9, <1>12 DEF Aside
  <2> QED
    BY <1>4, <1>12, <2>1, <2>2 DEF Renewed, Files
<1>13. ASSUME NEW t \in Tasks, Attempted(t)
       PROVE  Leftover'
  <2>1. Of(t) \in Accounts
    BY <1>13 DEF Attempted, Managers, HasAccount
  <2>2. Erasing \subseteq Erasing'
    BY <1>9, <1>13 DEF Aside
  <2> QED
    BY <1>4, <1>13, <2>1, <2>2 DEF Attempted, Files
<1>14. ASSUME NEW t \in Tasks, NEW a \in pool,
              Start(t, a) \/ Logout(t, a) \/ Chat(t, a)
       PROVE  Leftover'
  <2>1. Erasing \subseteq Erasing'
    BY <1>9, <1>14 DEF Aside
  <2> QED
    BY <1>1, <1>14, <2>1 DEF Start, Logout, Chat
<1>15. ASSUME NEW a \in polls, Complete(a)
       PROVE  Leftover'
  <2>1. Erasing \subseteq Erasing'
    BY <1>9, <1>15 DEF Aside
  <2>2. CASE Writes(a, {"login"})
    BY <1>4, <1>15, <2>1, <2>2 DEF Complete, Files, TypeOK
  <2>3. CASE UNCHANGED <<files, unused, strays>>
    BY <1>1, <1>15, <2>1, <2>3 DEF Complete
  <2> QED
    BY <1>15, <2>2, <2>3 DEF Complete
<1>16. ASSUME NEW a \in flushes, Flush(a)
       PROVE  Leftover'
  <2>1. Erasing \subseteq Erasing'
    BY <1>9, <1>16 DEF Aside
  <2> QED
    BY <1>4, <1>16, <2>1 DEF Flush, Files, TypeOK
<1>17. ASSUME NEW t \in Tasks, Erase(t)
       PROVE  Leftover'
  <2>1. \A u \in Tasks : u # t => tasks'[u] = tasks[u]
    BY <1>17 DEF Erase, TypeOK
  <2>2. \A n \in Erasing : n # Of(t).id => n \in Erasing'
    BY <2>1 DEF Erasing, Of
  <2>3. registry' = registry /\ files' \subseteq files
    BY <1>17 DEF Erase
  <2>4. \A n \in strays : n # Of(t).id => n \in strays'
    BY <1>17 DEF Erase
  <2>5. CASE provider = "codex" /\ At(t, "erase")
    <3>1. tasks'[t] = [at |-> "home", account |-> Of(t), left |-> {}]
      BY <1>17, <2>5 DEF Erase, TypeOK
    <3>2. Of(t).id \in SlotIds => Of(t).id \in Erasing'
      BY <3>1 DEF Erasing, Of
    <3> QED
      BY <2>2, <2>3, <2>4, <3>2 DEF Leftover
  <2>6. CASE ~(provider = "codex" /\ At(t, "erase"))
    <3>1. ASSUME NEW f \in Files, <<Of(t).id, f>> \in files', strays' # strays \cup {Of(t).id}
          PROVE  Of(t).id \in strays'
      <4>1. provider = "codex" /\ At(t, "home")
        BY <1>17, <2>6, <3>1 DEF Erase, StateDirs, TypeOK, HalfErased
      <4>2. f = "tokens"
        BY <1>17, <3>1, <4>1 DEF Erase, StateDirs, Files
      <4>3. Of(t).id \in strays
        BY <2>3, <3>1, <4>1, <4>2 DEF HalfErased
      <4> QED
        BY <1>17, <3>1, <4>3 DEF Erase
    <3> QED
      BY <2>2, <2>3, <2>4, <3>1 DEF Leftover
  <2> QED
    BY <2>5, <2>6
<1>18. CASE Restart
  <2>1. \A n \in Erasing : n \in strays'
    BY <1>18 DEF Restart, Erasing
  <2> QED
    BY <1>18, <2>1 DEF Restart, Leftover
<1>19. CASE Tick \/ UNCHANGED vars
  <2>1. Erasing \subseteq Erasing'
    BY <1>2, <1>19 DEF Tick, vars
  <2> QED
    BY <1>1, <1>19, <2>1 DEF Tick, vars
<1> QED
  BY <1>5, <1>6, <1>7, <1>8, <1>10, <1>11, <1>12, <1>13, <1>14, <1>15, <1>16,
     <1>17, <1>18, <1>19 DEF Next

\* What is written there between the two deletions is a stray's: the pool has no
\* account of that id.
LEMMA HalfErasedStep ==
  ASSUME TypeOK, OneManager, Managers, InStep, HalfErased, [Next]_vars
  PROVE  HalfErased'
<1> USE DEF TypeOK, HalfErased, Goes, Ends, Idle, At, Of
<1>1. ASSUME files' \subseteq files, provider' = provider, strays \subseteq strays',
             \A t \in Tasks : tasks'[t].at = "home" => tasks'[t] = tasks[t]
      PROVE  HalfErased'
  BY <1>1
<1>2. ASSUME NEW a \in Accounts, NEW t \in Tasks, At(t, "home"), a.id = Of(t).id
      PROVE  a \notin pool
  <2>1. a.id \notin registry
    BY <1>2 DEF Managers
  <2>2. \A u \in Tasks : ~At(u, "close")
    BY <1>2 DEF OneManager, Managing
  <2> QED
    BY <2>1, <2>2 DEF InStep
<1>3. ASSUME NEW a \in Accounts, NEW names, Writes(a, names), provider' = provider,
             \A t \in Tasks : tasks'[t].at = "home" => tasks'[t] = tasks[t]
      PROVE  HalfErased'
  BY <1>2, <1>3 DEF Writes
<1>4. ASSUME NEW t \in Tasks, Add(t) \/ RequireNoUnsigned(t) \/ Register(t) \/ Open(t)
      PROVE  HalfErased'
  BY <1>1, <1>4 DEF Add, RequireNoUnsigned, Register, Open
<1>5. ASSUME NEW t \in Tasks, Unregister(t) \/ Close(t)
      PROVE  HalfErased'
  BY <1>1, <1>5 DEF Unregister, Close
<1>6. ASSUME NEW t \in Tasks, Erase(t)
      PROVE  HalfErased'
  <2>1. \A u \in Tasks : u # t => tasks'[u] = tasks[u] /\ ~At(u, "home")
    BY <1>6 DEF Erase, OneManager, Managing
  <2>2. CASE provider = "codex" /\ At(t, "erase")
    <3>1. tasks'[t] = [at |-> "home", account |-> Of(t), left |-> {}]
      BY <1>6, <2>2 DEF Erase
    <3>2. <<Of(t).id, "tokens">> \notin files' \/ Of(t).id \in strays'
      BY <1>6, <2>2 DEF Erase, StateDirs
    <3> QED
      BY <1>6, <2>1, <2>2, <3>1, <3>2 DEF Erase
  <2>3. CASE ~(provider = "codex" /\ At(t, "erase"))
    BY <1>6, <2>1, <2>3 DEF Erase
  <2> QED
    BY <2>2, <2>3
<1>7. ASSUME NEW t \in Tasks, NEW a \in pool, Remove(t, a)
      PROVE  HalfErased'
  BY <1>1, <1>7 DEF Remove
<1>8. ASSUME NEW t \in Tasks,
             \/ Forget(t) \/ Started(t) \/ FinishLogin(t) \/ SignedOut(t) \/ Revoked(t)
             \/ Renew(t) \/ Recorded(t) \/ HangUp(t) \/ Discovered(t)
      PROVE  HalfErased'
  BY <1>1, <1>8
     DEF Forget, Started, FinishLogin, SignedOut, Revoked, Renew, Recorded, HangUp, Discovered
<1>9. ASSUME NEW t \in Tasks, Models(t) \/ LiveCatalog(t)
      PROVE  HalfErased'
  BY <1>1, <1>9 DEF Models, LiveCatalog, Discover
<1>10. ASSUME NEW t \in Tasks, Finished(t)
       PROVE  HalfErased'
  <2>1. \A u \in Tasks : tasks'[u].at = "home" => tasks'[u] = tasks[u]
    BY <1>10 DEF Finished
  <2>2. \A n \in SlotIds : <<n, "tokens">> \in files' => <<n, "tokens">> \in files
    BY <1>10 DEF Finished
  <2>3. provider' = provider /\ strays \subseteq strays'
    BY <1>10 DEF Finished
  <2>4. \A u \in Tasks : At(u, "home") => Of(u).id \in SlotIds
    BY DEF Managers, HasAccount, Accounts
  <2> QED
    BY <2>1, <2>2, <2>3, <2>4
<1>11. ASSUME NEW t \in Tasks, Renewed(t)
       PROVE  HalfErased'
  <2>1. Of(t) \in Accounts
    BY <1>11 DEF Renewed, Managers, HasAccount
  <2> QED
    BY <1>3, <1>11, <2>1 DEF Renewed
<1>12. ASSUME NEW t \in Tasks, Attempted(t)
       PROVE  HalfErased'
  <2>1. Of(t) \in Accounts
    BY <1>12 DEF Attempted, Managers, HasAccount
  <2> QED
    BY <1>3, <1>12, <2>1 DEF Attempted
<1>13. ASSUME NEW t \in Tasks, NEW a \in pool,
              Start(t, a) \/ Logout(t, a) \/ Chat(t, a)
       PROVE  HalfErased'
  BY <1>1, <1>13 DEF Start, Logout, Chat
<1>14. ASSUME NEW a \in polls, Complete(a)
       PROVE  HalfErased'
  BY <1>1, <1>3, <1>14 DEF Complete
<1>15. ASSUME NEW a \in flushes, Flush(a)
       PROVE  HalfErased'
  BY <1>3, <1>15 DEF Flush
<1>16. CASE Tick \/ Restart \/ UNCHANGED vars
  BY <1>1, <1>16 DEF Tick, Restart, vars
<1> QED
  BY <1>4, <1>5, <1>6, <1>7, <1>8, <1>9, <1>10, <1>11, <1>12, <1>13, <1>14,
     <1>15, <1>16 DEF Next

\* Whoever discovers holds `refresh`, and only its answer makes the catalog fresh.
LEMMA DiscoveryStep ==
  ASSUME TypeOK, NoNeedlessDiscovery, [Next]_vars
  PROVE  NoNeedlessDiscovery'
<1> USE DEF TypeOK, NoNeedlessDiscovery, Discovering, FreshCatalog, Goes, Ends, Idle, At
<1>1. ASSUME catalog' = catalog \/ catalog' = Empty,
             \A t \in Tasks : tasks'[t].at = "discover" => At(t, "discover")
      PROVE  NoNeedlessDiscovery'
  BY <1>1 DEF Empty
<1>2. ASSUME NEW t \in Tasks,
             \/ Add(t) \/ RequireNoUnsigned(t) \/ Register(t) \/ Open(t)
             \/ Unregister(t) \/ Close(t) \/ Erase(t) \/ Forget(t)
      PROVE  NoNeedlessDiscovery'
  BY <1>1, <1>2 DEF Add, RequireNoUnsigned, Register, Open, Unregister, Close, Erase, Forget
<1>3. ASSUME NEW t \in Tasks,
             \/ Attempted(t) \/ Started(t) \/ FinishLogin(t) \/ Finished(t)
             \/ SignedOut(t) \/ Revoked(t) \/ Renew(t) \/ Renewed(t)
             \/ Recorded(t) \/ Models(t) \/ HangUp(t)
      PROVE  NoNeedlessDiscovery'
  BY <1>1, <1>3
     DEF Attempted, Started, FinishLogin, Finished, SignedOut, Revoked, Renew, Renewed,
         Recorded, Models, HangUp
<1>4. ASSUME NEW t \in Tasks, NEW a \in pool,
             Remove(t, a) \/ Start(t, a) \/ Logout(t, a) \/ Chat(t, a)
      PROVE  NoNeedlessDiscovery'
  BY <1>1, <1>4 DEF Remove, Start, Logout, Chat
<1>5. CASE \/ \E a \in polls : Complete(a)
           \/ \E a \in flushes : Flush(a)
           \/ Restart \/ UNCHANGED vars
  BY <1>1, <1>5 DEF Complete, Flush, Restart, vars
<1>6. ASSUME NEW t \in Tasks, LiveCatalog(t)
      PROVE  NoNeedlessDiscovery'
  <2>1. ~Discovering
    BY <1>6 DEF LiveCatalog
  <2>2. \A u \in Tasks : u # t => tasks'[u] = tasks[u]
    BY <1>6 DEF LiveCatalog, Discover
  <2>3. tasks'[t].at = "discover" => ~FreshCatalog /\ catalog' = catalog
    BY <1>6 DEF LiveCatalog, Discover
  <2> QED
    BY <2>1, <2>2, <2>3
<1>7. ASSUME NEW t \in Tasks, Discovered(t)
      PROVE  NoNeedlessDiscovery'
  BY <1>7 DEF Discovered
<1>8. CASE Tick
  BY <1>8 DEF Tick
<1> QED
  BY <1>2, <1>3, <1>4, <1>5, <1>6, <1>7, <1>8 DEF Next
-----------------------------------------------------------------------------
LEMMA Inductive == IInv /\ [Next]_vars => IInv'
BY TypeStep, OneManagerStep, ManagersStep, InStepStep, NotYetUsedStep, LeftoverStep,
   HalfErasedStep, DiscoveryStep DEF IInv

LEMMA Initially == Init => IInv
BY SlotsAssumption DEF Init, IInv, TypeOK, OneManager, Managers, InStep, NotYetUsed,
   OneNewSlot, Leftover, Erasing, HalfErased, NoNeedlessDiscovery, Discovering, FreshCatalog,
   Empty, Idle, At, Of, Stages, Managing, Awaiting, Leaving, HasAccount

LEMMA SlotsInvariant == Spec => []IInv
<1>1. Init => IInv
  BY Initially
<1>2. IInv /\ [Next]_vars => IInv'
  BY Inductive
<1> QED
  BY <1>1, <1>2, PTL DEF Spec

\* The slots, files, accounts and requests are what they are declared to be.
THEOREM SlotsTyped == Spec => []TypeOK
<1>1. IInv => TypeOK
  BY DEF IInv
<1> QED
  BY <1>1, SlotsInvariant, PTL

\* At most one slot waits for its first login, however adds, removals and logins
\* interleave and wherever the process is killed.
THEOREM OneNew == Spec => []OneNewSlot
<1>1. IInv => OneNewSlot
  BY DEF IInv, NotYetUsed
<1> QED
  BY <1>1, SlotsInvariant, PTL

\* The registry names the accounts of the pool while nobody manages slots, and a
\* free id has no files but those of a stray.
THEOREM SlotsInStep == Spec => []SlotsAgree
<1>1. IInv => SlotsAgree
  BY DEF IInv, SlotsAgree, InStep, Leftover, Erasing, TypeOK, Managed, Managing, At
<1> QED
  BY <1>1, SlotsInvariant, PTL

\* One discovery at a time, and none while the catalog can be served.
THEOREM OneDiscovery == Spec => []NoNeedlessDiscovery
<1>1. IInv => NoNeedlessDiscovery
  BY DEF IInv
<1> QED
  BY <1>1, SlotsInvariant, PTL
=============================================================================
