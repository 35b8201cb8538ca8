------------------------------- MODULE Slots -------------------------------
(***************************************************************************)
(* The slots of one provider and what a slot's life touches: the registry  *)
(* (slots.json), the directories its files are in, the accounts in the     *)
(* pool, the logins and ledgers that write into those directories, and the *)
(* model catalog that is read through the accounts (providers/pool.rs, the *)
(* two provider.rs).                                                       *)
(*                                                                         *)
(* Requests of the dashboard and of clients run at once.  A locked section *)
(* or a file operation is one step, and another request may come between   *)
(* any two.  `accounts_lock`, `refresh` and the mutex of each login are    *)
(* held from the step that takes them to the step that lets go, so who     *)
(* holds one is read off the requests.  What a login or a ledger does in   *)
(* detail is ClaudeLogin, CodexLogin and Ledger; here it is who writes     *)
(* into which directory, and when.                                         *)
(***************************************************************************)
EXTENDS Integers, FiniteSets

CONSTANTS
  Tasks,     \* requests at once
  MaxSlots,  \* bound: slot ids are 1..MaxSlots
  MaxLives,  \* bound: how many accounts of one id anything still holds
  MaxBehind, \* bound: how many polls and flushes are left behind at once
  Served     \* bound: the ids whose accounts clients' requests go to

ASSUME SlotsAssumption == MaxSlots \in Nat \ {0} /\ MaxLives \in Nat \ {0} /\ MaxBehind \in Nat

VARIABLES
  provider,  \* "claude" signs in by a pasted code, "codex" by a device code
  registry,  \* the ids in slots.json
  files,     \* what is in the directories of each id
  pool,      \* State.accounts: which account of which id
  tasks,     \* the requests in flight
  polls,     \* accounts whose device code is being polled
  flushes,   \* accounts whose ledger has a deferred flush due
  catalog,   \* the model catalog
  unused,    \* history: registered ids nobody has signed in to
  strays     \* history: ids whose directories were written to by an account
             \* the pool had let go, or left by a kill or by a disk that refused

vars == <<provider, registry, files, pool, tasks, polls, flushes,
          catalog, unused, strays>>

SlotIds == 1..MaxSlots
Files == {"login", "attempt", "tokens"}

\* An account is one object: a slot removed and added again has another one, which
\* is told from those of the same id that a request or a background task still has.
Accounts == [id : SlotIds, life : 1..MaxLives]
Nobody == [id |-> 0, life |-> 0]

\* Where a request is.  It waits at the names of Awaiting, where a client that
\* hangs up drops it; between the others it does not.
Managing == {"check", "open", "unregister", "close", "erase", "home"}
Leaving == {"close", "erase", "home"}
Awaiting == {"starting", "exchange", "logout", "revoke", "chat", "renew", "wait", "discover"}
Stages == Managing \cup Awaiting \cup {"idle", "forget"}

Idle == [at |-> "idle", account |-> Nobody, left |-> {}]

\* The catalog as far as who asks for it goes: it was fetched within
\* CATALOG_TTL_SECONDS; the last discovery failed and retry_at is ahead.  Which
\* models it lists, and that a failure keeps the last list, are left out.
Empty == [young |-> FALSE, resting |-> FALSE]

SignedIn(a) == <<a.id, "login">> \in files

\* What is in the directory a removal deletes at a stage: a Codex slot has another
\* one, in codex_home, for its login.
\* Altered: codex_home is forgotten.
StateDirsOneOf(at) ==
  IF at = "home" THEN {} ELSE IF provider = "claude" THEN Files ELSE {"tokens"}

StateDirs(at) ==
  IF at = "home" THEN {"login", "attempt"}
  ELSE IF provider = "claude" THEN Files ELSE {"tokens"}

TypeOK ==
  /\ provider \in {"claude", "codex"}
  /\ registry \subseteq SlotIds
  /\ files \subseteq SlotIds \X Files
  /\ pool \subseteq Accounts
  /\ tasks \in [Tasks -> [at : Stages, account : Accounts \cup {Nobody},
                          left : SUBSET Accounts]]
  /\ polls \subseteq Accounts
  /\ flushes \subseteq Accounts
  /\ catalog \in [young : BOOLEAN, resting : BOOLEAN]
  /\ unused \subseteq SlotIds
  /\ strays \subseteq SlotIds

Init ==
  /\ provider \in {"claude", "codex"}
  /\ registry = {}
  /\ files = {}
  /\ pool = {}
  /\ tasks = [t \in Tasks |-> Idle]
  /\ polls = {}
  /\ flushes = {}
  /\ catalog = Empty
  /\ unused = {}
  /\ strays = {}
-----------------------------------------------------------------------------
Goes(t, at, a, left) ==
  tasks' = [tasks EXCEPT ![t] = [at |-> at, account |-> a, left |-> left]]

Ends(t) == tasks' = [tasks EXCEPT ![t] = Idle]

At(t, at) == tasks[t].at = at
Of(t) == tasks[t].account

\* accounts_lock is held.
Managed == \E t \in Tasks : tasks[t].at \in Managing

\* The mutex of an account's login is held.
Busy(a) ==
  \E t \in Tasks : Of(t) = a /\ tasks[t].at \in {"exchange", "revoke", "renew"}

\* `refresh` is held.
Discovering == \E t \in Tasks : At(t, "discover")

LeavesBehind == Cardinality(polls) + Cardinality(flushes) < MaxBehind

\* An account writes files into the directories of its id.
Writes(a, names) ==
  /\ files' = files \cup {a.id} \X names
  /\ unused' = IF "login" \in names THEN unused \ {a.id} ELSE unused
  /\ strays' = IF a \in pool THEN strays ELSE strays \cup {a.id}
-----------------------------------------------------------------------------
FirstFree(n, used) == n \notin used /\ \A m \in 1..(n - 1) : m \in used

\* The lowest id that is free.
\* Altered: ids are counted from zero.
FreeFromZero(used) ==
  CHOOSE n \in 0..MaxSlots : n \notin used /\ \A m \in 0..(n - 1) : m \in used

Free(used) == CHOOSE n \in SlotIds : FirstFree(n, used)

Held == pool \cup polls \cup flushes \cup {Of(t) : t \in Tasks}

\* The accounts that can be told from the others of the lowest free id.
NewAccounts == [id : {Free(registry)}, life : 1..MaxLives] \ Held

\* The dashboard adds a slot: every account has to be signed in ...
\* Altered: the accounts are looked at without the lock.
AddUnlocked(t) ==
  /\ At(t, "idle")
  /\ \E n \in SlotIds : FirstFree(n, registry)
  /\ NewAccounts # {}
  /\ Goes(t, "check", Nobody, pool)
  /\ UNCHANGED <<provider, registry, files, pool, polls, flushes, catalog, unused, strays>>

Add(t) ==
  /\ At(t, "idle")
  /\ ~Managed
  /\ \E n \in SlotIds : FirstFree(n, registry)
  /\ NewAccounts # {}
  /\ Goes(t, "check", Nobody, pool)
  /\ UNCHANGED <<provider, registry, files, pool, polls, flushes, catalog, unused, strays>>

RequireNoUnsigned(t) ==
  /\ At(t, "check")
  /\ \E a \in tasks[t].left :
       IF SignedIn(a) THEN Goes(t, "check", Nobody, tasks[t].left \ {a})
                      ELSE Ends(t)
  /\ UNCHANGED <<provider, registry, files, pool, polls, flushes, catalog, unused, strays>>

\* ... then it is written into the registry, unless the disk refuses ...
Register(t) ==
  /\ At(t, "check")
  /\ tasks[t].left = {}
  /\ \/ \E a \in {CHOOSE a \in NewAccounts : TRUE} :
          /\ registry' = registry \cup {a.id}
          /\ unused' = IF SignedIn(a) THEN unused ELSE unused \cup {a.id}
          /\ Goes(t, "open", a, {})
     \/ /\ Ends(t)
        /\ UNCHANGED <<registry, unused>>
  /\ UNCHANGED <<provider, files, pool, polls, flushes, catalog, strays>>

\* ... and its account, which neither provider can fail to build, joins the pool.
Open(t) ==
  /\ At(t, "open")
  /\ pool' = pool \cup {Of(t)}
  /\ Goes(t, "forget", Nobody, {})
  /\ UNCHANGED <<provider, registry, files, polls, flushes, catalog, unused, strays>>

\* The dashboard removes a slot that is signed out: from the registry, unless the
\* disk refuses, from the pool, and its directories.
Remove(t, a) ==
  /\ At(t, "idle")
  /\ ~Managed
  /\ a \in pool
  /\ ~SignedIn(a)
  /\ Goes(t, "unregister", a, {})
  /\ UNCHANGED <<provider, registry, files, pool, polls, flushes, catalog, unused, strays>>

Unregister(t) ==
  /\ At(t, "unregister")
  /\ \/ /\ registry' = registry \ {Of(t).id}
        /\ unused' = unused \ {Of(t).id}
        /\ Goes(t, "close", Of(t), {})
     \/ /\ Ends(t)
        /\ UNCHANGED <<registry, unused>>
  /\ UNCHANGED <<provider, files, pool, polls, flushes, catalog, strays>>

Close(t) ==
  /\ At(t, "close")
  /\ pool' = pool \ {Of(t)}
  /\ Goes(t, "erase", Of(t), {})
  /\ UNCHANGED <<provider, registry, files, polls, flushes, catalog, unused, strays>>

\* A directory goes, unless the disk refuses: nobody looks.
Erase(t) ==
  /\ tasks[t].at \in {"erase", "home"}
  /\ \/ /\ files' = files \ {Of(t).id} \X StateDirs(tasks[t].at)
        /\ strays' = IF \A f \in Files : <<Of(t).id, f>> \notin files' THEN strays \ {Of(t).id}
                                                                    ELSE strays
     \/ /\ strays' = strays \cup {Of(t).id}
        /\ UNCHANGED files
  /\ IF provider = "codex" /\ At(t, "erase") THEN Goes(t, "home", Of(t), {})
                                             ELSE Goes(t, "forget", Nobody, {})
  /\ UNCHANGED <<provider, registry, pool, polls, flushes, catalog, unused>>

\* What a change of slots or logins ends with: the catalog is dropped.
Forget(t) ==
  /\ At(t, "forget")
  /\ catalog' = Empty
  /\ Ends(t)
  /\ UNCHANGED <<provider, registry, files, pool, polls, flushes, unused, strays>>
-----------------------------------------------------------------------------
\* A login is started or, with Claude, completed: the account is looked up, which
\* may have left the pool when its login's mutex is free or Codex has answered.
Start(t, a) ==
  /\ At(t, "idle")
  /\ a \in pool
  /\ Goes(t, "starting", a, {})
  /\ UNCHANGED <<provider, registry, files, pool, polls, flushes, catalog, unused, strays>>

\* Claude keeps the attempt in a file.
Attempted(t) ==
  /\ At(t, "starting")
  /\ provider = "claude"
  /\ ~Busy(Of(t))
  /\ Writes(Of(t), {"attempt"})
  /\ Ends(t)
  /\ UNCHANGED <<provider, registry, pool, polls, flushes, catalog>>

\* Codex leaves a poll behind, which replaces the poll of an earlier code.
Started(t) ==
  /\ At(t, "starting")
  /\ provider = "codex"
  /\ LeavesBehind
  /\ polls' = polls \cup {Of(t)}
  /\ Ends(t)
  /\ UNCHANGED <<provider, registry, files, pool, flushes, catalog, unused, strays>>

\* The code was approved, and the poll stores the login; or the poll gave up.
Complete(a) ==
  /\ a \in polls
  /\ polls' = polls \ {a}
  /\ \/ ~Busy(a) /\ Writes(a, {"login"})
     \/ UNCHANGED <<files, unused, strays>>
  /\ UNCHANGED <<provider, registry, pool, tasks, flushes, catalog>>

\* A pasted code is exchanged and stored.  An account that has left the pool may
\* have its attempt in memory only.
FinishLogin(t) ==
  /\ At(t, "starting")
  /\ provider = "claude"
  /\ ~Busy(Of(t))
  /\ <<Of(t).id, "attempt">> \in files \/ Of(t) \notin pool
  /\ Goes(t, "exchange", Of(t), {})
  /\ UNCHANGED <<provider, registry, files, pool, polls, flushes, catalog, unused, strays>>

Finished(t) ==
  /\ At(t, "exchange")
  /\ \E a \in {Of(t)} :
       /\ files' = (files \ {<<a.id, "attempt">>}) \cup {<<a.id, "login">>}
       /\ unused' = unused \ {a.id}
       /\ strays' = IF a \in pool THEN strays ELSE strays \cup {a.id}
       /\ Goes(t, "forget", Nobody, {})
  /\ UNCHANGED <<provider, registry, pool, polls, flushes, catalog>>

\* A sign-out aborts the poll and waits for the mutex ...
Logout(t, a) ==
  /\ At(t, "idle")
  /\ a \in pool
  /\ polls' = polls \ {a}
  /\ Goes(t, "logout", a, {})
  /\ UNCHANGED <<provider, registry, files, pool, flushes, catalog, unused, strays>>

\* ... and removes the login; Codex then revokes it.
SignedOut(t) ==
  /\ At(t, "logout")
  /\ ~Busy(Of(t))
  /\ files' = files \ {Of(t).id} \X {"login", "attempt"}
  /\ IF provider = "codex" /\ SignedIn(Of(t)) THEN Goes(t, "revoke", Of(t), {})
                                              ELSE Goes(t, "forget", Nobody, {})
  /\ UNCHANGED <<provider, registry, pool, polls, flushes, catalog, unused, strays>>

Revoked(t) ==
  /\ At(t, "revoke")
  /\ Goes(t, "forget", Nobody, {})
  /\ UNCHANGED <<provider, registry, files, pool, polls, flushes, catalog, unused, strays>>
-----------------------------------------------------------------------------
\* A client's request keeps its account to the end, in the pool or not; it may
\* refresh the login on the way, and its usage leaves a flush behind.
Chat(t, a) ==
  /\ At(t, "idle")
  /\ a \in pool
  /\ a.id \in Served
  /\ SignedIn(a)
  /\ Goes(t, "chat", a, {})
  /\ UNCHANGED <<provider, registry, files, pool, polls, flushes, catalog, unused, strays>>

Renew(t) ==
  /\ At(t, "chat")
  /\ ~Busy(Of(t))
  /\ SignedIn(Of(t))
  /\ Goes(t, "renew", Of(t), {})
  /\ UNCHANGED <<provider, registry, files, pool, polls, flushes, catalog, unused, strays>>

Renewed(t) ==
  /\ At(t, "renew")
  /\ Writes(Of(t), {"login"})
  /\ Goes(t, "chat", Of(t), {})
  /\ UNCHANGED <<provider, registry, pool, polls, flushes, catalog>>

Recorded(t) ==
  /\ At(t, "chat")
  /\ LeavesBehind
  /\ flushes' = flushes \cup {Of(t)}
  /\ Ends(t)
  /\ UNCHANGED <<provider, registry, files, pool, polls, catalog, unused, strays>>

Flush(a) ==
  /\ a \in flushes
  /\ flushes' = flushes \ {a}
  /\ Writes(a, {"tokens"})
  /\ UNCHANGED <<provider, registry, pool, tasks, polls, catalog>>
-----------------------------------------------------------------------------
\* The catalog may be served as it is: it is young, or the last discovery failed
\* a moment ago.
FreshCatalog == catalog.young \/ catalog.resting

\* Claude has no models while nobody is signed in.
Asks == provider = "codex" \/ \E a \in pool : SignedIn(a)

\* The models are wanted, afresh or not; a fresh catalog is served at once.
Models(t) ==
  /\ At(t, "idle")
  /\ \/ Asks /\ ~FreshCatalog /\ UNCHANGED catalog
     \/ catalog' = Empty
  /\ IF Asks THEN Goes(t, "wait", Nobody, {}) ELSE UNCHANGED tasks
  /\ UNCHANGED <<provider, registry, files, pool, polls, flushes, unused, strays>>

\* The discovery is sent through an account that is signed in; with none it fails
\* at once.
Discover(t) ==
  IF \E a \in pool : SignedIn(a)
  THEN Goes(t, "discover", Nobody, {}) /\ UNCHANGED catalog
  ELSE Ends(t) /\ catalog' = [catalog EXCEPT !.resting = TRUE]

\* One caller refreshes; those that waited for it find its answer.
\* Altered: whoever gets the lock refreshes, without looking again.
LiveCatalogAnyway(t) ==
  /\ At(t, "wait")
  /\ ~Discovering
  /\ Discover(t)
  /\ UNCHANGED <<provider, registry, files, pool, polls, flushes, unused, strays>>

LiveCatalog(t) ==
  /\ At(t, "wait")
  /\ ~Discovering
  /\ IF FreshCatalog THEN Ends(t) /\ UNCHANGED catalog ELSE Discover(t)
  /\ UNCHANGED <<provider, registry, files, pool, polls, flushes, unused, strays>>

\* The discovery answers, or fails and is not repeated for a while.
Discovered(t) ==
  /\ At(t, "discover")
  /\ \/ catalog' = [young |-> TRUE, resting |-> FALSE]
     \/ catalog' = [catalog EXCEPT !.resting = TRUE]
  /\ Ends(t)
  /\ UNCHANGED <<provider, registry, files, pool, polls, flushes, unused, strays>>

\* CATALOG_TTL_SECONDS or CATALOG_RETRY_SECONDS have passed.
Tick ==
  /\ \/ catalog.young /\ catalog' = [catalog EXCEPT !.young = FALSE]
     \/ catalog.resting /\ catalog' = [catalog EXCEPT !.resting = FALSE]
  /\ UNCHANGED <<provider, registry, files, pool, tasks, polls, flushes, unused, strays>>
-----------------------------------------------------------------------------
\* The client hangs up, or what the request waits for fails.
HangUp(t) ==
  /\ tasks[t].at \in Awaiting
  /\ Ends(t)
  /\ UNCHANGED <<provider, registry, files, pool, polls, flushes, catalog, unused, strays>>

\* The process is killed and started again: Pooled::new reads the registry.
Restart ==
  /\ pool' = {[id |-> n, life |-> 1] : n \in registry}
  /\ strays' = strays \cup {Of(t).id : t \in {u \in Tasks : tasks[u].at \in Leaving}}
  /\ tasks' = [t \in Tasks |-> Idle]
  /\ polls' = {}
  /\ flushes' = {}
  /\ catalog' = Empty
  /\ UNCHANGED <<provider, registry, files, unused>>

Next ==
  \/ \E t \in Tasks :
       \/ Add(t) \/ RequireNoUnsigned(t) \/ Register(t) \/ Open(t)
       \/ Unregister(t) \/ Close(t) \/ Erase(t) \/ Forget(t)
       \/ Attempted(t) \/ Started(t) \/ FinishLogin(t) \/ Finished(t)
       \/ SignedOut(t) \/ Revoked(t)
       \/ Renew(t) \/ Renewed(t) \/ Recorded(t)
       \/ Models(t) \/ LiveCatalog(t) \/ Discovered(t) \/ HangUp(t)
       \/ \E a \in pool :
            Remove(t, a) \/ Start(t, a) \/ Logout(t, a) \/ Chat(t, a)
  \/ \E a \in polls : Complete(a)
  \/ \E a \in flushes : Flush(a)
  \/ Tick
  \/ Restart

Spec == Init /\ [][Next]_vars
-----------------------------------------------------------------------------
\* However adds, removals, logins and sign-outs interleave, and wherever the
\* process is killed, at most one slot waits for its first login: a second add is
\* refused (require_no_unsigned).  Slots that were signed out are not counted: any
\* number of them may wait (docs/architecture.md:171 says one).
OneNewSlot == \A m, n \in unused : m = n

\* While nobody manages slots, the pool has one account for each registered id and
\* no other.  What is found in the directories of an id that is not registered was
\* written there by an account the pool had let go (a device poll, a paste, a
\* refresh or a flush that outlived its slot), or left there by a kill or by a disk
\* that refused to delete it.
SlotsAgree ==
  /\ \A a, b \in pool : a.id = b.id => a = b
  /\ ~Managed => registry = {a.id : a \in pool}
  /\ \A n \in SlotIds \ registry, f \in Files :
       \/ <<n, f>> \notin files
       \/ n \in strays
       \/ \E t \in Tasks : Of(t).id = n /\ tasks[t].at \in Leaving

\* Nobody asks upstream for the models while the catalog could be served, and
\* never two at once: a caller that waited for another's discovery takes its
\* answer, even when that was a failure.
NoNeedlessDiscovery ==
  /\ Discovering => ~FreshCatalog
  /\ \A t, u \in Tasks : At(t, "discover") /\ At(u, "discover") => t = u
=============================================================================
