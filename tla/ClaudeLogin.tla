----------------------------- MODULE ClaudeLogin -----------------------------
(***************************************************************************)
(* providers/claude/auth.rs: one slot's Claude login, its refresh token,   *)
(* which the token endpoint accepts once, and the flows that use it: the   *)
(* requests that need an access token (upstream.rs `open` and `get`), the  *)
(* dashboard's login, logout and status calls.  One tokio mutex is held    *)
(* over the awaits of a refresh, of a code exchange and of a profile read; *)
(* any call may be dropped at an await, because its client hung up.        *)
(*                                                                         *)
(* A pair of tokens is a number, in the order of issue.  Every grant has   *)
(* inference scope, and every pair a refresh token.  Time is not modelled: *)
(* the token in hand may have more than two minutes left, fewer or none    *)
(* whenever a call looks.  The disk may refuse a write; it does not refuse *)
(* to unlink.                                                              *)
(***************************************************************************)
EXTENDS Integers, FiniteSets

CONSTANTS
  Tasks,       \* calls in flight at once
  NoTask,      \* nobody holds the lock
  MaxPairs,    \* bound: pairs the endpoint issues
  MaxAttempts  \* bound: logins started

ASSUME LoginAssumption ==
  /\ NoTask \notin Tasks
  /\ MaxPairs \in Nat
  /\ MaxAttempts \in Nat

VARIABLES
  login,     \* what JsonFile::read returns
  disk,      \* what the credential file holds, and a restart reads
  memory,    \* the attempt in Login { verifier, state }, 0 for none
  filed,     \* the attempt in the .login file
  attempts,  \* logins started
  probed,    \* profile_attempted
  lock,      \* who holds `lock`
  task,      \* the locals of each call
  issued,    \* the endpoint: pairs issued
  valid,     \* the endpoint: pairs whose refresh token it accepts
  spent      \* the endpoint: attempts whose code has been exchanged

fileVars == <<login, disk>>
attemptVars == <<memory, filed, attempts>>
endpointVars == <<issued, valid, spent>>
vars == <<fileVars, attemptVars, probed, lock, task, endpointVars>>

Pairs == 1..MaxPairs
Attempts == 1..MaxAttempts

\* The credential object: its pair, and whether it names email and plan.
NoLogin == [pair |-> 0, profile |-> FALSE]
Login == [pair : Pairs, profile : BOOLEAN] \cup {NoLogin}

\* A call waits for the lock ("asking", "pasting"), awaits an answer while it
\* holds it (Holding), or awaits the upstream with a token ("calling").
Holding == {"refreshing", "profiling", "exchanging", "welcoming", "hydrating"}
Pcs == {"idle", "asking", "calling", "pasting"} \cup Holding

Task ==
  [ pc      : Pcs,
    force   : BOOLEAN,         \* force_refresh: the upstream answered 401
    base    : Login,           \* the credentials read under the lock
    got     : 0..MaxPairs,     \* the pair the endpoint has just issued
    attempt : 0..MaxAttempts ] \* the attempt the pasted code belongs to

Locals(pc, force, base, got, attempt) ==
  [pc |-> pc, force |-> force, base |-> base, got |-> got, attempt |-> attempt]

\* What a call keeps over each of its awaits.
Idle == Locals("idle", FALSE, NoLogin, 0, 0)
Asking(force) == Locals("asking", force, NoLogin, 0, 0)
Calling(force) == Locals("calling", force, NoLogin, 0, 0)
Refreshing(force, base) == Locals("refreshing", force, base, 0, 0)
Profiling(force, got) == Locals("profiling", force, NoLogin, got, 0)
Hydrating(base) == Locals("hydrating", FALSE, base, 0, 0)
Pasting(attempt) == Locals("pasting", FALSE, NoLogin, 0, attempt)
Exchanging(attempt) == Locals("exchanging", FALSE, NoLogin, 0, attempt)
Welcoming(got, attempt) == Locals("welcoming", FALSE, NoLogin, got, attempt)

TypeOK ==
  /\ login \in Login
  /\ disk \in Login
  /\ memory \in 0..MaxAttempts
  /\ filed \in 0..MaxAttempts
  /\ attempts \in 0..MaxAttempts
  /\ probed \in BOOLEAN
  /\ lock \in Tasks \cup {NoTask}
  /\ task \in [Tasks -> Task]
  /\ issued \in 0..MaxPairs
  /\ valid \subseteq Pairs
  /\ spent \subseteq Attempts

\* A new slot, or one with a stored login.
Init ==
  /\ \/ login = NoLogin /\ issued = 0 /\ valid = {}
     \/ /\ MaxPairs > 0
        /\ \E profile \in BOOLEAN : login = [pair |-> 1, profile |-> profile]
        /\ issued = 1
        /\ valid = {1}
  /\ disk = login
  /\ memory = 0
  /\ filed = 0
  /\ attempts = 0
  /\ probed = FALSE
  /\ lock = NoTask
  /\ task = [t \in Tasks |-> Idle]
  /\ spent = {}

-----------------------------------------------------------------------------
(* Steps the flows are made of.                                            *)

Becomes(t, locals) == task' = [task EXCEPT ![t] = locals]

Stop(t) == Becomes(t, Idle)

\* access_token returns: the request is sent upstream.
Call(t) == Becomes(t, Calling(task[t].force))

\* JsonFile::write: kept in memory even if the disk refuses it.
Store(new) ==
  /\ login' = new
  /\ disk' \in {disk, new}

\* The endpoint answers a refresh token with a new pair, once.
Rotates(pair) ==
  /\ pair \in valid
  /\ issued < MaxPairs
  /\ issued' = issued + 1
  /\ valid' = (valid \ {pair}) \cup {issued + 1}

\* A request whose answer is not heard: the endpoint acted on it or did not.
RefreshUnheard(pair) ==
  /\ UNCHANGED spent
  /\ Rotates(pair) \/ UNCHANGED <<issued, valid>>

ExchangeUnheard(attempt) ==
  /\ UNCHANGED <<issued, valid>>
  /\ spent' \in {spent, spent \cup {attempt}}

-----------------------------------------------------------------------------
(* A request to the upstream: `open`, with access_token.                   *)

Ask(t) ==
  /\ task[t].pc = "idle"
  /\ Becomes(t, Asking(FALSE))
  /\ UNCHANGED <<fileVars, attemptVars, probed, lock, endpointVars>>

NotSignedIn(t) ==
  /\ task[t].pc = "asking"
  /\ lock = NoTask
  /\ login.pair = 0
  /\ Stop(t)
  /\ UNCHANGED <<fileVars, attemptVars, probed, lock, endpointVars>>

\* The token in the file will do.
TakeToken(t) ==
  /\ task[t].pc = "asking"
  /\ lock = NoTask
  /\ login.pair # 0
  /\ ~task[t].force
  /\ Call(t)
  /\ UNCHANGED <<fileVars, attemptVars, probed, lock, endpointVars>>

\* Altered: the lock is given up for the await.
StartRefreshUnlocked(t) ==
  /\ task[t].pc = "asking"
  /\ lock = NoTask
  /\ login.pair # 0
  /\ Becomes(t, Refreshing(task[t].force, login))
  /\ UNCHANGED <<fileVars, attemptVars, probed, lock, endpointVars>>

\* It has less than two minutes left, or the upstream refused it: the refresh
\* token is sent.
StartRefresh(t) ==
  /\ task[t].pc = "asking"
  /\ lock = NoTask
  /\ login.pair # 0
  /\ lock' = t
  /\ Becomes(t, Refreshing(task[t].force, login))
  /\ UNCHANGED <<fileVars, attemptVars, probed, endpointVars>>

\* The answer is merged into the credentials and stored, at once if they name
\* their owner, and otherwise after a profile read.
Refreshed(t) ==
  /\ task[t].pc = "refreshing"
  /\ Rotates(task[t].base.pair)
  /\ IF task[t].base.profile
     THEN /\ Store([pair |-> issued + 1, profile |-> TRUE])
          /\ lock' = NoTask
          /\ Call(t)
          /\ UNCHANGED probed
     ELSE /\ probed' = TRUE
          /\ Becomes(t, Profiling(task[t].force, issued + 1))
          /\ UNCHANGED <<fileVars, lock>>
  /\ UNCHANGED <<attemptVars, spent>>

\* Altered: a failed profile read drops what it was to complete.
ProfiledOnly(t) ==
  /\ task[t].pc = "profiling"
  /\ \/ Store([pair |-> task[t].got, profile |-> TRUE])
     \/ UNCHANGED fileVars
  /\ lock' = NoTask
  /\ Call(t)
  /\ UNCHANGED <<attemptVars, probed, endpointVars>>

\* with_profile returns, with the profile or without.
Profiled(t) ==
  /\ task[t].pc = "profiling"
  /\ \E profile \in BOOLEAN : Store([pair |-> task[t].got, profile |-> profile])
  /\ lock' = NoTask
  /\ Call(t)
  /\ UNCHANGED <<attemptVars, probed, endpointVars>>

\* The grant is rejected: the call ends, and its account with it.
Rejected(t) ==
  /\ task[t].pc = "refreshing"
  /\ task[t].base.pair \notin valid
  /\ lock' = NoTask
  /\ Stop(t)
  /\ UNCHANGED <<fileVars, attemptVars, probed, endpointVars>>

\* The endpoint is busy or unreachable, or timed out: the token in hand is
\* used for its last minutes, if it has them and the upstream did not refuse it.
RefreshFails(t) ==
  /\ task[t].pc = "refreshing"
  /\ RefreshUnheard(task[t].base.pair)
  /\ lock' = NoTask
  /\ \/ ~task[t].force /\ Call(t)
     \/ Stop(t)
  /\ UNCHANGED <<fileVars, attemptVars, probed>>

\* The upstream takes the request, or refuses it for another reason.
Answered(t) ==
  /\ task[t].pc = "calling"
  /\ Stop(t)
  /\ UNCHANGED <<fileVars, attemptVars, probed, lock, endpointVars>>

\* Altered: the request is sent again without a refresh.
UnauthorizedAgain(t) ==
  /\ task[t].pc = "calling"
  /\ IF task[t].force
     THEN Stop(t)
     ELSE Becomes(t, Asking(FALSE))
  /\ UNCHANGED <<fileVars, attemptVars, probed, lock, endpointVars>>

\* It answers 401: the token is refreshed once and the request sent again.
Unauthorized(t) ==
  /\ task[t].pc = "calling"
  /\ IF task[t].force
     THEN Stop(t)
     ELSE Becomes(t, Asking(TRUE))
  /\ UNCHANGED <<fileVars, attemptVars, probed, lock, endpointVars>>

-----------------------------------------------------------------------------
(* The dashboard.                                                          *)

\* Altered: the file of an earlier attempt is left as it is.
StartKeepsFile ==
  /\ lock = NoTask
  /\ attempts < MaxAttempts
  /\ attempts' = attempts + 1
  /\ memory' = attempts + 1
  /\ filed' = IF filed = 0 THEN attempts + 1 ELSE filed
  /\ UNCHANGED <<fileVars, probed, lock, task, endpointVars>>

\* `start`: a new attempt replaces the one before.  (If its file cannot be
\* written nothing changes.)
Start ==
  /\ lock = NoTask
  /\ attempts < MaxAttempts
  /\ attempts' = attempts + 1
  /\ memory' = attempts + 1
  /\ filed' = attempts + 1
  /\ UNCHANGED <<fileVars, probed, lock, task, endpointVars>>

\* The user pastes the code of an attempt.
Paste(t, attempt) ==
  /\ task[t].pc = "idle"
  /\ attempt <= attempts
  /\ Becomes(t, Pasting(attempt))
  /\ UNCHANGED <<fileVars, attemptVars, probed, lock, endpointVars>>

\* The attempt `finish` completes: the file's, else the one in memory.
Expected == IF filed # 0 THEN filed ELSE memory

\* No login is under way, or the pasted text carries another one's state.
PasteRefused(t) ==
  /\ task[t].pc = "pasting"
  /\ lock = NoTask
  /\ task[t].attempt # Expected
  /\ Stop(t)
  /\ UNCHANGED <<fileVars, attemptVars, probed, lock, endpointVars>>

\* The state is the expected one's, or left out of what was pasted: the code is
\* sent with the expected attempt's verifier.
StartExchange(t) ==
  /\ task[t].pc = "pasting"
  /\ lock = NoTask
  /\ Expected # 0
  /\ lock' = t
  /\ Becomes(t, Exchanging(task[t].attempt))
  /\ UNCHANGED <<fileVars, attemptVars, probed, endpointVars>>

\* The endpoint issues a new grant's pair for a code it sees for the first time
\* and with the verifier it belongs to.  The answer names no email, so a
\* profile read follows.
Exchanged(t) ==
  /\ task[t].pc = "exchanging"
  /\ task[t].attempt = Expected
  /\ task[t].attempt \notin spent
  /\ issued < MaxPairs
  /\ issued' = issued + 1
  /\ valid' = valid \cup {issued + 1}
  /\ spent' = spent \cup {task[t].attempt}
  /\ probed' = TRUE
  /\ Becomes(t, Welcoming(issued + 1, task[t].attempt))
  /\ UNCHANGED <<fileVars, attemptVars, lock>>

Welcomed(t) ==
  /\ task[t].pc = "welcoming"
  /\ \E profile \in BOOLEAN : Store([pair |-> task[t].got, profile |-> profile])
  /\ memory' = 0
  /\ filed' = 0
  /\ lock' = NoTask
  /\ Stop(t)
  /\ UNCHANGED <<attempts, probed, endpointVars>>

\* It refuses the code, or is not heard; the attempt stays.
ExchangeFails(t) ==
  /\ task[t].pc = "exchanging"
  /\ ExchangeUnheard(task[t].attempt)
  /\ lock' = NoTask
  /\ Stop(t)
  /\ UNCHANGED <<fileVars, attemptVars, probed>>

\* Altered: the attempt's file stays.
SignOutKeepsAttempt ==
  /\ lock = NoTask
  /\ memory' = 0
  /\ login' = NoLogin
  /\ disk' = NoLogin
  /\ UNCHANGED <<filed, attempts, probed, lock, task, endpointVars>>

\* Altered: the credentials keep their owner's name.
SignOutKeepsOwner ==
  /\ lock = NoTask
  /\ memory' = 0
  /\ filed' = 0
  /\ login' = [login EXCEPT !.pair = 0]
  /\ disk' = login'
  /\ UNCHANGED <<attempts, probed, lock, task, endpointVars>>

SignOut ==
  /\ lock = NoTask
  /\ memory' = 0
  /\ filed' = 0
  /\ login' = NoLogin
  /\ disk' = NoLogin
  /\ UNCHANGED <<attempts, probed, lock, task, endpointVars>>

\* hydrate_profile: the status page completes a login without its owner, once.
Hydrate(t) ==
  /\ task[t].pc = "idle"
  /\ lock = NoTask
  /\ login.pair # 0
  /\ ~login.profile
  /\ ~probed
  /\ lock' = t
  /\ probed' = TRUE
  /\ Becomes(t, Hydrating(login))
  /\ UNCHANGED <<fileVars, attemptVars, endpointVars>>

Hydrated(t) ==
  /\ task[t].pc = "hydrating"
  /\ \/ Store([pair |-> task[t].base.pair, profile |-> TRUE])
     \/ UNCHANGED fileVars
  /\ lock' = NoTask
  /\ Stop(t)
  /\ UNCHANGED <<attemptVars, probed, endpointVars>>

-----------------------------------------------------------------------------
(* Clients and the process.                                                *)

\* The client hangs up: the call is dropped where it awaits, and the lock with
\* it.  What it had sent may still be acted on.
HangUp(t) ==
  /\ task[t].pc # "idle"
  /\ Stop(t)
  /\ lock' = IF lock = t THEN NoTask ELSE lock
  /\ CASE task[t].pc = "refreshing" -> RefreshUnheard(task[t].base.pair)
       [] task[t].pc = "exchanging" -> ExchangeUnheard(task[t].attempt)
       [] OTHER -> UNCHANGED endpointVars
  /\ UNCHANGED <<fileVars, attemptVars, probed>>

\* The process stops and starts again: the files are what is left.
Restart ==
  /\ login' = disk
  /\ memory' = 0
  /\ probed' = FALSE
  /\ lock' = NoTask
  /\ task' = [t \in Tasks |-> Idle]
  /\ \/ UNCHANGED endpointVars
     \/ \E t \in Tasks :
          /\ task[t].pc = "refreshing"
          /\ Rotates(task[t].base.pair)
          /\ UNCHANGED spent
  /\ UNCHANGED <<disk, filed, attempts>>

-----------------------------------------------------------------------------

\* Taking the lock, which tokio hands out in the order it was asked for.
Acquire(t) ==
  NotSignedIn(t) \/ TakeToken(t) \/ StartRefresh(t) \/ PasteRefused(t) \/ StartExchange(t)

\* An await that comes back.
Resume(t) ==
  \/ Refreshed(t) \/ Profiled(t) \/ Rejected(t) \/ RefreshFails(t)
  \/ Answered(t) \/ Unauthorized(t)
  \/ Exchanged(t) \/ Welcomed(t) \/ ExchangeFails(t) \/ Hydrated(t)

Arrive(t) ==
  \/ Ask(t)
  \/ Hydrate(t)
  \/ \E attempt \in Attempts : Paste(t, attempt)

Next ==
  \/ \E t \in Tasks : Arrive(t) \/ Acquire(t) \/ Resume(t) \/ HangUp(t)
  \/ Start \/ SignOut \/ Restart

Spec == Init /\ [][Next]_vars
=============================================================================
