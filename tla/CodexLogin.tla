----------------------------- MODULE CodexLogin -----------------------------
(***************************************************************************)
(* providers/codex/auth.rs: one slot's ChatGPT login and its usage bars.   *)
(* A login is made by device code: `start` shows the user a code and       *)
(* spawns a task that polls until the user has approved it, exchanges the  *)
(* code and stores the tokens.  Requests (upstream.rs `open`) and the      *)
(* reader of the bars (`backend`) need an access token and refresh it when *)
(* it runs out or is refused; the refresh token is accepted once.          *)
(*                                                                         *)
(* The mutex `refreshing` is held over a refresh, while a new login is     *)
(* stored and during a sign-out up to the end of the revocation; who holds *)
(* it can be told from where each flow is.  A step is what lies between    *)
(* two awaits or two locks.                                                *)
(*                                                                         *)
(* Every answer of the token endpoint names a new pair, which is a number  *)
(* in the order of issue.  Time is not modelled: a token may be stale, and *)
(* a code expire, whenever someone looks.  The disk may refuse a write but *)
(* does not refuse to unlink; no other program writes the file.            *)
(***************************************************************************)
EXTENDS Integers, UsageBars

CONSTANTS
  Requests,  \* requests to the upstream in flight at once
  Reader,    \* the task that reads the bars
  MaxPairs   \* bound: pairs the endpoint issues

ASSUME CodexAssumption ==
  /\ Reader \notin Requests
  /\ NoGrant \notin Grants
  /\ MaxPairs \in Nat

\* A device code stands for the grant its approval gives.
Codes == Grants

VARIABLES
  login,    \* what JsonFile::read returns
  disk,     \* what auth.json holds, and a restart reads
  task,     \* the locals of each request and of the reader
  start,    \* where the call of `start` for each code is
  poll,     \* the task of each code, `complete`
  polling,  \* the code whose task `polling` can abort
  out,      \* the call of sign_out
  issued,   \* the endpoint: pairs issued
  valid     \* the endpoint: pairs whose refresh token it accepts

fileVars == <<login, disk>>
flowVars == <<start, poll, polling>>
endpointVars == <<issued, valid>>
vars == <<fileVars, task, flowVars, out, endpointVars, barsVars>>

Callers == Requests \cup {Reader}
Pairs == 1..MaxPairs

Tokens(grant, pair) == [grant |-> grant, pair |-> pair]
NoLogin == Tokens(NoGrant, 0)
Login == [grant : Grants, pair : Pairs] \cup {NoLogin}

\* A caller waits for the mutex ("asking"), holds it ("refreshing"), awaits the
\* upstream with a token ("calling"); the reader then has the bars or an error
\* ("landing").
Task ==
  [ pc    : {"idle", "asking", "refreshing", "calling", "landing"},
    force : BOOLEAN,   \* the upstream has answered 401 once
    base  : Login ]    \* the login the token belongs to, or the bars

Locals(pc, force, base) == [pc |-> pc, force |-> force, base |-> base]
Idle == Locals("idle", FALSE, NoLogin)
Asking(force) == Locals("asking", force, NoLogin)
Refreshing(force, base) == Locals("refreshing", force, base)
Calling(force, base) == Locals("calling", force, base)
Landing(base) == Locals("landing", FALSE, base)

\* A code's task awaits ("polling", "exchanging", "queued" for the mutex), runs
\* with the tokens in hand ("answered") or holds the mutex ("storing",
\* "clearing").
Awaiting == {"polling", "exchanging", "queued"}
Poll ==
  [ pc      : {"none", "answered", "storing", "clearing", "ended"} \cup Awaiting,
    pair    : 0..MaxPairs,
    aborted : BOOLEAN ]   \* aborted while it was running

Polling(pc, pair, aborted) == [pc |-> pc, pair |-> pair, aborted |-> aborted]
Ended == Polling("ended", 0, FALSE)

Out == [pc : {"idle", "waiting", "clearing", "revoking"}, pair : 0..MaxPairs]
SigningOut(pc, pair) == [pc |-> pc, pair |-> pair]

\* Nobody holds the mutex.
Free ==
  /\ \A c \in Callers : task[c].pc # "refreshing"
  /\ \A a \in Codes : poll[a].pc \notin {"storing", "clearing"}
  /\ out.pc \notin {"clearing", "revoking"}

TypeOK ==
  /\ BarsTypeOK
  /\ login \in Login
  /\ disk \in Login
  /\ task \in [Callers -> Task]
  /\ start \in [Codes -> {"none", "asking", "spawned", "done"}]
  /\ poll \in [Codes -> Poll]
  /\ polling \in Codes \cup {NoGrant}
  /\ out \in Out
  /\ issued \in 0..MaxPairs
  /\ valid \subseteq Pairs

\* A new slot, or one with a stored login.
Init ==
  /\ BarsInit
  /\ \/ /\ login = NoLogin /\ issued = 0 /\ valid = {}
        /\ start = [a \in Codes |-> "none"]
     \/ /\ MaxPairs > 0
        /\ \E g \in Grants :
             /\ login = Tokens(g, 1)
             /\ start = [a \in Codes |-> IF a = g THEN "done" ELSE "none"]
        /\ issued = 1
        /\ valid = {1}
  /\ disk = login
  /\ task = [c \in Callers |-> Idle]
  /\ poll = [a \in Codes |-> Polling("none", 0, FALSE)]
  /\ polling = NoGrant
  /\ out = SigningOut("idle", 0)

-----------------------------------------------------------------------------
(* `token` and the loops around it.                                        *)

Becomes(c, locals) == task' = [task EXCEPT ![c] = locals]

\* A call is over; the reader goes on to the bars with what it has read.
Ends(c, read) == Becomes(c, IF c = Reader THEN Landing(read) ELSE Idle)
Fails(c) == Ends(c, NoLogin)

\* JsonFile::write: kept in memory even if the disk refuses it.
Store(new) ==
  /\ login' = new
  /\ disk' \in {disk, new}

\* The endpoint answers a refresh token with a new pair, once.
Rotates(pair) ==
  /\ pair \in valid
  /\ issued < MaxPairs
  /\ issued' = issued + 1
  /\ valid' = (valid \ {pair}) \cup {issued + 1}

\* A refresh whose answer is not heard: the endpoint acted on it or did not.
RefreshUnheard(pair) == Rotates(pair) \/ UNCHANGED endpointVars

Ask(c) ==
  /\ c # Reader
  /\ task[c].pc = "idle"
  /\ Becomes(c, Asking(FALSE))
  /\ UNCHANGED <<fileVars, flowVars, out, endpointVars, barsVars>>

\* A status page, or a request that looks for a nearly full account.
Read ==
  /\ task[Reader].pc = "idle"
  /\ BeginReading
  /\ Becomes(Reader, Asking(FALSE))
  /\ UNCHANGED <<fileVars, flowVars, out, endpointVars>>

NotSignedIn(c) ==
  /\ task[c].pc = "asking"
  /\ Free
  /\ login.pair = 0
  /\ Fails(c)
  /\ UNCHANGED <<fileVars, flowVars, out, endpointVars, barsVars>>

\* The token in the file will do.
TakeToken(c) ==
  /\ task[c].pc = "asking"
  /\ Free
  /\ login.pair # 0
  /\ ~task[c].force
  /\ Becomes(c, Calling(FALSE, login))
  /\ UNCHANGED <<fileVars, flowVars, out, endpointVars, barsVars>>

\* Altered: without the mutex.
StartRefreshUnlocked(c) ==
  /\ task[c].pc = "asking"
  /\ login.pair # 0
  /\ Becomes(c, Refreshing(task[c].force, login))
  /\ UNCHANGED <<fileVars, flowVars, out, endpointVars, barsVars>>

\* It has less than two minutes left, or the upstream refused it.
StartRefresh(c) ==
  /\ task[c].pc = "asking"
  /\ Free
  /\ login.pair # 0
  /\ Becomes(c, Refreshing(task[c].force, login))
  /\ UNCHANGED <<fileVars, flowVars, out, endpointVars, barsVars>>

\* The new pair is merged into what was read under the mutex, and stored.
Refreshed(c) ==
  /\ task[c].pc = "refreshing"
  /\ Rotates(task[c].base.pair)
  /\ Store(Tokens(task[c].base.grant, issued + 1))
  /\ Becomes(c, Calling(task[c].force, login'))
  /\ UNCHANGED <<flowVars, out, barsVars>>

\* The login is dead.
Rejected(c) ==
  /\ task[c].pc = "refreshing"
  /\ task[c].base.pair \notin valid
  /\ Fails(c)
  /\ UNCHANGED <<fileVars, flowVars, out, endpointVars, barsVars>>

\* The endpoint is busy or unreachable, or timed out: the token in hand is
\* used for its last minutes, if it has them and the upstream did not refuse it.
RefreshFails(c) ==
  /\ task[c].pc = "refreshing"
  /\ RefreshUnheard(task[c].base.pair)
  /\ \/ ~task[c].force /\ Becomes(c, Calling(FALSE, task[c].base))
     \/ Fails(c)
  /\ UNCHANGED <<fileVars, flowVars, out, barsVars>>

\* The upstream serves the call, or refuses it for another reason.
Answered(c) ==
  /\ task[c].pc = "calling"
  /\ Ends(c, task[c].base) \/ Fails(c)
  /\ UNCHANGED <<fileVars, flowVars, out, endpointVars, barsVars>>

\* Altered: asked again without a refresh.
UnauthorizedAgain(c) ==
  /\ task[c].pc = "calling"
  /\ IF task[c].force THEN Fails(c) ELSE Becomes(c, Asking(FALSE))
  /\ UNCHANGED <<fileVars, flowVars, out, endpointVars, barsVars>>

\* It answers 401: the token is refreshed once and the request sent again.
Unauthorized(c) ==
  /\ task[c].pc = "calling"
  /\ IF task[c].force THEN Fails(c) ELSE Becomes(c, Asking(TRUE))
  /\ UNCHANGED <<fileVars, flowVars, out, endpointVars, barsVars>>

\* The reading reaches the bars: of the grant that was asked for, or an error,
\* which keeps the last ones.
LandBars ==
  /\ task[Reader].pc = "landing"
  /\ Land(IF task[Reader].base.pair = 0 THEN bars.of ELSE task[Reader].base.grant)
  /\ Becomes(Reader, Idle)
  /\ UNCHANGED <<fileVars, flowVars, out, endpointVars>>

-----------------------------------------------------------------------------
(* `start`: a device code for the user, and the task that waits for it.    *)

\* AbortHandle::abort: a task that awaits is dropped there; one that runs is
\* dropped where it next has to wait.
Aborted(p) ==
  CASE p.pc \in Awaiting   -> Ended
    [] p.pc = "answered"   -> Polling("answered", p.pair, TRUE)
    [] OTHER               -> p

Start(a) ==
  /\ start[a] = "none"
  /\ start' = [start EXCEPT ![a] = "asking"]
  /\ UNCHANGED <<fileVars, task, poll, polling, out, endpointVars, barsVars>>

\* The endpoint refuses, or the client hangs up.
StartFails(a) ==
  /\ start[a] = "asking"
  /\ start' = [start EXCEPT ![a] = "done"]
  /\ UNCHANGED <<fileVars, task, poll, polling, out, endpointVars, barsVars>>

\* The code is there and its task runs, before the handle is kept.
Spawn(a) ==
  /\ start[a] = "asking"
  /\ start' = [start EXCEPT ![a] = "spawned"]
  /\ poll' = [poll EXCEPT ![a] = Polling("polling", 0, FALSE)]
  /\ UNCHANGED <<fileVars, task, polling, out, endpointVars, barsVars>>

\* Altered: the one before goes on.
RegisterOnly(a) ==
  /\ start[a] = "spawned"
  /\ start' = [start EXCEPT ![a] = "done"]
  /\ polling' = a
  /\ UNCHANGED <<fileVars, task, poll, out, endpointVars, barsVars>>

\* The handle replaces the one before, which is aborted.
Register(a) ==
  /\ start[a] = "spawned"
  /\ start' = [start EXCEPT ![a] = "done"]
  /\ polling' = a
  /\ poll' = IF polling = NoGrant THEN poll
             ELSE [poll EXCEPT ![polling] = Aborted(@)]
  /\ UNCHANGED <<fileVars, task, out, endpointVars, barsVars>>

-----------------------------------------------------------------------------
(* `complete`.                                                             *)

Polls(a, p) == poll' = [poll EXCEPT ![a] = p]

\* The user has approved the code: it is sent to the token endpoint.
Approved(a) ==
  /\ poll[a].pc = "polling"
  /\ Polls(a, Polling("exchanging", 0, FALSE))
  /\ UNCHANGED <<fileVars, task, start, polling, out, endpointVars, barsVars>>

\* Fifteen minutes are over, or an answer is an error.
GivesUp(a) ==
  /\ poll[a].pc \in {"polling", "exchanging"}
  /\ Polls(a, Ended)
  /\ UNCHANGED <<fileVars, task, start, polling, out, endpointVars, barsVars>>

Exchanged(a) ==
  /\ poll[a].pc = "exchanging"
  /\ issued < MaxPairs
  /\ issued' = issued + 1
  /\ valid' = valid \cup {issued + 1}
  /\ Polls(a, Polling("answered", issued + 1, FALSE))
  /\ UNCHANGED <<fileVars, task, start, polling, out, barsVars>>

\* The mutex is taken: here the task has to wait, and ends if it was aborted.
Queue(a) ==
  /\ poll[a].pc = "answered"
  /\ ~Free
  /\ Polls(a, IF poll[a].aborted THEN Ended ELSE Polling("queued", poll[a].pair, FALSE))
  /\ UNCHANGED <<fileVars, task, start, polling, out, endpointVars, barsVars>>

TakeMutex(a) ==
  /\ poll[a].pc \in {"answered", "queued"}
  /\ Free
  /\ Polls(a, Polling("storing", poll[a].pair, FALSE))
  /\ UNCHANGED <<fileVars, task, start, polling, out, endpointVars, barsVars>>

\* A new login replaces the slot's tokens, on an empty object.
Persist(a) ==
  /\ poll[a].pc = "storing"
  /\ Store(Tokens(a, poll[a].pair))
  /\ Polls(a, Polling("clearing", 0, FALSE))
  /\ UNCHANGED <<task, start, polling, out, endpointVars, barsVars>>

ForgetLimits(a) ==
  /\ poll[a].pc = "clearing"
  /\ ClearBars
  /\ Polls(a, Ended)
  /\ UNCHANGED <<fileVars, task, start, polling, out, endpointVars>>

-----------------------------------------------------------------------------
(* sign_out.                                                               *)

\* Altered: the handle is given up and its task goes on.
SignOutTakesHandle ==
  /\ out.pc = "idle"
  /\ out' = SigningOut("waiting", 0)
  /\ polling' = NoGrant
  /\ UNCHANGED <<fileVars, task, start, poll, endpointVars, barsVars>>

SignOut ==
  /\ out.pc = "idle"
  /\ out' = SigningOut("waiting", 0)
  /\ polling' = NoGrant
  /\ poll' = IF polling = NoGrant THEN poll
             ELSE [poll EXCEPT ![polling] = Aborted(@)]
  /\ UNCHANGED <<fileVars, task, start, endpointVars, barsVars>>

\* Altered: the account's name stays.
RemoveTokens ==
  /\ out.pc = "waiting"
  /\ Free
  /\ login' = [login EXCEPT !.pair = 0]
  /\ disk' = login'
  /\ out' = SigningOut("clearing", login.pair)
  /\ UNCHANGED <<task, flowVars, endpointVars, barsVars>>

RemoveLogin ==
  /\ out.pc = "waiting"
  /\ Free
  /\ login' = NoLogin
  /\ disk' = NoLogin
  /\ out' = SigningOut("clearing", login.pair)
  /\ UNCHANGED <<task, flowVars, endpointVars, barsVars>>

\* The bars go with the login; if there was one, its token is revoked.
SignOutForgets ==
  /\ out.pc = "clearing"
  /\ ClearBars
  /\ out' = IF out.pair = 0 THEN SigningOut("idle", 0)
                            ELSE SigningOut("revoking", out.pair)
  /\ UNCHANGED <<fileVars, task, flowVars, endpointVars>>

\* The endpoint has revoked the token or not: nobody looks.
Revoked ==
  /\ out.pc = "revoking"
  /\ valid' \in {valid, valid \ {out.pair}}
  /\ out' = SigningOut("idle", 0)
  /\ UNCHANGED <<fileVars, task, flowVars, issued, barsVars>>

-----------------------------------------------------------------------------
(* Clients and the process.                                                *)

\* The client of a request hangs up: it is dropped where it awaits.
HangUp(c) ==
  /\ c # Reader
  /\ task[c].pc # "idle"
  /\ Becomes(c, Idle)
  /\ IF task[c].pc = "refreshing" THEN RefreshUnheard(task[c].base.pair)
                                  ELSE UNCHANGED endpointVars
  /\ UNCHANGED <<fileVars, flowVars, out, barsVars>>

\* The client of the sign-out hangs up while it waits for the mutex or the
\* revocation.
SignOutDropped ==
  /\ out.pc \in {"waiting", "revoking"}
  /\ out' = SigningOut("idle", 0)
  /\ valid' \in {valid, valid \ {out.pair}}
  /\ UNCHANGED <<fileVars, task, flowVars, issued, barsVars>>

\* The process stops and starts again: the file is what is left.
Restart ==
  /\ login' = disk
  /\ task' = [c \in Callers |-> Idle]
  /\ start' = [a \in Codes |-> IF start[a] = "none" THEN "none" ELSE "done"]
  /\ poll' = [a \in Codes |-> IF poll[a].pc = "none" THEN poll[a] ELSE Ended]
  /\ polling' = NoGrant
  /\ out' = SigningOut("idle", 0)
  /\ bars' = FreshBars /\ stale' = FALSE
  /\ \/ UNCHANGED endpointVars
     \/ \E c \in Callers : task[c].pc = "refreshing" /\ Rotates(task[c].base.pair)
  /\ UNCHANGED disk

-----------------------------------------------------------------------------

\* Taking the mutex, which tokio hands out in the order it was asked for.
Acquire(c) == NotSignedIn(c) \/ TakeToken(c) \/ StartRefresh(c)

\* An await that comes back.
Resume(c) ==
  Refreshed(c) \/ Rejected(c) \/ RefreshFails(c) \/ Answered(c) \/ Unauthorized(c)

\* What a code's task does by itself, but for waiting for the mutex.
Complete(a) ==
  GivesUp(a) \/ Exchanged(a) \/ Queue(a) \/ Persist(a) \/ ForgetLimits(a)

Next ==
  \/ \E c \in Callers : Ask(c) \/ Acquire(c) \/ Resume(c) \/ HangUp(c)
  \/ Read \/ LandBars \/ (ReadFallsDue /\ UNCHANGED <<fileVars, task, flowVars, out, endpointVars>>)
  \/ \E a \in Codes :
       \/ Start(a) \/ StartFails(a) \/ Spawn(a) \/ Register(a)
       \/ Approved(a) \/ TakeMutex(a) \/ Complete(a)
  \/ SignOut \/ RemoveLogin \/ SignOutForgets \/ Revoked \/ SignOutDropped
  \/ Restart

Spec == Init /\ [][Next]_vars
=============================================================================
