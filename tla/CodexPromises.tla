---------------------------- MODULE CodexPromises ----------------------------
(***************************************************************************)
(* What a Codex login and its usage bars promise, stated over CodexLogin   *)
(* with two history variables: cut, whether an answer of the endpoint to a *)
(* refresh of the grant in hand ever failed to reach the file, and         *)
(* cancelled, the codes whose task was waiting when a sign-out or a later  *)
(* code aborted it.                                                        *)
(***************************************************************************)
EXTENDS CodexLogin

VARIABLES cut, cancelled

history == <<cut, cancelled>>
allVars == <<vars, history>>

\* The endpoint acts on a refresh and nobody hears of it, or a pair was only in
\* memory when the process stopped.
CutOff ==
  \/ \E c \in Callers : /\ task[c].pc = "refreshing"
                        /\ HangUp(c) \/ RefreshFails(c) \/ Restart
                        /\ valid' # valid
  \/ Restart /\ disk # login

HistoryInit == cut = FALSE /\ cancelled = {}

HistoryNext ==
  /\ cut' = IF \E a \in Codes : Persist(a) THEN FALSE ELSE cut \/ CutOff
  /\ cancelled' = IF (SignOut \/ \E a \in Codes : Register(a))
                     /\ polling # NoGrant /\ poll[polling].pc \in Awaiting
                  THEN cancelled \cup {polling} ELSE cancelled

PromiseInit == Init /\ HistoryInit
PromiseNext == Next /\ HistoryNext
PromiseSpec == PromiseInit /\ [][PromiseNext]_allVars

\* The mutex is a fair queue, every await of the login code ends after 30
\* seconds (TIMEOUT) or ten (the revocation), an upstream call after its read
\* timeout, and a code's task stops polling after 15 minutes (LOGIN_WINDOW).
FairSpec ==
  /\ PromiseSpec
  /\ \A c \in Callers : /\ WF_allVars(Resume(c) /\ HistoryNext)
                        /\ SF_allVars(Acquire(c) /\ HistoryNext)
  /\ WF_allVars(LandBars /\ HistoryNext)
  /\ \A a \in Codes : /\ WF_allVars((Register(a) \/ Complete(a)) /\ HistoryNext)
                      /\ SF_allVars(TakeMutex(a) /\ HistoryNext)
  /\ SF_allVars(RemoveLogin /\ HistoryNext)
  /\ WF_allVars((SignOutForgets \/ Revoked) /\ HistoryNext)

-----------------------------------------------------------------------------

\* "Serialises refreshes: a refresh token is spent by its first use": unless an
\* answer never reached the file, the endpoint accepts the pair in hand, and
\* every pair that is being sent, so that no caller is told that a live login
\* is dead.
InHandIsValid ==
  ~cut =>
    /\ Free /\ login.pair # 0 => login.pair \in valid
    /\ \A c \in Callers : task[c].pc = "refreshing" => task[c].base.pair \in valid

\* No code is polled for behind the user's back: a task that can still sign the
\* slot in is the one the next start or sign-out aborts, or its start is about
\* to register it.
OneLoginInProgress ==
  \A a \in Codes :
    poll[a].pc \in Awaiting \/ (poll[a].pc = "answered" /\ ~poll[a].aborted)
      => polling = a \/ start[a] = "spawned"

\* A slot that is signed out is signed in again only by a code's task, and
\* never by one that was waiting when a sign-out or a later code aborted it: no
\* refresh that was under way, no approval that comes late and no restart
\* brings a login back.
SignOutIsFinal ==
  [][login.pair = 0 /\ login'.pair # 0 =>
       login'.grant \notin cancelled /\ poll[login'.grant].pc = "storing"]_allVars

\* "Forget the bars of a login this slot no longer holds": the bars shown are
\* those of the login in hand, however a reading, its answer, a refresh, a
\* sign-out and a new login interleave.
BarsAreOurs ==
  (\A a \in Codes : poll[a].pc # "clearing") /\ out.pc # "clearing"
    => bars.of \in {NoGrant, login.grant}

\* Every request, every reading of the bars, every sign-out and every code's
\* task ends: none waits for ever for the mutex, and a request is not refreshed
\* and refused in a circle.
CallsEnd ==
  /\ \A c \in Callers : task[c].pc # "idle" ~> task[c].pc = "idle"
  /\ \A a \in Codes : poll[a].pc = "polling" ~> poll[a].pc = "ended"
  /\ out.pc # "idle" ~> out.pc = "idle"
=============================================================================
