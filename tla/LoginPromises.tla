---------------------------- MODULE LoginPromises ----------------------------
(***************************************************************************)
(* What a Claude login promises, stated over ClaudeLogin with two history  *)
(* variables: cut, whether a refresh of the grant in hand was ever broken  *)
(* off between being sent and being stored, and closed, the number of      *)
(* logins that had been started at the last sign-out.                      *)
(***************************************************************************)
EXTENDS ClaudeLogin

VARIABLES cut, closed

allVars == <<vars, cut, closed>>

\* The endpoint acts on a refresh whose answer is not heard, or a new pair is
\* lost before it is stored, or it never reached the disk.
CutOff ==
  \/ \E t \in Tasks :
       \/ /\ task[t].pc = "refreshing"
          /\ HangUp(t) \/ RefreshFails(t) \/ Restart
          /\ valid' # valid
       \/ /\ task[t].pc = "profiling"
          /\ HangUp(t) \/ Restart
  \/ Restart /\ disk # login

HistoryInit == cut = FALSE /\ closed = 0

HistoryNext ==
  /\ cut' = IF \E t \in Tasks : Welcomed(t) THEN FALSE ELSE cut \/ CutOff
  /\ closed' = IF SignOut THEN attempts ELSE closed

PromiseInit == Init /\ HistoryInit
PromiseNext == Next /\ HistoryNext
PromiseSpec == PromiseInit /\ [][PromiseNext]_allVars

\* The lock is a fair queue, and reqwest ends every await of the login code
\* after 30 seconds (TIMEOUT), of an upstream call after its read timeout.
FairSpec ==
  /\ PromiseSpec
  /\ \A t \in Tasks : /\ WF_allVars(Resume(t) /\ HistoryNext)
                      /\ SF_allVars(Acquire(t) /\ HistoryNext)

-----------------------------------------------------------------------------

\* "a refresh token is spent by its first use, so two refreshes must never
\* race": whenever nobody is refreshing, the pair in hand is one the endpoint
\* accepts -- however refreshes, profile reads, logins, sign-outs, refused
\* writes and restarts interleave -- unless an answer never reached the file.
InHandIsValid ==
  lock = NoTask /\ ~cut /\ login.pair # 0 => login.pair \in valid

\* A sign-out is final: the slot holds a login again only when the user
\* completes a login that was started afterwards.  No refresh or profile read
\* that was under way, no older attempt and no restart brings one back.
SignOutIsFinal ==
  [][login.pair = 0 /\ login'.pair # 0 =>
       \E t \in Tasks : task[t].pc = "welcoming" /\ task[t].attempt > closed]_allVars

\* Only the login last started can be completed: with two in progress, the
\* code of the older one is never exchanged for the slot's login.
LastAttemptWins ==
  \A t \in Tasks : task[t].pc = "welcoming" => task[t].attempt = attempts

\* Every request, every pasted code and every profile read ends: none waits for
\* ever for the lock, and a request is not refreshed and refused in a circle.
\* (A start, a sign-out and the status page's call take the lock in their one
\* step here; their own wait for it is not followed.)
CallsEnd == \A t \in Tasks : task[t].pc # "idle" ~> task[t].pc = "idle"

\* "a refreshed pair is kept even if the disk refuses it, since the old
\* refresh token is spent": once the endpoint's answer is there, its pair is
\* what the slot holds when the refresh is over.
RefreshedPairIsKept ==
  [][\A t \in Tasks :
       task[t].pc = "profiling" /\ task'[t].pc # "profiling"
         => login'.pair = task[t].got]_allVars

\* The same calls without a restart of the process.
RunningSpec ==
  PromiseInit /\ [][PromiseNext /\ ~Restart]_allVars
=============================================================================
