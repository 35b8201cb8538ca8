---------------------------- MODULE PoolPromises ----------------------------
(***************************************************************************)
(* What the account pool promises, stated over AccountPool with one        *)
(* history variable the code does not have: steady[r], the accounts that   *)
(* have been in the pool, signed in and not resting in every state since   *)
(* request r began.                                                        *)
(***************************************************************************)
EXTENDS AccountPool

VARIABLE steady

allVars == <<vars, steady>>

Usable == {a \in ToSet(accounts) : signedIn[a] /\ Ready(a)}

Trying(r) == req[r].pc = "trying"

HistoryInit == steady = [r \in Requests |-> {}]

HistoryNext ==
  steady' = [r \in Requests |->
               IF req'[r].pc = "idle" THEN {}
               ELSE IF req[r].pc = "idle" THEN Usable'
               ELSE steady[r] \cap Usable']

PromiseInit == Init /\ HistoryInit
PromiseNext == Next /\ HistoryNext
PromiseSpec == PromiseInit /\ [][PromiseNext]_allVars

\* The requests alone, on the accounts the pool has.
TrafficNext == (RequestNext \/ Tick) /\ HistoryNext

\* The runtime polls every task that can go on, and an upstream answers, ends
\* or times out (reqwest's read timeout): no request waits for ever.
Fairness == \A r \in Requests : WF_allVars(Step(r) /\ HistoryNext)

FairSpec == PromiseSpec /\ Fairness

-----------------------------------------------------------------------------

\* The accounts that refused the request.
Refused(r) ==
  IF req[r].pc = "refused"
  THEN {req[r].candidates[i] : i \in 1..req[r].at}
  ELSE {req[r].candidates[i] : i \in 1..(req[r].at - 1)}

\* No usable account is skipped: a request that ends without an answer has
\* asked every account that was in the pool, signed in and not resting for as
\* long as it ran -- whatever was added, removed, signed in or out, or sent to
\* rest by other requests meanwhile.  In particular "no account is signed in"
\* is never the answer while one was there throughout.
NoUsableAccountSkipped ==
  \A r \in Requests :
    req[r].pc = "exhausted" => steady[r] \subseteq Refused(r)

\* "bounded to an hour": however 429s, authentication failures and successes
\* of concurrent requests interleave, no account rests past MaxCooldown from
\* now, so a wrong hint cannot bench one.
RestIsBounded == \A a \in Accounts : cooldown[a] <= now + MaxCooldown

\* An account the status page reports as needing reauthentication has a rest
\* on record too: whichever of a failure, a later 429, a success of another
\* request, a login or a removal comes last, none drops the rest and keeps
\* the error.
ErrorKeepsRest == \A a \in accountErrors : cooldown[a] > 0

\* What rests and errors keep to, whatever order the outcomes come in.
RestsInOrder == RestIsBounded /\ ErrorKeepsRest

\* The session table never outgrows its limit.
TableIsBounded == Cardinality(PinnedIn(sessions)) <= SessionLimit

\* "A session stays on the account that last served it": when that account is
\* among the candidates it is asked first, so the request is on another
\* account only once its own has refused it -- even when its own is nearly
\* full and another has room.
SessionStays ==
  \A r \in Requests :
    /\ Trying(r)
    /\ req[r].kept \in ToSet(req[r].candidates)
    => req[r].candidates[1] = req[r].kept

\* What a caller can tell of a request, as Failover has it.
Phase(r) ==
  CASE req[r].pc = "idle" -> "idle"
    [] req[r].pc \in {"checking", "trying"} -> "open"
    [] req[r].pc = "served" -> "served"
    [] OTHER -> "failed"

Server(r) == IF req[r].pc = "served" THEN Current(r) ELSE NoAccount

F == INSTANCE Failover WITH
       phase <- [r \in Requests |-> Phase(r)],
       tried <- [r \in Requests |-> Refused(r)],
       server <- [r \in Requests |-> Server(r)]

\* The failover loop implements Failover: no account is asked twice by one
\* request, at most one answers it, and nothing is asked after that.
ImplementsFailover == F!Spec

\* Every request ends: the loop over the candidates always gets to its end.
RequestsEnd == \A r \in Requests : req[r].pc # "idle" ~> req[r].pc = "idle"
=============================================================================
