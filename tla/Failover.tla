------------------------------ MODULE Failover ------------------------------
(***************************************************************************)
(* What AccountPool::stream and AccountPool::call promise the caller of    *)
(* one request, with nothing said of how accounts are chosen: the request  *)
(* asks one account after another, never the same one twice, moves on only *)
(* after a refusal, is answered by at most one account, and once it is     *)
(* answered or has failed no further account is asked.                     *)
(***************************************************************************)
CONSTANTS Requests, Accounts, NoAccount

VARIABLES
  phase,   \* [Requests -> Phases]
  tried,   \* accounts that refused the request
  server   \* the account that answers it

vars == <<phase, tried, server>>

Phases == {"idle", "open", "served", "failed"}

TypeOK ==
  /\ phase \in [Requests -> Phases]
  /\ tried \in [Requests -> SUBSET Accounts]
  /\ server \in [Requests -> Accounts \cup {NoAccount}]

Init ==
  /\ phase = [r \in Requests |-> "idle"]
  /\ tried = [r \in Requests |-> {}]
  /\ server = [r \in Requests |-> NoAccount]

Begin(r) ==
  /\ phase[r] = "idle"
  /\ phase' = [phase EXCEPT ![r] = "open"]
  /\ UNCHANGED <<tried, server>>

\* Account a refuses the request, which moves to another account or gives up.
Refuse(r, a) ==
  /\ phase[r] = "open"
  /\ a \notin tried[r]
  /\ tried' = [tried EXCEPT ![r] = @ \cup {a}]
  /\ phase' \in {phase, [phase EXCEPT ![r] = "failed"]}
  /\ UNCHANGED server

Serve(r, a) ==
  /\ phase[r] = "open"
  /\ a \notin tried[r]
  /\ phase' = [phase EXCEPT ![r] = "served"]
  /\ server' = [server EXCEPT ![r] = a]
  /\ UNCHANGED tried

\* No account is there to ask.
NoneToAsk(r) ==
  /\ phase[r] = "open"
  /\ tried[r] = {}
  /\ phase' = [phase EXCEPT ![r] = "failed"]
  /\ UNCHANGED <<tried, server>>

End(r) ==
  /\ phase[r] # "idle"
  /\ phase' = [phase EXCEPT ![r] = "idle"]
  /\ tried' = [tried EXCEPT ![r] = {}]
  /\ server' = [server EXCEPT ![r] = NoAccount]

Next ==
  \E r \in Requests :
    \/ Begin(r)
    \/ NoneToAsk(r)
    \/ End(r)
    \/ \E a \in Accounts : Refuse(r, a) \/ Serve(r, a)

Spec == Init /\ [][Next]_vars
=============================================================================
