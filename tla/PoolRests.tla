----------------------------- MODULE PoolRests -----------------------------
(***************************************************************************)
(* How long a 429 rests its account, stated over AccountPool with one      *)
(* history variable: overtaken[r], the accounts that a 429 sent to rest    *)
(* after r's current attempt was sent.  What r hears of those is older     *)
(* news than the rest.                                                     *)
(***************************************************************************)
EXTENDS AccountPool

VARIABLE overtaken

restVars == <<vars, overtaken>>

\* The account that request s's step has just sent to rest.
SentToRest(s) ==
  {a \in Accounts : \E asked \in Asked \cup {Unsaid} :
     Limited(s, asked) /\ a = Current(s) /\ Rest(asked) > 0}

RestInit == Init /\ overtaken = [r \in Requests |-> {}]

RestNext ==
  /\ RequestNext \/ Tick
  /\ overtaken' = [r \in Requests |->
                     IF req[r].pc = "trying" /\ req'[r] = req[r]
                     THEN overtaken[r] \cup UNION {SentToRest(s) : s \in Requests}
                     ELSE {}]

RestSpec == RestInit /\ [][RestNext]_restVars

\* "a 429 rests the account for as long as the upstream names": the answer to
\* a request that was sent before the 429 does not cut the rest short.
RestOutlivesOlderAnswers ==
  [][\A r \in Requests :
       LET a == Current(r) IN
       /\ req[r].pc = "trying" /\ req'[r].pc = "served"
       /\ a \in overtaken[r]
       /\ cooldown[a] > now
       => cooldown'[a] = cooldown[a]]_restVars
=============================================================================
