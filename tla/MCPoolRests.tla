---------------------------- MODULE MCPoolRests ----------------------------
(* An instance of PoolRests for TLC. *)
EXTENDS PoolRests

CONSTANTS a1, a2

MCAffinity == [s \in Sessions |-> [a \in Accounts |-> 1]]

\* Every account is in the pool and signed in.
MCRestInit == RestInit /\ accounts = <<a1, a2>> /\ \A a \in Accounts : signedIn[a]

MCRestSpec == MCRestInit /\ [][RestNext]_restVars
=============================================================================
