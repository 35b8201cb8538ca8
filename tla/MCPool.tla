------------------------------- MODULE MCPool -------------------------------
(* Instances of PoolPromises for TLC. *)
EXTENDS PoolPromises

CONSTANTS a1, a2, s1, s2

\* Rendezvous hashing starts s1 on a1 and s2 on a2.
MCAffinity ==
  [s \in Sessions |-> [a \in Accounts |->
     IF (s = s1 /\ a = a1) \/ (s = s2 /\ a = a2) THEN 2 ELSE 1]]

\* Requests are interchangeable.
Symmetry == Permutations(Requests)

\* All the slots there are, signed in: no dashboard action is needed to begin.
MCTrafficInit ==
  PromiseInit /\ accounts = <<a1, a2>> /\ \A a \in Accounts : signedIn[a]

MCTrafficSpec == MCTrafficInit /\ [][TrafficNext]_allVars

\* One slot at most, signed in or not, and room for others to be added.
MCSlotsInit == PromiseInit /\ accounts \in {<<>>, <<a1>>}

MCFairSpec == MCSlotsInit /\ [][PromiseNext]_allVars /\ Fairness
=============================================================================
