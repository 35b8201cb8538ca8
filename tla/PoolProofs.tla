----------------------------- MODULE PoolProofs -----------------------------
(***************************************************************************)
(* Theorems about the account pool, for any number of accounts, requests   *)
(* and sessions, any values of the times, and whatever the dashboard does  *)
(* meanwhile: its types, its rests and its table (AccountPool), what it    *)
(* promises one request (PromiseSpec), and that it implements Failover.    *)
(***************************************************************************)
EXTENDS PoolPromises, FiniteSetTheorems, TLAPS

\* Every sequence SetToSeqs lists is over its set, and names nothing twice.
LEMMA ListedOnce ==
  ASSUME NEW S, IsFiniteSet(S), NEW c \in SetToSeqs(S)
  PROVE  /\ c \in Seq(S)
         /\ Len(c) = Cardinality(S)
         /\ \A i, j \in 1..Len(c) : i # j => c[i] # c[j]
<1>1. Cardinality(S) \in Nat
  BY FS_CardinalityType
<1>2. c \in [1..Cardinality(S) -> S]
  BY DEF SetToSeqs
<1> QED
  BY <1>1, <1>2 DEF SetToSeqs

\* ... and leaves nothing of it out.
LEMMA ListedWhole ==
  ASSUME NEW S, IsFiniteSet(S), NEW c \in SetToSeqs(S)
  PROVE  ToSet(c) = S
<1> DEFINE D == 1..Cardinality(S)
<1>1. IsFiniteSet(D) /\ Cardinality(D) = Cardinality(S)
  BY FS_CardinalityType, FS_Interval
<1>2. c \in Injection(D, S)
  BY DEF SetToSeqs, Injection, IsInjective
<1>3. c \in Surjection(D, S)
  BY <1>1, <1>2, FS_Injection
<1> QED
  BY <1>3 DEF Surjection, ToSet

\* What a sequence holds is a finite set.
LEMMA HeldIsFinite ==
  ASSUME NEW S, NEW s \in Seq(S)
  PROVE  IsFiniteSet(ToSet(s)) /\ ToSet(s) \subseteq S
<1> DEFINE D == 1..Len(s)
<1>1. IsFiniteSet(D)
  BY FS_Interval
<1>2. s \in Surjection(D, ToSet(s))
  BY DEF ToSet, Surjection
<1> QED
  BY <1>1, <1>2, FS_Surjection DEF ToSet

\* The candidates are the eligible accounts, each once.
LEMMA Candidates ==
  ASSUME NEW available \in Seq(Accounts), available # <<>>,
         NEW session, NEW kept, NEW full,
         NEW c \in Ordering(session, available, kept, full, Eligible(available))
  PROVE  /\ c \in Seq(Accounts)
         /\ Len(c) \in Nat \ {0}
         /\ \A i, j \in 1..Len(c) : i # j => c[i] # c[j]
         /\ ToSet(c) = Eligible(available)
<1> DEFINE E == Eligible(available)
<1>1. IsFiniteSet(ToSet(available)) /\ ToSet(available) \subseteq Accounts
  BY HeldIsFinite
<1>2. ToSet(available) # {}
  <2>1. available[1] \in ToSet(available)
    BY DEF ToSet
  <2> QED
    BY <2>1
<1>3. E \subseteq ToSet(available) /\ E # {}
  BY <1>2 DEF Eligible
<1>4. IsFiniteSet(E)
  BY <1>1, <1>3, FS_Subset
<1>5. c \in SetToSeqs(E)
  BY DEF Ordering
<1>6. /\ c \in Seq(E)
      /\ \A i, j \in 1..Len(c) : i # j => c[i] # c[j]
  BY <1>4, <1>5, ListedOnce
<1>7. ToSet(c) = E
  BY <1>4, <1>5, ListedWhole
<1>8. Len(c) # 0
  BY <1>3, <1>6, <1>7 DEF ToSet
<1> QED
  BY <1>1, <1>3, <1>6, <1>7, <1>8

-----------------------------------------------------------------------------
(* Type correctness.                                                       *)

LEMMA InitTypeOK == Init => TypeOK
<1> SUFFICES ASSUME Init PROVE TypeOK
  OBVIOUS
<1>1. accounts \in Seq(Accounts)
  <2>1. PICK S \in SUBSET Accounts : accounts \in SetToSeqs(S)
    BY DEF Init, SetToAllKPermutations
  <2>2. IsFiniteSet(S)
    BY FiniteAssumption, FS_Subset
  <2>3. accounts \in Seq(S)
    BY <2>1, <2>2, ListedOnce
  <2> QED
    BY <2>3
<1> QED
  BY <1>1, PoolAssumption DEF Init, TypeOK, Idle, Request, Pcs, Pin, Unpinned, Times

\* Whatever clears, marks or rests an account leaves deadlines and ids.
LEMMA MarksTypeOK ==
  ASSUME TypeOK, NEW a \in Accounts
  PROVE  /\ ClearAccountError(a) =>
              cooldown' \in [Accounts -> Times] /\ accountErrors' \subseteq Accounts
         /\ MarkAccountError(a) =>
              cooldown' \in [Accounts -> Times] /\ accountErrors' \subseteq Accounts
         /\ \A asked \in Asked \cup {Unsaid} : MarkRateLimited(a, asked) =>
              cooldown' \in [Accounts -> Times] /\ accountErrors' \subseteq Accounts
<1>1. \A asked \in Asked \cup {Unsaid} : Rest(asked) \in Nat
  BY SecondsAssumption DEF Rest, Lesser
<1>2. AuthFailureCooldown \in Nat
  BY SecondsAssumption
<1>3. ClearAccountError(a) =>
        cooldown' \in [Accounts -> Times] /\ accountErrors' \subseteq Accounts
  BY DEF TypeOK, Times, ClearAccountError
<1>4. MarkAccountError(a) =>
        cooldown' \in [Accounts -> Times] /\ accountErrors' \subseteq Accounts
  BY <1>2 DEF TypeOK, Times, MarkAccountError
<1>5. ASSUME NEW asked \in Asked \cup {Unsaid}, MarkRateLimited(a, asked)
      PROVE  cooldown' \in [Accounts -> Times] /\ accountErrors' \subseteq Accounts
  <2>1. now + Rest(asked) \in Times
    BY <1>1 DEF TypeOK, Times
  <2> QED
    BY <1>5, <2>1 DEF TypeOK, MarkRateLimited
<1> QED
  BY <1>3, <1>4, <1>5

LEMMA RememberTypeOK ==
  ASSUME TypeOK, NEW session \in Sessions \cup {NoSession}, NEW a \in Accounts,
         Remember(session, a)
  PROVE  sessions' \in [Sessions -> Pin]
<1>1. CASE session = NoSession
  BY <1>1 DEF Remember, TypeOK
<1>2. CASE session # NoSession
  <2> DEFINE table == [sessions EXCEPT ![session] = [account |-> a, served |-> now]]
  <2>1. table \in [Sessions -> Pin]
    BY <1>2 DEF TypeOK, Pin
  <2>2. \A s \in Sessions : [table EXCEPT ![s] = Unpinned] \in [Sessions -> Pin]
    BY <2>1 DEF Pin, Unpinned, Times
  <2>3. Evicted(table) \subseteq [Sessions -> Pin]
    BY <2>1, <2>2 DEF Evicted, PinnedIn
  <2>4. sessions' \in Evicted(table)
    BY <1>2 DEF Remember
  <2> QED
    BY <2>3, <2>4
<1> QED
  BY <1>1, <1>2

LEMMA IdleIsRequest == Idle \in Request
BY DEF Idle, Request, Pcs

\* The type invariant with what makes Current(r) an account: a request that
\* has chosen its candidates points at one of them until it runs out.
Pointing(r) ==
  req[r].pc \in {"trying", "served", "refused"} =>
    req[r].at \in 1..Len(req[r].candidates)

TypeInv == TypeOK /\ \A r \in Requests : Pointing(r)

LEMMA CurrentIsAccount ==
  ASSUME TypeInv, NEW r \in Requests, req[r].pc \in {"trying", "served", "refused"}
  PROVE  Current(r) \in Accounts
BY DEF TypeInv, TypeOK, Request, Pointing, Current

\* Replacing the locals of one request by well-formed ones is all it takes.
LEMMA RequestUpdate ==
  ASSUME TypeInv, NEW r \in Requests, NEW new \in Request,
         req' = [req EXCEPT ![r] = new],
         new.pc \in {"trying", "served", "refused"} => new.at \in 1..Len(new.candidates)
  PROVE  /\ req' \in [Requests -> Request]
         /\ \A q \in Requests : Pointing(q)'
<1>1. req' \in [Requests -> Request]
  BY DEF TypeInv, TypeOK
<1>2. ASSUME NEW q \in Requests PROVE Pointing(q)'
  <2>1. CASE q = r
    BY <2>1 DEF TypeInv, TypeOK, Pointing
  <2>2. CASE q # r
    BY <2>2 DEF TypeInv, TypeOK, Pointing
  <2> QED
    BY <2>1, <2>2
<1> QED
  BY <1>1, <1>2

LEMMA AdvanceTypeInv ==
  ASSUME TypeInv, NEW r \in Requests, req[r].pc = "trying", Advance(r)
  PROVE  /\ req' \in [Requests -> Request]
         /\ \A q \in Requests : Pointing(q)'
<1>1. /\ req[r] \in Request
      /\ req[r].at \in 1..Len(req[r].candidates)
  BY DEF TypeInv, TypeOK, Pointing
<1> DEFINE new == [req[r] EXCEPT !.at = @ + 1,
                                 !.pc = IF req[r].at < Len(req[r].candidates)
                                        THEN "trying" ELSE "exhausted"]
<1>2. new \in Request
  <2>1. new.at \in Nat /\ new.pc \in Pcs
    BY <1>1 DEF Request, Pcs
  <2> QED
    BY <1>1, <2>1 DEF Request
<1>3. req' = [req EXCEPT ![r] = new]
  BY DEF Advance, TypeInv, TypeOK
<1>4. new.pc \in {"trying", "served", "refused"} => new.at \in 1..Len(new.candidates)
  BY <1>1 DEF Request
<1> QED
  BY <1>2, <1>3, <1>4, RequestUpdate

LEMMA StepTypeInv ==
  ASSUME TypeInv, NEW r \in Requests, Step(r)
  PROVE  TypeInv'
<1> USE DEF TypeInv
<1>1. req[r] \in Request /\ req \in [Requests -> Request]
  BY DEF TypeOK
<1>2. CASE Check(r)
  <2> DEFINE a == Head(req[r].unchecked)
             new == [req[r] EXCEPT
                       !.unchecked = Tail(@),
                       !.available = IF signedIn[a] THEN Append(@, a) ELSE @]
  <2>1. a \in Accounts /\ Tail(req[r].unchecked) \in Seq(Accounts)
    BY <1>1, <1>2 DEF Check, Request
  <2> DEFINE asked == IF signedIn[a] THEN Append(req[r].available, a)
                      ELSE req[r].available
             part == [req[r] EXCEPT !.unchecked = Tail(req[r].unchecked)]
  <2>2. new \in Request
    <3>1. req[r].available \in Seq(Accounts)
      BY <1>1 DEF Request
    <3>2. asked \in Seq(Accounts)
      BY <2>1, <3>1
    <3>3. part \in Request
      BY <1>1, <2>1 DEF Request
    <3>4. [part EXCEPT !.available = asked] \in Request
      BY <3>2, <3>3 DEF Request
    <3>5. new = [part EXCEPT !.available = asked]
      BY <1>1 DEF Request
    <3> QED
      BY <3>4, <3>5
  <2>3. req' = [req EXCEPT ![r] = new]
    BY <1>1, <1>2 DEF Check
  <2>4. new.pc = "checking"
    BY <1>1, <1>2 DEF Check, Request
  <2>5. req' \in [Requests -> Request] /\ \A q \in Requests : Pointing(q)'
    BY <2>2, <2>3, <2>4, RequestUpdate
  <2> QED
    BY <1>2, <2>5 DEF Check, TypeOK, loginVars, poolVars
<1>3. CASE NoneSignedIn(r)
  <2> DEFINE new == [req[r] EXCEPT !.pc = "exhausted"]
  <2>1. new \in Request /\ new.pc = "exhausted"
    BY <1>1 DEF Request, Pcs
  <2>2. req' = [req EXCEPT ![r] = new]
    BY <1>1, <1>3 DEF NoneSignedIn
  <2>3. req' \in [Requests -> Request] /\ \A q \in Requests : Pointing(q)'
    BY <2>1, <2>2, RequestUpdate
  <2> QED
    BY <1>3, <2>3 DEF NoneSignedIn, TypeOK, loginVars, poolVars
<1>4. ASSUME NEW full \in SUBSET Accounts, Choose(r, full)
      PROVE  TypeInv'
  <2> DEFINE available == req[r].available
             session == req[r].session
             kept == Kept(session)
  <2>1. PICK c \in Ordering(session, available, kept, full, Eligible(available)) :
          req' = [req EXCEPT ![r] = [Idle EXCEPT !.pc = "trying",
                                                 !.session = session,
                                                 !.kept = kept,
                                                 !.candidates = c,
                                                 !.at = 1]]
    BY <1>4 DEF Choose
  <2>2. available \in Seq(Accounts) /\ available # <<>>
    BY <1>1, <1>4 DEF Choose, Request
  <2>3. c \in Seq(Accounts) /\ Len(c) \in Nat \ {0}
    BY <2>1, <2>2, Candidates
  <2>4. session \in Sessions \cup {NoSession}
    BY <1>1 DEF Request
  <2>5. kept \in Accounts \cup {NoAccount}
    BY <2>4 DEF Kept, TypeOK, Pin
  <2> DEFINE new == [Idle EXCEPT !.pc = "trying", !.session = session, !.kept = kept,
                                 !.candidates = c, !.at = 1]
  <2>6. /\ new \in Request
        /\ new.at \in 1..Len(new.candidates)
    <3> DEFINE e1 == [Idle EXCEPT !.pc = "trying"]
               e2 == [e1 EXCEPT !.session = session]
               e3 == [e2 EXCEPT !.kept = kept]
               e4 == [e3 EXCEPT !.candidates = c]
    <3>1. e1 \in Request
      BY IdleIsRequest DEF Request, Pcs
    <3>2. e2 \in Request
      BY <2>4, <3>1 DEF Request
    <3>3. e3 \in Request
      BY <2>5, <3>2 DEF Request
    <3>4. e4 \in Request /\ e4.candidates = c
      BY <2>3, <3>3 DEF Request
    <3> HIDE DEF e4
    <3>5. [e4 EXCEPT !.at = 1] \in Request /\ [e4 EXCEPT !.at = 1].at = 1
          /\ [e4 EXCEPT !.at = 1].candidates = c
      BY <3>4 DEF Request
    <3>6. new = [e4 EXCEPT !.at = 1]
      BY DEF e4
    <3> QED
      BY <2>3, <3>5, <3>6
  <2>7. req' \in [Requests -> Request] /\ \A q \in Requests : Pointing(q)'
    BY <2>1, <2>6, RequestUpdate
  <2>8. cursor' \in 0..(CursorWrap - 1)
    BY <1>4, PoolAssumption DEF Choose, TypeOK
  <2> QED
    BY <1>4, <2>7, <2>8 DEF Choose, TypeOK, loginVars
<1>5. ASSUME req[r].pc = "trying", req' = [req EXCEPT ![r].pc = "served"]
      PROVE  req' \in [Requests -> Request] /\ \A q \in Requests : Pointing(q)'
  <2> DEFINE new == [req[r] EXCEPT !.pc = "served"]
  <2>1. new \in Request /\ new.at \in 1..Len(new.candidates)
    BY <1>1, <1>5 DEF Request, Pcs, Pointing
  <2> QED
    BY <1>1, <1>5, <2>1, RequestUpdate
<1>6. CASE Serve(r)
  <2>1. Current(r) \in Accounts
    BY <1>6, CurrentIsAccount DEF Serve
  <2>2. cooldown' \in [Accounts -> Times] /\ accountErrors' \subseteq Accounts
    BY <1>6, <2>1, MarksTypeOK DEF Serve
  <2>3. sessions' \in [Sessions -> Pin]
    BY <1>1, <1>6, <2>1, RememberTypeOK DEF Serve, Request
  <2> QED
    BY <1>5, <1>6, <2>2, <2>3 DEF Serve, TypeOK, loginVars
<1>7. CASE ServeEmpty(r)
  <2>1. Current(r) \in Accounts
    BY <1>7, CurrentIsAccount DEF ServeEmpty
  <2>2. cooldown' \in [Accounts -> Times] /\ accountErrors' \subseteq Accounts
    BY <1>7, <2>1, MarksTypeOK DEF ServeEmpty
  <2> QED
    BY <1>5, <1>7, <2>2 DEF ServeEmpty, TypeOK, loginVars
<1>8. ASSUME NEW asked \in Asked \cup {Unsaid}, Limited(r, asked)
      PROVE  TypeInv'
  <2>1. Current(r) \in Accounts
    BY <1>8, CurrentIsAccount DEF Limited
  <2>2. cooldown' \in [Accounts -> Times] /\ accountErrors' \subseteq Accounts
    BY <1>8, <2>1, MarksTypeOK DEF Limited
  <2>3. req' \in [Requests -> Request] /\ \A q \in Requests : Pointing(q)'
    BY <1>8, AdvanceTypeInv DEF Limited
  <2> QED
    BY <1>8, <2>2, <2>3 DEF Limited, TypeOK, loginVars
<1>9. CASE Unavailable(r)
  <2>1. Current(r) \in Accounts
    BY <1>9, CurrentIsAccount DEF Unavailable
  <2>2. cooldown' \in [Accounts -> Times] /\ accountErrors' \subseteq Accounts
    BY <1>9, <2>1, MarksTypeOK DEF Unavailable
  <2>3. req' \in [Requests -> Request] /\ \A q \in Requests : Pointing(q)'
    BY <1>9, AdvanceTypeInv DEF Unavailable
  <2> QED
    BY <1>9, <2>2, <2>3 DEF Unavailable, TypeOK, loginVars
<1>10. CASE Refuse(r)
  <2> DEFINE new == [req[r] EXCEPT !.pc = "refused"]
  <2>1. new \in Request /\ new.at \in 1..Len(new.candidates)
    BY <1>1, <1>10 DEF Refuse, Request, Pcs, Pointing
  <2>2. req' = [req EXCEPT ![r] = new]
    BY <1>1, <1>10 DEF Refuse
  <2>3. req' \in [Requests -> Request] /\ \A q \in Requests : Pointing(q)'
    BY <2>1, <2>2, RequestUpdate
  <2> QED
    BY <1>10, <2>3 DEF Refuse, TypeOK, loginVars, poolVars
<1>11. CASE End(r)
  <2>1. Idle.pc = "idle"
    BY DEF Idle
  <2>2. req' \in [Requests -> Request] /\ \A q \in Requests : Pointing(q)'
    BY <1>11, <2>1, IdleIsRequest, RequestUpdate DEF End
  <2> QED
    BY <1>11, <2>2 DEF End, TypeOK, loginVars, poolVars
<1> QED
  BY <1>2, <1>3, <1>4, <1>6, <1>7, <1>8, <1>9, <1>10, <1>11 DEF Step

LEMMA AdminTypeInv ==
  ASSUME TypeInv, NEW a \in Accounts,
         \/ AddSlot(a) \/ FindSignedOut(a) \/ RemoveSlot(a)
         \/ SignIn(a) \/ FinishLogin(a) \/ SignOut(a)
  PROVE  TypeInv'
<1> USE DEF TypeInv, loginVars, poolVars
<1>0. UNCHANGED req => \A r \in Requests : Pointing(r)'
  BY DEF Pointing
<1>1. CASE AddSlot(a)
  BY <1>0, <1>1 DEF AddSlot, TypeOK
<1>2. CASE RemoveSlot(a)
  <2>1. accounts' \in Seq(Accounts)
    <3>1. PICK i \in DOMAIN accounts : accounts' = RemoveAt(accounts, i)
      BY <1>2 DEF RemoveSlot
    <3>2. accounts \in Seq(Accounts) /\ i \in 1..Len(accounts)
      BY <3>1 DEF TypeOK
    <3>3. /\ SubSeq(accounts, 1, i - 1) \in Seq(Accounts)
          /\ SubSeq(accounts, i + 1, Len(accounts)) \in Seq(Accounts)
      BY <3>2
    <3> QED
      BY <3>1, <3>3 DEF RemoveAt
  <2>2. sessions' \in [Sessions -> Pin]
    BY <1>2 DEF RemoveSlot, TypeOK, Pin, Unpinned, Times
  <2>3. cooldown' \in [Accounts -> Times]
    BY <1>2 DEF RemoveSlot, TypeOK, Times
  <2> QED
    BY <1>0, <1>2, <2>1, <2>2, <2>3 DEF RemoveSlot, TypeOK
<1>3. CASE SignIn(a)
  BY <1>0, <1>3 DEF SignIn, TypeOK
<1>4. CASE FinishLogin(a)
  <2>1. cooldown' \in [Accounts -> Times] /\ accountErrors' \subseteq Accounts
    BY <1>4, MarksTypeOK DEF FinishLogin
  <2> QED
    BY <1>0, <1>4, <2>1 DEF FinishLogin, TypeOK
<1>5. CASE SignOut(a)
  BY <1>0, <1>5 DEF SignOut, TypeOK
<1>6. CASE FindSignedOut(a)
  BY <1>0, <1>6 DEF FindSignedOut, TypeOK
<1> QED
  BY <1>1, <1>2, <1>3, <1>4, <1>5, <1>6

LEMMA NextTypeInv == TypeInv /\ [Next]_vars => TypeInv'
<1> SUFFICES ASSUME TypeInv, [Next]_vars PROVE TypeInv'
  OBVIOUS
<1>1. ASSUME NEW r \in Requests, NEW session \in Keys, Begin(r, session)
      PROVE  TypeInv'
  <2> DEFINE new == [Idle EXCEPT !.pc = "checking", !.session = session,
                                 !.unchecked = accounts]
  <2>1. new \in Request /\ new.pc = "checking"
    <3> DEFINE e1 == [Idle EXCEPT !.pc = "checking"]
               e2 == [e1 EXCEPT !.session = session]
    <3>1. session \in Sessions \cup {NoSession} /\ accounts \in Seq(Accounts)
      BY PoolAssumption DEF TypeInv, TypeOK
    <3>2. e1 \in Request /\ e1.pc = "checking"
      BY IdleIsRequest DEF Request, Pcs
    <3>3. e2 \in Request /\ e2.pc = "checking"
      BY <3>1, <3>2 DEF Request
    <3> HIDE DEF e2
    <3>4. /\ [e2 EXCEPT !.unchecked = accounts] \in Request
          /\ [e2 EXCEPT !.unchecked = accounts].pc = "checking"
      BY <3>1, <3>3 DEF Request
    <3>5. new = [e2 EXCEPT !.unchecked = accounts]
      BY DEF e2
    <3> QED
      BY <3>4, <3>5
  <2>2. req' \in [Requests -> Request] /\ \A q \in Requests : Pointing(q)'
    BY <1>1, <2>1, RequestUpdate DEF Begin
  <2> QED
    BY <1>1, <2>2 DEF Begin, TypeInv, TypeOK, loginVars, poolVars
<1>2. CASE Tick
  BY <1>2 DEF Tick, TypeInv, TypeOK, Times, Pointing, loginVars, poolVars
<1>3. CASE UNCHANGED vars
  BY <1>3 DEF vars, TypeInv, TypeOK, Pointing, loginVars, poolVars
<1> QED
  BY <1>1, <1>2, <1>3, StepTypeInv, AdminTypeInv DEF Next, RequestNext, AdminNext

\* Every variable of the pool keeps its type in every reachable state, and a
\* running request always points at one of its candidates.
THEOREM TypeCorrect == Spec => []TypeInv
<1>1. Init => TypeInv
  <2>1. Init => \A r \in Requests : Pointing(r)
    BY DEF Init, Idle, Pointing
  <2> QED
    BY <2>1, InitTypeOK DEF TypeInv
<1> QED
  BY <1>1, NextTypeInv, PTL DEF Spec

\* ... so TypeOK holds throughout.
THEOREM TypesHold == Spec => []TypeOK
<1>1. TypeInv => TypeOK
  BY DEF TypeInv
<1> QED
  BY <1>1, TypeCorrect, PTL

-----------------------------------------------------------------------------
(* Rests: how far they reach, and that no error is left without one.       *)

\* Whatever an attempt's outcome does to an account's rest and error.
LEMMA MarksKeepRests ==
  ASSUME TypeOK, RestsInOrder, NEW a \in Accounts, now' = now,
         \/ ClearAccountError(a)
         \/ MarkAccountError(a)
         \/ \E asked \in Asked \cup {Unsaid} : MarkRateLimited(a, asked)
  PROVE  RestsInOrder'
<1> USE DEF TypeOK, Times, RestsInOrder, RestIsBounded, ErrorKeepsRest
<1>1. CASE ClearAccountError(a)
  BY <1>1, SecondsAssumption DEF ClearAccountError
<1>2. CASE MarkAccountError(a)
  BY <1>2, SecondsAssumption DEF MarkAccountError
<1>3. ASSUME NEW asked \in Asked \cup {Unsaid}, MarkRateLimited(a, asked)
      PROVE  RestsInOrder'
  <2>1. Rest(asked) \in 0..MaxCooldown
    BY SecondsAssumption DEF Rest, Lesser
  <2>2. CASE Rest(asked) = 0
    BY <1>3, <2>2 DEF MarkRateLimited
  <2>3. CASE Rest(asked) # 0
    BY <1>3, <2>1, <2>3, SecondsAssumption DEF MarkRateLimited
  <2> QED
    BY <2>2, <2>3
<1> QED
  BY <1>1, <1>2, <1>3

LEMMA StepKeepsRests ==
  ASSUME TypeInv, RestsInOrder, NEW r \in Requests, Step(r)
  PROVE  RestsInOrder'
<1> USE DEF RestsInOrder, RestIsBounded, ErrorKeepsRest
<1>1. CASE Check(r) \/ NoneSignedIn(r) \/ Refuse(r) \/ End(r)
  BY <1>1 DEF Check, NoneSignedIn, Refuse, End, poolVars
<1>2. ASSUME NEW full \in SUBSET Accounts, Choose(r, full)
      PROVE  RestsInOrder'
  BY <1>2 DEF Choose
<1>3. CASE \/ Serve(r) \/ ServeEmpty(r) \/ Unavailable(r)
           \/ \E asked \in Asked \cup {Unsaid} : Limited(r, asked)
  <2>1. Current(r) \in Accounts
    BY <1>3, CurrentIsAccount DEF Serve, ServeEmpty, Unavailable, Limited
  <2>2. \/ ClearAccountError(Current(r))
        \/ MarkAccountError(Current(r))
        \/ \E asked \in Asked \cup {Unsaid} : MarkRateLimited(Current(r), asked)
    BY <1>3 DEF Serve, ServeEmpty, Unavailable, Limited
  <2>3. now' = now
    BY <1>3 DEF Serve, ServeEmpty, Unavailable, Limited
  <2> QED
    BY <2>1, <2>2, <2>3, MarksKeepRests DEF TypeInv
<1> QED
  BY <1>1, <1>2, <1>3 DEF Step

LEMMA NextKeepsRests == TypeInv /\ RestsInOrder /\ [Next]_vars => RestsInOrder'
<1> SUFFICES ASSUME TypeInv, RestsInOrder, [Next]_vars PROVE RestsInOrder'
  OBVIOUS
<1> USE DEF RestsInOrder, RestIsBounded, ErrorKeepsRest, poolVars
<1>1. ASSUME NEW r \in Requests, NEW session \in Keys, Begin(r, session)
      PROVE  RestsInOrder'
  BY <1>1 DEF Begin
<1>2. ASSUME NEW a \in Accounts,
             \/ AddSlot(a) \/ FindSignedOut(a) \/ RemoveSlot(a)
             \/ SignIn(a) \/ FinishLogin(a) \/ SignOut(a)
      PROVE  RestsInOrder'
  <2>1. CASE AddSlot(a) \/ FindSignedOut(a) \/ SignIn(a) \/ SignOut(a)
    BY <2>1 DEF AddSlot, FindSignedOut, SignIn, SignOut
  <2>2. CASE RemoveSlot(a)
    <3>1. /\ cooldown' = [cooldown EXCEPT ![a] = 0]
          /\ accountErrors' = accountErrors \ {a}
          /\ now' = now
      BY <2>2 DEF RemoveSlot
    <3> QED
      BY <3>1, SecondsAssumption DEF TypeInv, TypeOK, Times
  <2>3. CASE FinishLogin(a)
    BY <2>3, MarksKeepRests DEF FinishLogin, TypeInv
  <2> QED
    BY <1>2, <2>1, <2>2, <2>3
<1>3. CASE Tick
  BY <1>3, SecondsAssumption DEF Tick, TypeInv, TypeOK, Times
<1>4. CASE UNCHANGED vars
  BY <1>4 DEF vars
<1> QED
  BY <1>1, <1>2, <1>3, <1>4, StepKeepsRests DEF Next, RequestNext, AdminNext

LEMMA RestsHold == Spec => [](TypeInv /\ RestsInOrder)
<1>1. Init => RestsInOrder
  BY SecondsAssumption DEF Init, RestsInOrder, RestIsBounded, ErrorKeepsRest
<1>2. TypeInv /\ RestsInOrder /\ [Next]_vars => RestsInOrder'
  BY NextKeepsRests
<1> QED
  BY <1>1, <1>2, TypeCorrect, PTL DEF Spec

\* No account ever rests for longer than MaxCooldown, and one with an error on
\* record always has a rest on record too, however the outcomes of concurrent
\* requests interleave.
THEOREM RestsStayInOrder == Spec => []RestsInOrder
  BY RestsHold, PTL

-----------------------------------------------------------------------------
(* The session table.                                                      *)

\* Eviction brings a table with at most one entry too many to its limit.
LEMMA EvictedIsBounded ==
  ASSUME NEW table \in [Sessions -> Pin],
         Cardinality(PinnedIn(table)) <= SessionLimit + 1,
         NEW left \in Evicted(table)
  PROVE  Cardinality(PinnedIn(left)) <= SessionLimit
<1> DEFINE pinned == PinnedIn(table)
<1>1. IsFiniteSet(pinned) /\ Cardinality(pinned) \in Nat
  BY FiniteAssumption, FS_Subset, FS_CardinalityType DEF PinnedIn
<1>2. CASE Cardinality(pinned) <= SessionLimit
  <2>1. left = table
    BY <1>2 DEF Evicted
  <2> QED
    BY <1>2, <2>1
<1>3. CASE ~(Cardinality(pinned) <= SessionLimit)
  <2>1. PICK s \in pinned : left = [table EXCEPT ![s] = Unpinned]
    BY <1>3 DEF Evicted
  <2>2. PinnedIn(left) = pinned \ {s}
    BY <2>1 DEF PinnedIn, Unpinned
  <2>3. Cardinality(pinned \ {s}) = Cardinality(pinned) - 1
    BY <1>1, <2>1, FS_RemoveElement
  <2> QED
    BY <1>1, <2>2, <2>3, PoolAssumption
<1> QED
  BY <1>2, <1>3

\* Remembering a session adds at most one entry before the table is evicted.
LEMMA RememberKeepsBound ==
  ASSUME TypeOK, TableIsBounded, NEW session \in Sessions \cup {NoSession},
         NEW a \in Accounts, Remember(session, a)
  PROVE  TableIsBounded'
<1>1. CASE session = NoSession
  BY <1>1 DEF Remember, TableIsBounded, PinnedIn
<1>2. CASE session # NoSession
  <2> DEFINE table == [sessions EXCEPT ![session] = [account |-> a, served |-> now]]
  <2>1. table \in [Sessions -> Pin] /\ session \in Sessions
    BY <1>2 DEF TypeOK, Pin
  <2>2. PinnedIn(table) \subseteq PinnedIn(sessions) \cup {session}
    BY DEF PinnedIn
  <2>3. IsFiniteSet(PinnedIn(sessions))
    BY FiniteAssumption, FS_Subset DEF PinnedIn
  <2>4. /\ IsFiniteSet(PinnedIn(sessions) \cup {session})
        /\ Cardinality(PinnedIn(sessions) \cup {session})
             <= Cardinality(PinnedIn(sessions)) + 1
    <3>1. Cardinality(PinnedIn(sessions)) \in Nat
      BY <2>3, FS_CardinalityType
    <3> HIDE DEF table
    <3> QED
      BY <2>3, <3>1, FS_AddElement
  <2>5. Cardinality(PinnedIn(table)) <= Cardinality(PinnedIn(sessions) \cup {session})
    BY <2>2, <2>4, FS_Subset
  <2>6. /\ Cardinality(PinnedIn(table)) \in Nat
        /\ Cardinality(PinnedIn(sessions)) \in Nat
        /\ Cardinality(PinnedIn(sessions) \cup {session}) \in Nat
    BY <2>2, <2>3, <2>4, FS_Subset, FS_CardinalityType
  <2>7. Cardinality(PinnedIn(table)) <= SessionLimit + 1
    BY <2>4, <2>5, <2>6, PoolAssumption DEF TableIsBounded
  <2>8. sessions' \in Evicted(table)
    BY <1>2 DEF Remember
  <2>9. Cardinality(PinnedIn(sessions')) <= SessionLimit
    BY <2>1, <2>7, <2>8, EvictedIsBounded
  <2> QED
    BY <2>9 DEF TableIsBounded, PinnedIn
<1> QED
  BY <1>1, <1>2

LEMMA NextKeepsBound == TypeInv /\ TableIsBounded /\ [Next]_vars => TableIsBounded'
<1> SUFFICES ASSUME TypeInv, TableIsBounded, [Next]_vars PROVE TableIsBounded'
  OBVIOUS
<1>1. sessions' = sessions => TableIsBounded'
  BY DEF TableIsBounded, PinnedIn
<1>2. ASSUME NEW r \in Requests, Serve(r)
      PROVE  TableIsBounded'
  <2>1. Current(r) \in Accounts
    BY <1>2, CurrentIsAccount DEF Serve
  <2>2. req[r].session \in Sessions \cup {NoSession}
    BY DEF TypeInv, TypeOK, Request
  <2>3. Remember(req[r].session, Current(r))
    BY <1>2 DEF Serve
  <2> QED
    BY <2>1, <2>2, <2>3, RememberKeepsBound DEF TypeInv
<1>3. ASSUME NEW a \in Accounts, RemoveSlot(a)
      PROVE  TableIsBounded'
  <2>1. PinnedIn(sessions') \subseteq PinnedIn(sessions)
    BY <1>3 DEF RemoveSlot, PinnedIn, Unpinned
  <2>2. IsFiniteSet(PinnedIn(sessions))
    BY FiniteAssumption, FS_Subset DEF PinnedIn
  <2>3. /\ Cardinality(PinnedIn(sessions')) \in Nat
        /\ Cardinality(PinnedIn(sessions)) \in Nat
        /\ Cardinality(PinnedIn(sessions')) <= Cardinality(PinnedIn(sessions))
    BY <2>1, <2>2, FS_Subset, FS_CardinalityType
  <2>4. Cardinality(PinnedIn(sessions')) <= SessionLimit
    BY <2>3, PoolAssumption DEF TableIsBounded
  <2> QED
    BY <2>4 DEF TableIsBounded, PinnedIn
<1>4. ASSUME NEW r \in Requests, NEW session \in Keys, Begin(r, session)
      PROVE  sessions' = sessions
  BY <1>4 DEF Begin, poolVars
<1>5. ASSUME NEW r \in Requests, Step(r), ~Serve(r)
      PROVE  sessions' = sessions
  BY <1>5 DEF Step, Check, NoneSignedIn, Choose, ServeEmpty, Limited, Unavailable,
              Refuse, End, poolVars
<1>6. ASSUME NEW a \in Accounts,
             \/ AddSlot(a) \/ FindSignedOut(a)
             \/ SignIn(a) \/ FinishLogin(a) \/ SignOut(a)
      PROVE  sessions' = sessions
  BY <1>6 DEF AddSlot, FindSignedOut, SignIn, FinishLogin, SignOut, poolVars
<1>7. Tick \/ UNCHANGED vars => sessions' = sessions
  BY DEF Tick, vars, poolVars
<1>8. CASE RequestNext
  BY <1>1, <1>2, <1>4, <1>5, <1>8 DEF RequestNext
<1>9. CASE AdminNext
  BY <1>1, <1>3, <1>6, <1>9 DEF AdminNext
<1> QED
  BY <1>1, <1>7, <1>8, <1>9 DEF Next

\* The session table never holds more than its limit.
THEOREM TableBounded == Spec => []TableIsBounded
<1>1. Init => TableIsBounded
  <2>1. Init => PinnedIn(sessions) = {}
    BY DEF Init, PinnedIn, Unpinned
  <2>2. Cardinality({}) <= SessionLimit
    BY FS_EmptySet, PoolAssumption
  <2> QED
    BY <2>1, <2>2 DEF TableIsBounded
<1>2. TypeInv /\ TableIsBounded /\ [Next]_vars => TableIsBounded'
  BY NextKeepsBound
<1> QED
  BY <1>1, <1>2, TypeCorrect, PTL DEF Spec

-----------------------------------------------------------------------------
(***************************************************************************)
(* What the account pool promises one request.                             *)
(***************************************************************************)
\* A request's locals are touched by its own steps only.
LEMMA OnlyItself ==
  ASSUME TypeInv, [Next]_vars, NEW r \in Requests
  PROVE  \/ req'[r] = req[r]
         \/ \E session \in Keys : Begin(r, session)
         \/ Step(r)
<1>0. req \in [Requests -> Request]
  BY DEF TypeInv, TypeOK
<1>1. ASSUME NEW q \in Requests, q # r,
             (\E session \in Keys : Begin(q, session)) \/ Step(q)
      PROVE  req'[r] = req[r]
  BY <1>0, <1>1 DEF Begin, Step, Check, NoneSignedIn, Choose, Serve, ServeEmpty,
                    Limited, Unavailable, Advance, Refuse, End
<1>2. AdminNext \/ Tick \/ UNCHANGED vars => req' = req
  BY DEF AdminNext, AddSlot, FindSignedOut, RemoveSlot, SignIn, FinishLogin, SignOut, Tick, vars
<1>3. CASE RequestNext
  BY <1>1, <1>3 DEF RequestNext
<1> QED
  BY <1>2, <1>3 DEF Next

\* What an attempt does leaves the selection of the request as it was.
LEMMA AdvanceLocals ==
  ASSUME TypeInv, NEW r \in Requests, req[r].pc = "trying", Advance(r)
  PROVE  /\ req'[r].candidates = req[r].candidates
         /\ req'[r].kept = req[r].kept
         /\ req'[r].at = req[r].at + 1
         /\ req'[r].pc = IF req[r].at < Len(req[r].candidates)
                         THEN "trying" ELSE "exhausted"
BY DEF TypeInv, TypeOK, Request, Advance

-----------------------------------------------------------------------------
(* A session stays where it is.                                            *)

\* The sort puts the kept account first.
LEMMA KeptFirst ==
  ASSUME NEW available \in Seq(Accounts), available # <<>>,
         NEW session, NEW kept, NEW full,
         NEW c \in Ordering(session, available, kept, full, Eligible(available)),
         kept \in ToSet(c)
  PROVE  c[1] = kept
<1>1. /\ c \in Seq(Accounts)
      /\ Len(c) \in Nat \ {0}
      /\ \A i, j \in 1..Len(c) : i # j => c[i] # c[j]
  BY Candidates
<1>2. PICK i \in 1..Len(c) : c[i] = kept
  BY <1>1 DEF ToSet
<1>3. ASSUME i # 1 PROVE FALSE
  <2>1. 1 \in 1..Len(c) /\ 1 < i
    BY <1>1, <1>3
  <2> DEFINE choices == Eligible(available)
             order == [a \in choices |-> Order(a, session, choices, available)]
             place == [a \in choices |-> Place(a, choices, available)]
             before(a, b) == Before(a, b, kept, full, order, place)
  <2>2. before(c[1], c[i])
    BY <2>1 DEF Ordering, IsSorted
  <2>3. c[1] # kept
    BY <1>1, <1>2, <1>3, <2>1
  <2> QED
    BY <1>2, <2>2, <2>3 DEF Before
<1> QED
  BY <1>2, <1>3

StaysOnKept(r) ==
  Trying(r) /\ req[r].kept \in ToSet(req[r].candidates)
    => req[r].candidates[1] = req[r].kept

LEMMA StaysStep ==
  ASSUME TypeInv, NEW r \in Requests, StaysOnKept(r), [Next]_vars
  PROVE  StaysOnKept(r)'
<1> USE DEF StaysOnKept, Trying
<1>0. req[r] \in Request /\ req \in [Requests -> Request]
  BY DEF TypeInv, TypeOK
<1>1. CASE req'[r] = req[r]
  BY <1>1
<1>2. CASE \/ \E session \in Keys : Begin(r, session)
           \/ Check(r) \/ NoneSignedIn(r) \/ Serve(r) \/ ServeEmpty(r)
           \/ Refuse(r) \/ End(r)
  <2>1. req'[r].pc # "trying"
    <3>1. CASE \E session \in Keys : Begin(r, session)
      BY <1>0, <3>1 DEF Begin, Idle
    <3>2. CASE Check(r)
      BY <1>0, <3>2 DEF Check, Request
    <3>3. CASE NoneSignedIn(r) \/ Serve(r) \/ ServeEmpty(r) \/ Refuse(r)
      BY <1>0, <3>3 DEF NoneSignedIn, Serve, ServeEmpty, Refuse, Request
    <3>4. CASE End(r)
      BY <1>0, <3>4 DEF End, Idle
    <3> QED
      BY <1>2, <3>1, <3>2, <3>3, <3>4
  <2> QED
    BY <2>1
<1>3. ASSUME NEW full \in SUBSET Accounts, Choose(r, full)
      PROVE  StaysOnKept(r)'
  <2> DEFINE available == req[r].available
             session == req[r].session
             kept == Kept(session)
  <2>1. PICK c \in Ordering(session, available, kept, full, Eligible(available)) :
          req' = [req EXCEPT ![r] = [Idle EXCEPT !.pc = "trying",
                                                 !.session = session,
                                                 !.kept = kept,
                                                 !.candidates = c,
                                                 !.at = 1]]
    BY <1>3 DEF Choose
  <2>2. available \in Seq(Accounts) /\ available # <<>>
    BY <1>0, <1>3 DEF Choose, Request
  <2>3. kept \in ToSet(c) => c[1] = kept
    BY <2>1, <2>2, KeptFirst
  <2>4. req'[r].kept = kept /\ req'[r].candidates = c
    BY <1>0, <2>1 DEF Idle
  <2> QED
    BY <2>3, <2>4
<1>4. CASE Unavailable(r) \/ \E asked \in Asked \cup {Unsaid} : Limited(r, asked)
  <2>1. req[r].pc = "trying" /\ Advance(r)
    BY <1>4 DEF Unavailable, Limited
  <2> QED
    BY <2>1, AdvanceLocals
<1> QED
  BY <1>1, <1>2, <1>3, <1>4, OnlyItself DEF Step

\* A request whose session is on one of the candidates asks that one first.
THEOREM SessionsStay == Spec => []SessionStays
<1> DEFINE SInv == \A r \in Requests : StaysOnKept(r)
<1>1. Init => SInv
  BY DEF Init, Idle, StaysOnKept, Trying
<1>2. TypeInv /\ SInv /\ [Next]_vars => SInv'
  BY StaysStep
<1>3. SInv => SessionStays
  BY DEF SessionStays, StaysOnKept
<1> QED
  BY <1>1, <1>2, <1>3, TypeCorrect, PTL DEF Spec

-----------------------------------------------------------------------------
(* No usable account is skipped.                                           *)

\* Where a request still has, or has already heard of, its steady accounts.
Covered(r) ==
  /\ req[r].pc = "checking" =>
       steady[r] \subseteq ToSet(req[r].unchecked) \cup ToSet(req[r].available)
  /\ req[r].pc = "trying" => steady[r] \subseteq ToSet(req[r].candidates)
  /\ req[r].pc = "exhausted" => steady[r] \subseteq Refused(r)

SteadyInv == \A r \in Requests : steady[r] \subseteq Usable /\ Covered(r)

\* What is steady after a step was steady before it, or the request is new.
LEMMA SteadyShrinks ==
  ASSUME HistoryNext, NEW r \in Requests
  PROVE  /\ steady'[r] \subseteq Usable'
         /\ req[r].pc # "idle" => steady'[r] \subseteq steady[r]
BY DEF HistoryNext

\* Asking an account for its login moves it from one list to the other.
LEMMA CheckMoves ==
  ASSUME NEW unchecked \in Seq(Accounts), unchecked # <<>>,
         NEW available \in Seq(Accounts)
  PROVE  /\ ToSet(unchecked) \subseteq ToSet(Tail(unchecked)) \cup {Head(unchecked)}
         /\ ToSet(available) \subseteq ToSet(Append(available, Head(unchecked)))
         /\ Head(unchecked) \in ToSet(Append(available, Head(unchecked)))
<1>1. ASSUME NEW x \in ToSet(unchecked), x # Head(unchecked)
      PROVE  x \in ToSet(Tail(unchecked))
  <2>1. PICK i \in 1..Len(unchecked) : unchecked[i] = x
    BY DEF ToSet
  <2>2. i # 1
    BY <1>1, <2>1
  <2>3. /\ Len(Tail(unchecked)) = Len(unchecked) - 1
        /\ i - 1 \in 1..Len(Tail(unchecked))
        /\ Tail(unchecked)[i - 1] = unchecked[i]
    BY <2>1, <2>2
  <2>4. DOMAIN Tail(unchecked) = 1..Len(Tail(unchecked))
    OBVIOUS
  <2>5. i - 1 \in DOMAIN Tail(unchecked) /\ Tail(unchecked)[i - 1] = x
    BY <2>1, <2>3, <2>4
  <2> QED
    BY <2>5 DEF ToSet
<1> DEFINE longer == Append(available, Head(unchecked))
<1>2. /\ longer \in Seq(Accounts)
      /\ Len(longer) = Len(available) + 1
      /\ longer[Len(available) + 1] = Head(unchecked)
      /\ \A i \in 1..Len(available) : longer[i] = available[i]
  OBVIOUS
<1>3. /\ DOMAIN longer = 1..(Len(available) + 1)
      /\ DOMAIN available = 1..Len(available)
      /\ Len(available) \in Nat
  BY <1>2
<1> HIDE DEF longer
<1>4. Head(unchecked) \in ToSet(longer)
  BY <1>2, <1>3 DEF ToSet
<1>5. ASSUME NEW x \in ToSet(available)
      PROVE  x \in ToSet(longer)
  <2>1. PICK i \in 1..Len(available) : available[i] = x
    BY <1>3 DEF ToSet
  <2>2. i \in 1..(Len(available) + 1) /\ longer[i] = x
    BY <1>2, <1>3, <2>1
  <2> QED
    BY <1>3, <2>2 DEF ToSet
<1> QED
  BY <1>1, <1>4, <1>5 DEF longer

LEMMA CheckCovers ==
  ASSUME TypeInv, SteadyInv, NEW r \in Requests, Check(r), HistoryNext
  PROVE  Covered(r)'
<1> DEFINE unchecked == req[r].unchecked
           available == req[r].available
           a == Head(unchecked)
<1>1. req[r] \in Request /\ req \in [Requests -> Request]
  BY DEF TypeInv, TypeOK
<1>2. /\ unchecked \in Seq(Accounts) /\ unchecked # <<>>
      /\ available \in Seq(Accounts)
  BY <1>1 DEF Check, Request
<1>3. /\ req'[r].pc = "checking"
      /\ req'[r].unchecked = Tail(unchecked)
      /\ req'[r].available = IF signedIn[a] THEN Append(available, a) ELSE available
  BY <1>1 DEF Check, Request
<1>4. steady'[r] \subseteq steady[r]
  BY SteadyShrinks DEF Check
<1>5. steady[r] \subseteq ToSet(unchecked) \cup ToSet(available)
  BY DEF SteadyInv, Covered, Check
<1>6. steady[r] \subseteq {b \in Accounts : signedIn[b]}
  BY DEF SteadyInv, Usable, TypeInv, TypeOK, ToSet
<1>7. /\ ToSet(unchecked) \subseteq ToSet(Tail(unchecked)) \cup {a}
      /\ ToSet(available) \subseteq ToSet(Append(available, a))
      /\ a \in ToSet(Append(available, a))
  BY <1>2, CheckMoves
<1>8. steady'[r] \subseteq ToSet(req'[r].unchecked) \cup ToSet(req'[r].available)
  BY <1>3, <1>4, <1>5, <1>6, <1>7
<1> QED
  BY <1>3, <1>8 DEF Covered

LEMMA ChooseCovers ==
  ASSUME TypeInv, SteadyInv, NEW r \in Requests, NEW full \in SUBSET Accounts,
         Choose(r, full), HistoryNext
  PROVE  Covered(r)'
<1> DEFINE available == req[r].available
           session == req[r].session
           kept == Kept(session)
<1>0. req[r] \in Request /\ req \in [Requests -> Request]
  BY DEF TypeInv, TypeOK
<1>1. PICK c \in Ordering(session, available, kept, full, Eligible(available)) :
        req' = [req EXCEPT ![r] = [Idle EXCEPT !.pc = "trying",
                                               !.session = session,
                                               !.kept = kept,
                                               !.candidates = c,
                                               !.at = 1]]
  BY DEF Choose
<1>2. available \in Seq(Accounts) /\ available # <<>>
  BY <1>0 DEF Choose, Request
<1>3. ToSet(c) = Eligible(available)
  BY <1>1, <1>2, Candidates
<1>4. req'[r].pc = "trying" /\ req'[r].candidates = c
  BY <1>0, <1>1 DEF Idle
<1>5. steady'[r] \subseteq steady[r]
  BY SteadyShrinks DEF Choose
<1>6. steady[r] \subseteq ToSet(available)
  <2>1. req[r].pc = "checking" /\ req[r].unchecked = <<>>
    BY DEF Choose
  <2>2. ToSet(req[r].unchecked) = {}
    BY <2>1 DEF ToSet
  <2> QED
    BY <2>1, <2>2 DEF SteadyInv, Covered
<1>7. \A a \in steady[r] : Ready(a)
  BY DEF SteadyInv, Usable
<1>8. steady[r] \subseteq Eligible(available)
  BY <1>6, <1>7 DEF Eligible
<1> QED
  BY <1>3, <1>4, <1>5, <1>8 DEF Covered

\* Past its last candidate, a request has been refused by all of them.
LEMMA AdvanceCovers ==
  ASSUME TypeInv, SteadyInv, NEW r \in Requests, req[r].pc = "trying", Advance(r),
         HistoryNext
  PROVE  Covered(r)'
<1> DEFINE c == req[r].candidates
           at == req[r].at
<1>1. /\ req'[r].candidates = c
      /\ req'[r].at = at + 1
      /\ req'[r].pc = IF at < Len(c) THEN "trying" ELSE "exhausted"
  BY AdvanceLocals
<1>2. steady'[r] \subseteq ToSet(c)
  BY SteadyShrinks DEF SteadyInv, Covered
<1>3. c \in Seq(Accounts) /\ at \in 1..Len(c)
  BY DEF TypeInv, TypeOK, Request, Pointing
<1>4. CASE at < Len(c)
  BY <1>1, <1>2, <1>4 DEF Covered
<1>5. CASE ~(at < Len(c))
  <2>1. at = Len(c)
    BY <1>3, <1>5
  <2>2. Refused(r)' = {c[i] : i \in 1..at}
    BY <1>1, <1>3, <1>5 DEF Refused
  <2>3. ToSet(c) = {c[i] : i \in 1..Len(c)}
    BY <1>3 DEF ToSet
  <2>4. steady'[r] \subseteq Refused(r)'
    BY <1>2, <2>1, <2>2, <2>3
  <2> QED
    BY <1>1, <1>5, <2>4 DEF Covered
<1> QED
  BY <1>4, <1>5

LEMMA SteadyStep ==
  ASSUME TypeInv, SteadyInv, [PromiseNext]_allVars
  PROVE  SteadyInv'
<1>0. req \in [Requests -> Request]
  BY DEF TypeInv, TypeOK
<1>1. CASE UNCHANGED allVars
  BY <1>1 DEF allVars, vars, loginVars, poolVars, SteadyInv, Covered, Refused, Usable,
              Ready
<1>2. CASE PromiseNext
  <2>1. HistoryNext /\ Next
    BY <1>2 DEF PromiseNext
  <2> SUFFICES ASSUME NEW r \in Requests
               PROVE  steady'[r] \subseteq Usable' /\ Covered(r)'
    BY DEF SteadyInv
  <2>2. steady'[r] \subseteq Usable'
    BY <2>1, SteadyShrinks
  <2> SUFFICES Covered(r)'
    BY <2>2
  <2>3. CASE req'[r] = req[r]
    <3>1. CASE req[r].pc = "idle"
      BY <2>3, <3>1 DEF Covered
    <3>2. CASE req[r].pc # "idle"
      <4>1. steady'[r] \subseteq steady[r]
        BY <2>1, <3>2, SteadyShrinks
      <4>2. Refused(r)' = Refused(r)
        BY <2>3 DEF Refused
      <4> QED
        BY <2>3, <4>1, <4>2 DEF SteadyInv, Covered
    <3> QED
      BY <3>1, <3>2
  <2>4. ASSUME NEW session \in Keys, Begin(r, session)
        PROVE  Covered(r)'
    <3>1. /\ req'[r].pc = "checking" /\ req'[r].unchecked = accounts
          /\ accounts' = accounts
      BY <1>0, <2>4 DEF Begin, Idle, poolVars
    <3>2. steady'[r] \subseteq ToSet(accounts)
      BY <2>2, <3>1 DEF Usable
    <3> QED
      BY <3>1, <3>2 DEF Covered
  <2>5. CASE Check(r)
    BY <2>1, <2>5, CheckCovers
  <2>6. CASE NoneSignedIn(r)
    <3>1. steady[r] \subseteq {}
      <4>1. /\ req[r].pc = "checking"
            /\ req[r].unchecked = <<>> /\ req[r].available = <<>>
        BY <2>6 DEF NoneSignedIn
      <4>2. ToSet(<<>>) = {}
        BY DEF ToSet
      <4> QED
        BY <4>1, <4>2 DEF SteadyInv, Covered
    <3>2. steady'[r] \subseteq {}
      BY <2>1, <2>6, <3>1, SteadyShrinks DEF NoneSignedIn
    <3>3. req'[r].pc = "exhausted"
      BY <1>0, <2>6 DEF NoneSignedIn, Request
    <3> QED
      BY <3>2, <3>3 DEF Covered
  <2>7. ASSUME NEW full \in SUBSET Accounts, Choose(r, full)
        PROVE  Covered(r)'
    BY <2>1, <2>7, ChooseCovers
  <2>8. CASE Serve(r) \/ ServeEmpty(r) \/ Refuse(r)
    <3>1. req'[r].pc \in {"served", "refused"}
      BY <1>0, <2>8 DEF Serve, ServeEmpty, Refuse, Request
    <3> QED
      BY <3>1 DEF Covered
  <2>9. CASE End(r)
    <3>1. req'[r].pc = "idle"
      BY <1>0, <2>9 DEF End, Idle
    <3> QED
      BY <3>1 DEF Covered
  <2>10. CASE Unavailable(r) \/ \E asked \in Asked \cup {Unsaid} : Limited(r, asked)
    <3>1. req[r].pc = "trying" /\ Advance(r)
      BY <2>10 DEF Unavailable, Limited
    <3> QED
      BY <2>1, <3>1, AdvanceCovers
  <2> QED
    BY <2>1, <2>3, <2>4, <2>5, <2>6, <2>7, <2>8, <2>9, <2>10, OnlyItself DEF Step
<1> QED
  BY <1>1, <1>2

\* A request that ends without an answer has been refused by every account
\* that was usable for as long as it ran.
THEOREM NobodySkipped == PromiseSpec => []NoUsableAccountSkipped
<1>1. PromiseInit => TypeInv /\ SteadyInv
  <2>1. PromiseInit => \A r \in Requests : Pointing(r) /\ Covered(r)
    BY DEF PromiseInit, Init, Idle, Pointing, Covered
  <2>2. PromiseInit => \A r \in Requests : steady[r] \subseteq Usable
    BY DEF PromiseInit, HistoryInit
  <2>3. PromiseInit => TypeOK
    BY InitTypeOK DEF PromiseInit
  <2> QED
    BY <2>1, <2>2, <2>3 DEF TypeInv, SteadyInv
<1>2. TypeInv /\ SteadyInv /\ [PromiseNext]_allVars => TypeInv' /\ SteadyInv'
  <2>1. [PromiseNext]_allVars => [Next]_vars
    BY DEF PromiseNext, allVars
  <2> QED
    BY <2>1, NextTypeInv, SteadyStep
<1>3. SteadyInv => NoUsableAccountSkipped
  BY DEF SteadyInv, Covered, NoUsableAccountSkipped
<1> QED
  BY <1>1, <1>2, <1>3, PTL DEF PromiseSpec

-----------------------------------------------------------------------------
(***************************************************************************)
(* Every step of the pool is a step of Failover for one request, or changes*)
(* nothing a caller can tell.                                              *)
(***************************************************************************)
\* Before it has chosen, a request points nowhere; the accounts it has chosen
\* are all different, so the one it asks next has not refused it yet.
Fresh(r) ==
  /\ req[r].pc \in {"idle", "checking"} => req[r].at = 0
  /\ req[r].pc = "trying" =>
       \A i, j \in 1..Len(req[r].candidates) :
         i # j => req[r].candidates[i] # req[r].candidates[j]

FailoverInv == TypeInv /\ \A r \in Requests : Fresh(r)

\* What each step of a request does to what Failover sees of it.
Seen(r) == <<Phase(r), Refused(r), Server(r)>>

Opens(r) == Phase(r) = "idle" /\ Seen(r)' = <<"open", Refused(r), Server(r)>>

Gives(r) ==
  /\ Phase(r) = "open" /\ Refused(r) = {}
  /\ Seen(r)' = <<"failed", Refused(r), Server(r)>>

Moves(r) ==
  \E a \in Accounts :
    /\ Phase(r) = "open" /\ a \notin Refused(r)
    /\ Seen(r)' \in {<<"open", Refused(r) \cup {a}, Server(r)>>,
                     <<"failed", Refused(r) \cup {a}, Server(r)>>}

Serves(r) ==
  \E a \in Accounts :
    /\ Phase(r) = "open" /\ a \notin Refused(r)
    /\ Seen(r)' = <<"served", Refused(r), a>>

Ends(r) == Phase(r) # "idle" /\ Seen(r)' = <<"idle", {}, NoAccount>>

Visible(r) == Opens(r) \/ Gives(r) \/ Moves(r) \/ Serves(r) \/ Ends(r)

\* The account being asked has not refused the request.
LEMMA CurrentIsFresh ==
  ASSUME FailoverInv, NEW r \in Requests, req[r].pc = "trying"
  PROVE  /\ Current(r) \in Accounts
         /\ Current(r) \notin Refused(r)
         /\ Refused(r) \cup {Current(r)} =
              {req[r].candidates[i] : i \in 1..req[r].at}
<1> DEFINE c == req[r].candidates
           at == req[r].at
<1>1. c \in Seq(Accounts) /\ at \in 1..Len(c)
  BY DEF FailoverInv, TypeInv, TypeOK, Request, Pointing
<1>2. Refused(r) = {c[i] : i \in 1..(at - 1)}
  BY DEF Refused
<1>3. \A i \in 1..(at - 1) : c[i] # c[at]
  BY <1>1 DEF FailoverInv, Fresh
<1>4. 1..at = 1..(at - 1) \cup {at}
  BY <1>1
<1> QED
  BY <1>1, <1>2, <1>3, <1>4 DEF Current

LEMMA AdvanceMoves ==
  ASSUME FailoverInv, NEW r \in Requests, req[r].pc = "trying", Advance(r)
  PROVE  Moves(r)
<1> DEFINE c == req[r].candidates
           at == req[r].at
<1>1. at \in Nat
  BY DEF FailoverInv, TypeInv, TypeOK, Request
<1>2. /\ req'[r].candidates = c
      /\ req'[r].at = at + 1
      /\ req'[r].pc \in {"trying", "exhausted"}
  BY AdvanceLocals DEF FailoverInv
<1>3. Refused(r)' = {c[i] : i \in 1..at}
  BY <1>1, <1>2 DEF Refused
<1>4. Phase(r) = "open" /\ Server(r) = NoAccount
  BY DEF Phase, Server
<1>5. Phase(r)' \in {"open", "failed"} /\ Server(r)' = NoAccount
  BY <1>2 DEF Phase, Server
<1>6. Refused(r)' = Refused(r) \cup {Current(r)}
  BY <1>3, CurrentIsFresh
<1> QED
  BY <1>4, <1>5, <1>6, CurrentIsFresh DEF Moves, Seen

LEMMA StepIsVisible ==
  ASSUME FailoverInv, NEW r \in Requests,
         Step(r) \/ \E session \in Keys : Begin(r, session)
  PROVE  Seen(r)' = Seen(r) \/ Visible(r)
<1>0. req[r] \in Request /\ req \in [Requests -> Request] /\ Fresh(r)
  BY DEF FailoverInv, TypeInv, TypeOK
<1>1. ASSUME NEW session \in Keys, Begin(r, session)
      PROVE  Opens(r)
  <2>1. req[r].pc = "idle" /\ req[r].at = 0
    BY <1>0, <1>1 DEF Begin, Fresh
  <2>2. req'[r].pc = "checking" /\ req'[r].at = 0
    BY <1>0, <1>1 DEF Begin, Idle
  <2>3. Refused(r) = {} /\ Refused(r)' = {}
    BY <2>1, <2>2 DEF Refused
  <2> QED
    BY <2>1, <2>2, <2>3 DEF Opens, Seen, Phase, Server
<1>2. CASE Check(r)
  <2>1. /\ req[r].pc = "checking" /\ req'[r].pc = "checking"
        /\ req'[r].at = req[r].at /\ req'[r].candidates = req[r].candidates
    BY <1>0, <1>2 DEF Check, Request
  <2> QED
    BY <2>1 DEF Seen, Phase, Server, Refused
<1>3. CASE NoneSignedIn(r)
  <2>1. /\ req[r].pc = "checking" /\ req'[r].pc = "exhausted"
        /\ req[r].at = 0 /\ req'[r].at = 0
    BY <1>0, <1>3 DEF NoneSignedIn, Request, Fresh
  <2>2. Refused(r) = {} /\ Refused(r)' = {}
    BY <2>1 DEF Refused
  <2> QED
    BY <2>1, <2>2 DEF Gives, Visible, Seen, Phase, Server
<1>4. ASSUME NEW full \in SUBSET Accounts, Choose(r, full)
      PROVE  Seen(r)' = Seen(r)
  <2>1. req[r].pc = "checking" /\ req[r].at = 0
    BY <1>0, <1>4 DEF Choose, Fresh
  <2>2. req'[r].pc = "trying" /\ req'[r].at = 1
    BY <1>0, <1>4 DEF Choose, Idle
  <2>3. Refused(r) = {} /\ Refused(r)' = {}
    BY <2>1, <2>2 DEF Refused
  <2> QED
    BY <2>1, <2>2, <2>3 DEF Seen, Phase, Server
<1>5. CASE Serve(r) \/ ServeEmpty(r)
  <2>1. /\ req[r].pc = "trying" /\ req'[r].pc = "served"
        /\ req'[r].at = req[r].at /\ req'[r].candidates = req[r].candidates
    BY <1>0, <1>5 DEF Serve, ServeEmpty, Request
  <2>2. Refused(r)' = Refused(r) /\ Current(r)' = Current(r)
    BY <2>1 DEF Refused, Current
  <2>3. Phase(r) = "open" /\ Phase(r)' = "served" /\ Server(r)' = Current(r)
    BY <2>1, <2>2 DEF Phase, Server
  <2> QED
    BY <2>1, <2>2, <2>3, CurrentIsFresh DEF Serves, Visible, Seen
<1>6. CASE Unavailable(r) \/ \E asked \in Asked \cup {Unsaid} : Limited(r, asked)
  BY <1>6, AdvanceMoves DEF Unavailable, Limited, Visible
<1>7. CASE Refuse(r)
  <2>1. /\ req[r].pc = "trying" /\ req'[r].pc = "refused"
        /\ req'[r].at = req[r].at /\ req'[r].candidates = req[r].candidates
    BY <1>0, <1>7 DEF Refuse, Request
  <2>2. Refused(r)' = {req[r].candidates[i] : i \in 1..req[r].at}
    BY <2>1 DEF Refused
  <2>3. /\ Phase(r) = "open" /\ Phase(r)' = "failed"
        /\ Server(r) = NoAccount /\ Server(r)' = NoAccount
    BY <2>1 DEF Phase, Server
  <2> QED
    BY <2>1, <2>2, <2>3, CurrentIsFresh DEF Moves, Visible, Seen
<1>8. CASE End(r)
  <2>1. req[r].pc # "idle" /\ req'[r].pc = "idle" /\ req'[r].at = 0
    BY <1>0, <1>8 DEF End, Idle
  <2>2. Refused(r)' = {}
    BY <2>1 DEF Refused
  <2>3. Phase(r) # "idle"
    BY <2>1 DEF Phase
  <2> QED
    BY <2>1, <2>2, <2>3 DEF Ends, Visible, Seen, Phase, Server
<1> QED
  BY <1>1, <1>2, <1>3, <1>4, <1>5, <1>6, <1>7, <1>8 DEF Step, Visible

LEMMA FreshStep ==
  ASSUME FailoverInv, [Next]_vars, NEW r \in Requests
  PROVE  Fresh(r)'
<1>0. req[r] \in Request /\ req \in [Requests -> Request] /\ Fresh(r)
  BY DEF FailoverInv, TypeInv, TypeOK
<1>1. CASE req'[r] = req[r]
  BY <1>0, <1>1 DEF Fresh
<1>2. ASSUME NEW session \in Keys, Begin(r, session)
      PROVE  Fresh(r)'
  <2>1. req'[r].pc = "checking" /\ req'[r].at = 0
    BY <1>0, <1>2 DEF Begin, Idle
  <2> QED
    BY <2>1 DEF Fresh
<1>3. CASE Check(r)
  <2>1. req[r].pc = "checking" /\ req'[r].pc = "checking" /\ req'[r].at = req[r].at
    BY <1>0, <1>3 DEF Check, Request
  <2> QED
    BY <1>0, <2>1 DEF Fresh
<1>4. ASSUME NEW full \in SUBSET Accounts, Choose(r, full)
      PROVE  Fresh(r)'
  <2> DEFINE available == req[r].available
             session == req[r].session
             kept == Kept(session)
  <2>1. PICK c \in Ordering(session, available, kept, full, Eligible(available)) :
          req' = [req EXCEPT ![r] = [Idle EXCEPT !.pc = "trying",
                                                 !.session = session,
                                                 !.kept = kept,
                                                 !.candidates = c,
                                                 !.at = 1]]
    BY <1>4 DEF Choose
  <2>2. available \in Seq(Accounts) /\ available # <<>>
    BY <1>0, <1>4 DEF Choose, Request
  <2>3. \A i, j \in 1..Len(c) : i # j => c[i] # c[j]
    BY <2>1, <2>2, Candidates
  <2>4. req'[r].pc = "trying" /\ req'[r].candidates = c
    BY <1>0, <2>1 DEF Idle
  <2> QED
    BY <2>3, <2>4 DEF Fresh
<1>5. CASE NoneSignedIn(r) \/ Serve(r) \/ ServeEmpty(r) \/ Refuse(r)
  <2>1. req'[r].pc \in {"exhausted", "served", "refused"}
    BY <1>0, <1>5 DEF NoneSignedIn, Serve, ServeEmpty, Refuse, Request
  <2> QED
    BY <2>1 DEF Fresh
<1>6. CASE Unavailable(r) \/ \E asked \in Asked \cup {Unsaid} : Limited(r, asked)
  <2>1. req[r].pc = "trying" /\ Advance(r)
    BY <1>6 DEF Unavailable, Limited
  <2>2. /\ req'[r].candidates = req[r].candidates
        /\ req'[r].pc \in {"trying", "exhausted"}
    BY <2>1, AdvanceLocals DEF FailoverInv
  <2> QED
    BY <1>0, <2>1, <2>2 DEF Fresh
<1>7. CASE End(r)
  <2>1. req'[r].pc = "idle" /\ req'[r].at = 0
    BY <1>0, <1>7 DEF End, Idle
  <2> QED
    BY <2>1 DEF Fresh
<1> QED
  BY <1>1, <1>2, <1>3, <1>4, <1>5, <1>6, <1>7, OnlyItself DEF FailoverInv, Step

-----------------------------------------------------------------------------
(* From what one request shows to a step of Failover.                      *)

phase == [r \in Requests |-> Phase(r)]
tried == [r \in Requests |-> Refused(r)]
server == [r \in Requests |-> Server(r)]

\* A step of the pool touches what is seen of one request at most.
LEMMA OneIsSeen ==
  ASSUME FailoverInv, [Next]_vars
  PROVE  \/ \A q \in Requests : Seen(q)' = Seen(q)
         \/ \E r \in Requests :
              Visible(r) /\ \A q \in Requests \ {r} : Seen(q)' = Seen(q)
<1>0. req \in [Requests -> Request]
  BY DEF FailoverInv, TypeInv, TypeOK
<1>1. ASSUME NEW q \in Requests, req'[q] = req[q]
      PROVE  Seen(q)' = Seen(q)
  BY <1>1 DEF Seen, Phase, Refused, Server, Current
<1>2. AdminNext \/ Tick \/ UNCHANGED vars => req' = req
  BY DEF AdminNext, AddSlot, FindSignedOut, RemoveSlot, SignIn, FinishLogin, SignOut, Tick, vars
<1>3. ASSUME NEW r \in Requests,
             Step(r) \/ \E session \in Keys : Begin(r, session)
      PROVE  \A q \in Requests \ {r} : Seen(q)' = Seen(q)
  <2>1. \A q \in Requests \ {r} : req'[q] = req[q]
    BY <1>0, <1>3 DEF Begin, Step, Check, NoneSignedIn, Choose, Serve, ServeEmpty,
                      Limited, Unavailable, Advance, Refuse, End
  <2> QED
    BY <1>1, <2>1
<1>4. CASE RequestNext
  <2>1. PICK r \in Requests : Step(r) \/ \E session \in Keys : Begin(r, session)
    BY <1>4 DEF RequestNext
  <2>2. Seen(r)' = Seen(r) \/ Visible(r)
    BY <2>1, StepIsVisible
  <2>3. \A q \in Requests \ {r} : Seen(q)' = Seen(q)
    BY <1>3, <2>1
  <2> QED
    BY <2>2, <2>3
<1> QED
  BY <1>1, <1>2, <1>4 DEF Next

LEMMA VisibleIsStep ==
  ASSUME NEW r \in Requests, Visible(r),
         \A q \in Requests \ {r} : Seen(q)' = Seen(q)
  PROVE  F!Next
<1> USE DEF phase, tried, server, Seen
<1>1. CASE Opens(r)
  <2>1. /\ phase[r] = "idle" /\ phase' = [phase EXCEPT ![r] = "open"]
        /\ tried' = tried /\ server' = server
    BY <1>1 DEF Opens
  <2> QED
    BY <2>1 DEF F!Next, F!Begin
<1>2. CASE Gives(r)
  <2>1. /\ phase[r] = "open" /\ phase' = [phase EXCEPT ![r] = "failed"]
        /\ tried[r] = {} /\ tried' = tried /\ server' = server
    BY <1>2 DEF Gives
  <2> QED
    BY <2>1 DEF F!Next, F!NoneToAsk
<1>3. CASE Moves(r)
  <2>1. PICK a \in Accounts :
          /\ Phase(r) = "open" /\ a \notin Refused(r)
          /\ Seen(r)' \in {<<"open", Refused(r) \cup {a}, Server(r)>>,
                           <<"failed", Refused(r) \cup {a}, Server(r)>>}
    BY <1>3 DEF Moves
  <2>2. /\ phase[r] = "open" /\ a \notin tried[r]
        /\ tried' = [tried EXCEPT ![r] = @ \cup {a}]
        /\ server' = server
    BY <2>1
  <2>3. phase' \in {phase, [phase EXCEPT ![r] = "failed"]}
    BY <2>1
  <2> QED
    BY <2>2, <2>3 DEF F!Next, F!Refuse
<1>4. CASE Serves(r)
  <2>1. PICK a \in Accounts :
          /\ phase[r] = "open" /\ a \notin tried[r]
          /\ phase' = [phase EXCEPT ![r] = "served"]
          /\ tried' = tried
          /\ server' = [server EXCEPT ![r] = a]
    BY <1>4 DEF Serves
  <2> QED
    BY <2>1 DEF F!Next, F!Serve
<1>5. CASE Ends(r)
  <2>1. /\ phase[r] # "idle" /\ phase' = [phase EXCEPT ![r] = "idle"]
        /\ tried' = [tried EXCEPT ![r] = {}]
        /\ server' = [server EXCEPT ![r] = NoAccount]
    BY <1>5 DEF Ends
  <2> QED
    BY <2>1 DEF F!Next, F!End
<1> QED
  BY <1>1, <1>2, <1>3, <1>4, <1>5 DEF Visible

\* The failover loop implements Failover: each account is asked at most once
\* by one request, and at most one answers it.
THEOREM PoolImplementsFailover == Spec => ImplementsFailover
<1>1. Init => FailoverInv
  <2>1. Init => \A r \in Requests : Pointing(r) /\ Fresh(r)
    BY DEF Init, Idle, Pointing, Fresh
  <2> QED
    BY <2>1, InitTypeOK DEF FailoverInv, TypeInv
<1>2. FailoverInv /\ [Next]_vars => FailoverInv'
  <2>1. FailoverInv /\ [Next]_vars => TypeInv'
    BY NextTypeInv DEF FailoverInv
  <2> QED
    BY <2>1, FreshStep DEF FailoverInv
<1>3. Init => F!Init
  <2> SUFFICES ASSUME Init PROVE F!Init
    OBVIOUS
  <2>1. \A r \in Requests : req[r].pc = "idle" /\ req[r].at = 0
    BY DEF Init, Idle
  <2>2. \A r \in Requests : Phase(r) = "idle" /\ Refused(r) = {} /\ Server(r) = NoAccount
    BY <2>1 DEF Phase, Refused, Server
  <2> QED
    BY <2>2 DEF F!Init
<1>4. FailoverInv /\ [Next]_vars => [F!Next]_(F!vars)
  <2> SUFFICES ASSUME FailoverInv, [Next]_vars PROVE [F!Next]_(F!vars)
    OBVIOUS
  <2>1. CASE \A q \in Requests : Seen(q)' = Seen(q)
    BY <2>1 DEF Seen, F!vars
  <2>2. CASE \E r \in Requests :
               Visible(r) /\ \A q \in Requests \ {r} : Seen(q)' = Seen(q)
    BY <2>2, VisibleIsStep
  <2> QED
    BY <2>1, <2>2, OneIsSeen
<1> QED
  BY <1>1, <1>2, <1>3, <1>4, PTL DEF Spec, ImplementsFailover, F!Spec
=============================================================================
