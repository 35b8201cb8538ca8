------------------------------ MODULE FoldFacts ------------------------------
(***************************************************************************)
(* Facts about a fold (StreamEvents!InTurn), for one operator at a time.   *)
(* The provers cannot instantiate a theorem whose parameter is an          *)
(* operator, but a module can:                                             *)
(*   F == INSTANCE FoldFacts WITH Op <- ..., P <- ..., Q <- ...            *)
(* Induction is over sets of naturals, for the same reason.  It is a       *)
(* hypothesis of the theorems here, which EncoderProofs!SetInduction       *)
(* discharges: the module is instanced often, and brings no library along. *)
(***************************************************************************)
EXTENDS Integers, Sequences, Folds

CONSTANTS Op(_, _),  \* one step of the fold
          P(_),      \* what holds of the accumulator
          Q(_)       \* what holds of the elements

\* A set that holds 0 and, with each natural, the next, holds them all.
Induction == \A S : 0 \in S /\ (\A n \in Nat : n \in S => n + 1 \in S) => Nat \subseteq S

Max(S) == CHOOSE last \in S : \A i \in S : last >= i

\* The fold over f, as InTurn says it.
Fold(b, f) == MapThenFoldSet(LAMBDA x, acc : Op(acc, x), b, LAMBDA i : f[i], LAMBDA left : Max(left), DOMAIN f)

-----------------------------------------------------------------------------
\* The function behind a fold over f, whose elements are f[1], f[2], ...
IsFold(g, b, f, n) ==
  g = [s \in SUBSET (1..n) |-> IF s = {} THEN b ELSE Op(g[s \ {Max(s)}], f[Max(s)])]

\* The last of the indices is their maximum.
LEMMA LastIsMax ==
  ASSUME NEW n \in Nat, NEW s \in SUBSET (1..n + 1), n + 1 \in s
  PROVE  Max(s) = n + 1
<1>1. n + 1 \in s /\ \A y \in s : n + 1 >= y
  OBVIOUS
<1>2. \A x \in s : (\A y \in s : x >= y) => x = n + 1
  OBVIOUS
<1> QED
  BY <1>1, <1>2 DEF Max

\* A function that folds the first n elements exists.
LEMMA FoldExists ==
  ASSUME Induction, NEW b, NEW f, NEW n \in Nat
  PROVE  \E g : IsFold(g, b, f, n)
<1> DEFINE S == {k \in Nat : \E g : IsFold(g, b, f, k)}
<1>1. 0 \in S
  <2> DEFINE g == [s \in SUBSET (1..0) |-> b]
  <2>1. 1..0 = {} /\ SUBSET (1..0) = {{}}
    OBVIOUS
  <2>2. IsFold(g, b, f, 0)
    BY <2>1 DEF IsFold
  <2> QED
    BY <2>2
<1>2. ASSUME NEW k \in Nat, k \in S PROVE k + 1 \in S
  <2>1. PICK g : IsFold(g, b, f, k)
    BY <1>2
  <2> DEFINE R(h, s) == IF s = {} THEN b ELSE Op(h[s \ {Max(s)}], f[Max(s)])
             h == [s \in SUBSET (1..k + 1) |-> R(g, s)]
  <2>2. \A s \in SUBSET (1..k) : g[s] = R(g, s)
    BY <2>1 DEF IsFold
  <2>3. SUBSET (1..k) \subseteq SUBSET (1..k + 1)
    OBVIOUS
  <2>4. \A s \in SUBSET (1..k) : h[s] = g[s]
    BY <2>2, <2>3
  <2>5. ASSUME NEW s \in SUBSET (1..k + 1), s # {}
        PROVE  s \ {Max(s)} \in SUBSET (1..k)
    <3>0. \A i \in s : i \in 1..k \/ i = k + 1
      OBVIOUS
    <3>1. CASE k + 1 \in s
      <4>1. Max(s) = k + 1
        BY <3>1, LastIsMax
      <4> QED
        BY <3>0, <4>1
    <3>2. CASE k + 1 \notin s
      BY <3>0, <3>2
    <3> QED
      BY <3>1, <3>2
  <2>6. \A s \in SUBSET (1..k + 1) : R(g, s) = R(h, s)
    BY <2>4, <2>5
  <2>7. h = [s \in SUBSET (1..k + 1) |-> R(h, s)]
    BY <2>6
  <2>8. IsFold(h, b, f, k + 1)
    BY <2>7 DEF IsFold
  <2> QED
    BY <2>8
<1>3. Nat \subseteq S
  <2> HIDE DEF S
  <2> QED BY <1>1, <1>2 DEF Induction
<1> QED
  BY <1>3

\* The fold over f as Fold computes it.
Folding(b, f) == CHOOSE g : IsFold(g, b, f, Len(f))

\* The fold over a sequence is a function that folds its elements.
LEMMA FoldIs ==
  ASSUME Induction, NEW b, NEW T, NEW f \in Seq(T)
  PROVE  /\ Fold(b, f) = Folding(b, f)[1..Len(f)]
         /\ IsFold(Folding(b, f), b, f, Len(f))
<1>1. DOMAIN f = 1..Len(f) /\ Len(f) \in Nat
  OBVIOUS
<1>2. Fold(b, f) =
        (CHOOSE g : g = [s \in SUBSET (DOMAIN f) |->
            IF s = {} THEN b ELSE Op(g[s \ {Max(s)}], f[Max(s)])])[DOMAIN f]
  BY DEF Fold, MapThenFoldSet
<1>3. \E g : IsFold(g, b, f, Len(f))
  BY <1>1, FoldExists
<1>4. IsFold(Folding(b, f), b, f, Len(f))
  BY <1>3 DEF Folding
<1> QED
  BY <1>1, <1>2, <1>4 DEF Folding, IsFold

\* Such a function, element by element.
LEMMA IsFoldAt ==
  ASSUME NEW b, NEW f, NEW g, NEW n \in Nat, IsFold(g, b, f, n)
  PROVE  /\ g[{}] = b
         /\ g[1..0] = b
         /\ \A k \in Nat : k + 1 <= n => g[1..k + 1] = Op(g[1..k], f[k + 1])
<1>0. 1..0 = {}
  OBVIOUS
<1>1. g[{}] = b
  BY DEF IsFold
<1>2. ASSUME NEW k \in Nat, k + 1 <= n
      PROVE  g[1..k + 1] = Op(g[1..k], f[k + 1])
  <2>1. 1..k + 1 \in SUBSET (1..n) /\ 1..k + 1 # {} /\ k + 1 \in 1..k + 1
    BY <1>2
  <2>2. Max(1..k + 1) = k + 1
    BY <2>1, LastIsMax
  <2>3. (1..k + 1) \ {k + 1} = 1..k
    OBVIOUS
  <2>4. g[1..k + 1] = Op(g[(1..k + 1) \ {Max(1..k + 1)}], f[Max(1..k + 1)])
    BY <2>1 DEF IsFold
  <2> QED
    BY <2>2, <2>3, <2>4
<1> QED
  BY <1>0, <1>1, <1>2

\* Folds over sequences that agree so far agree so far.
LEMMA FoldsAgree ==
  ASSUME Induction, NEW b, NEW f, NEW n \in Nat, NEW g, IsFold(g, b, f, n),
         NEW e, NEW m \in Nat, NEW h, IsFold(h, b, e, m),
         NEW l \in Nat, l <= n, l <= m, \A i \in 1..l : f[i] = e[i]
  PROVE  g[1..l] = h[1..l]
<1> DEFINE S == {k \in Nat : k <= l => g[1..k] = h[1..k]}
<1>1. 0 \in S
  BY IsFoldAt
<1>2. ASSUME NEW k \in Nat, k \in S PROVE k + 1 \in S
  <2> SUFFICES ASSUME k + 1 <= l PROVE g[1..k + 1] = h[1..k + 1]
    OBVIOUS
  <2>1. k <= l /\ k + 1 \in 1..l /\ k + 1 <= n /\ k + 1 <= m
    OBVIOUS
  <2>2. g[1..k] = h[1..k] /\ f[k + 1] = e[k + 1]
    BY <1>2, <2>1
  <2>3. g[1..k + 1] = Op(g[1..k], f[k + 1])
    BY <2>1, IsFoldAt
  <2>4. h[1..k + 1] = Op(h[1..k], e[k + 1])
    BY <2>1, IsFoldAt
  <2> QED
    BY <2>2, <2>3, <2>4
<1>3. Nat \subseteq S
  <2> HIDE DEF S
  <2> QED BY <1>1, <1>2 DEF Induction
<1> QED
  BY <1>3

-----------------------------------------------------------------------------
\* Nothing to fold.
THEOREM FoldEmpty == ASSUME Induction PROVE \A b : Fold(b, <<>>) = b
<1> TAKE b
<1> DEFINE g == Folding(b, <<>>)
<1>1. <<>> \in Seq({}) /\ Len(<<>>) = 0 /\ 0 \in Nat
  OBVIOUS
<1>2. Fold(b, <<>>) = g[1..0] /\ IsFold(g, b, <<>>, 0)
  BY <1>1, FoldIs
<1> HIDE DEF g
<1>3. g[1..0] = b
  BY <1>1, <1>2, IsFoldAt
<1> QED
  BY <1>2, <1>3

\* One more element is one more step.
THEOREM FoldAppend ==
  ASSUME Induction
  PROVE  \A b, T : \A s \in Seq(T), e \in T : Fold(b, Append(s, e)) = Op(Fold(b, s), e)
<1> TAKE b, T
<1> TAKE s \in Seq(T), e \in T
<1> DEFINE t == Append(s, e)
           n == Len(s)
<1>1. /\ t \in Seq(T) /\ n \in Nat /\ Len(t) = n + 1 /\ t[n + 1] = e
      /\ \A i \in 1..n : t[i] = s[i]
  OBVIOUS
<1> HIDE DEF t, n
<1>2. /\ Fold(b, s) = Folding(b, s)[1..n] /\ IsFold(Folding(b, s), b, s, n)
      /\ Fold(b, t) = Folding(b, t)[1..n + 1] /\ IsFold(Folding(b, t), b, t, n + 1)
  BY <1>1, FoldIs DEF n
<1>3. Folding(b, t)[1..n + 1] = Op(Folding(b, t)[1..n], t[n + 1])
  BY <1>1, <1>2, IsFoldAt
<1>4. Folding(b, t)[1..n] = Folding(b, s)[1..n]
  <2>1. n + 1 \in Nat /\ n <= n + 1 /\ n <= n
    BY <1>1
  <2> QED
    BY <1>1, <1>2, <2>1, FoldsAgree
<1> QED
  BY <1>1, <1>2, <1>3, <1>4 DEF t

\* One element is one step.
THEOREM FoldOne == ASSUME Induction PROVE \A b, e : Fold(b, <<e>>) = Op(b, e)
<1> TAKE b, e
<1>1. <<>> \in Seq({e}) /\ e \in {e} /\ Append(<<>>, e) = <<e>>
  OBVIOUS
<1>2. Fold(b, Append(<<>>, e)) = Op(Fold(b, <<>>), e)
  <2>1. \A T : \A s \in Seq(T), f \in T : Fold(b, Append(s, f)) = Op(Fold(b, s), f)
    BY FoldAppend
  <2>2. \A s \in Seq({e}), f \in {e} : Fold(b, Append(s, f)) = Op(Fold(b, s), f)
    BY <2>1
  <2> QED BY <1>1, <2>2
<1> QED
  BY <1>1, <1>2, FoldEmpty

\* The fold over two sequences is the fold over the second after the first.
THEOREM FoldConcat ==
  ASSUME Induction
  PROVE  \A b, T : \A s \in Seq(T), t \in Seq(T) : Fold(b, s \o t) = Fold(Fold(b, s), t)
<1> TAKE b, T
<1> TAKE s \in Seq(T), t \in Seq(T)
<1> DEFINE n == Len(t)
           Upto(k) == SubSeq(t, 1, k)
           S == {k \in Nat : k <= n => Fold(b, s \o Upto(k))
                                       = Fold(Fold(b, s), Upto(k))}
<1>1. n \in Nat
  OBVIOUS
<1>2. Upto(0) = <<>> /\ Upto(n) = t
  OBVIOUS
<1>3. ASSUME NEW k \in Nat, k + 1 <= n
      PROVE  /\ Upto(k) \in Seq(T) /\ s \o Upto(k) \in Seq(T) /\ t[k + 1] \in T
             /\ Upto(k + 1) = Append(Upto(k), t[k + 1])
             /\ s \o Upto(k + 1) = Append(s \o Upto(k), t[k + 1])
  <2>1. k + 1 \in 1..n /\ k <= n
    BY <1>1, <1>3
  <2>2. Upto(k) \in Seq(T) /\ t[k + 1] \in T
    BY <2>1
  <2>3. Upto(k + 1) = Append(Upto(k), t[k + 1])
    BY <2>1
  <2>4. s \o Upto(k) \in Seq(T)
    BY <2>2
  <2>5. s \o Append(Upto(k), t[k + 1]) = Append(s \o Upto(k), t[k + 1])
    <3> HIDE DEF Upto
    <3> QED
      BY <2>2
  <2> QED
    BY <2>2, <2>3, <2>4, <2>5
<1>4. 0 \in S
  <2>1. s \o Upto(0) = s
    BY <1>2
  <2>2. Fold(Fold(b, s), Upto(0)) = Fold(b, s)
    BY <1>2, FoldEmpty
  <2> QED
    BY <2>1, <2>2
<1> HIDE DEF Upto, n
<1>5. ASSUME NEW k \in Nat, k \in S PROVE k + 1 \in S
  <2> SUFFICES ASSUME k + 1 <= n
               PROVE  Fold(b, s \o Upto(k + 1))
                      = Fold(Fold(b, s), Upto(k + 1))
    OBVIOUS
  <2>1. Fold(b, s \o Upto(k)) = Fold(Fold(b, s), Upto(k))
    BY <1>1, <1>5
  <2>2. Fold(b, Append(s \o Upto(k), t[k + 1]))
        = Op(Fold(b, s \o Upto(k)), t[k + 1])
    <3>1. s \o Upto(k) \in Seq(T) /\ t[k + 1] \in T
      BY <1>3
    <3> QED
      BY <3>1, FoldAppend
  <2>3. Fold(Fold(b, s), Append(Upto(k), t[k + 1]))
        = Op(Fold(Fold(b, s), Upto(k)), t[k + 1])
    <3>1. Upto(k) \in Seq(T) /\ t[k + 1] \in T
      BY <1>3
    <3>2. \A c : Fold(c, Append(Upto(k), t[k + 1]))
                 = Op(Fold(c, Upto(k)), t[k + 1])
      BY <3>1, FoldAppend
    <3> QED
      BY <3>2
  <2> QED
    BY <1>3, <2>1, <2>2, <2>3
<1>6. Nat \subseteq S
  <2> HIDE DEF S
  <2> QED BY <1>4, <1>5 DEF Induction
<1> QED
  BY <1>1, <1>2, <1>6

-----------------------------------------------------------------------------
\* The accumulators of a fold over f, from b to its result.
IsPath(g, b, f) == g[0] = b /\ \A n \in Nat : n + 1 <= Len(f) => g[n + 1] = Op(g[n], f[n + 1])

\* A fold goes through such accumulators.
LEMMA FoldPath ==
  ASSUME Induction, NEW b, NEW T, NEW f \in Seq(T)
  PROVE  \E g : IsPath(g, b, f) /\ Fold(b, f) = g[Len(f)]
<1> DEFINE h == Folding(b, f)
           g == [n \in Nat |-> h[1..n]]
<1>1. Fold(b, f) = h[1..Len(f)] /\ IsFold(h, b, f, Len(f)) /\ Len(f) \in Nat
  BY FoldIs
<1> HIDE DEF h
<1>2. h[1..0] = b /\ \A n \in Nat : n + 1 <= Len(f) => h[1..n + 1] = Op(h[1..n], f[n + 1])
  BY <1>1, IsFoldAt
<1>3. \A n \in Nat : g[n] = h[1..n]
  OBVIOUS
<1> HIDE DEF g
<1>4. g[0] = b
  BY <1>2, <1>3
<1>5. \A n \in Nat : n + 1 <= Len(f) => g[n + 1] = Op(g[n], f[n + 1])
  <2> SUFFICES ASSUME NEW n \in Nat, n + 1 <= Len(f) PROVE g[n + 1] = Op(g[n], f[n + 1])
    OBVIOUS
  <2>1. g[n] = h[1..n]
    BY <1>3
  <2>2. g[n + 1] = h[1..n + 1]
    BY <1>3
  <2>3. h[1..n + 1] = Op(h[1..n], f[n + 1])
    BY <1>2
  <2> QED BY <2>1, <2>2, <2>3
<1>6. g[Len(f)] = h[1..Len(f)]
  BY <1>1, <1>3
<1> QED BY <1>1, <1>4, <1>5, <1>6 DEF IsPath

\* What every step keeps, the fold keeps.
THEOREM FoldKeeps ==
  ASSUME Induction, \A a, e : P(a) /\ Q(e) => P(Op(a, e))
  PROVE  \A b, T : \A s \in Seq(T) : P(b) /\ (\A e \in T : Q(e)) => P(Fold(b, s))
<1> TAKE b, T
<1> TAKE s \in Seq(T)
<1> HAVE P(b) /\ \A e \in T : Q(e)
<1> DEFINE g == Folding(b, s)
           n == Len(s)
           S == {k \in Nat : k <= n => P(g[1..k])}
<1>1. n \in Nat /\ \A i \in 1..n : s[i] \in T
  OBVIOUS
<1>2. Fold(b, s) = g[1..n] /\ IsFold(g, b, s, n)
  BY FoldIs
<1> HIDE DEF g, n
<1>3. 0 \in S
  BY <1>1, <1>2, IsFoldAt
<1>4. ASSUME NEW k \in Nat, k \in S PROVE k + 1 \in S
  <2> SUFFICES ASSUME k + 1 <= n PROVE P(g[1..k + 1])
    OBVIOUS
  <2>1. k <= n /\ k + 1 \in 1..n
    BY <1>1
  <2>2. P(g[1..k]) /\ Q(s[k + 1])
    BY <1>1, <1>4, <2>1
  <2>3. g[1..k + 1] = Op(g[1..k], s[k + 1])
    BY <1>1, <1>2, IsFoldAt
  <2> QED
    BY <2>2, <2>3
<1>5. Nat \subseteq S
  <2> HIDE DEF S
  <2> QED BY <1>3, <1>4 DEF Induction
<1> QED
  BY <1>1, <1>2, <1>5
=============================================================================
