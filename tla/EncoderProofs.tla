---------------------------- MODULE EncoderProofs ---------------------------
(***************************************************************************)
(* What a client holds is what its encoder keeps, for any events.          *)
(*                                                                         *)
(* Each dialect relates its encoder to a client that has accepted the      *)
(* encoder's frames, shows that every operation keeps the relation, and    *)
(* joins operations as the encoder does (Then).                            *)
(*                                                                         *)
(* Messages: Sim.  The client's blocks are the blocks the encoder has      *)
(* finished and the one it holds open; between two events no search's use  *)
(* is left without its result (Good).                                      *)
(*                                                                         *)
(* Chat: SeesC.  The client's blocks are the text, the reasoning and the   *)
(* calls that the encoder keeps, and the call that is open.  Responses:    *)
(* SeesR.  The client has the encoder's items and waits for its next       *)
(* sequence number; what the encoder holds open is open at the client.     *)
(* Both hold only for events that make sense together: an argument of the  *)
(* call that is open, a search's phase after an earlier one.  Hear gathers *)
(* what a client has been told (the open call, the indices used, what was  *)
(* thought, the searches' phases), and Fit says which event may come next. *)
(*                                                                         *)
(* FoldFacts carries the three over any sequence of events (the body's     *)
(* Encode).  Sequences here have no set that all their elements are known  *)
(* to be in: IsSeq says that a value is a sequence, of whatever.           *)
(***************************************************************************)
EXTENDS Streams, FiniteSetTheorems, SequenceTheorems, TLAPS

Below == {ss \in Nat \X Nat : ss[1] < ss[2]}

\* A set that holds 0 and, with each natural, the next, holds them all.
LEMMA SetInduction == \A S : 0 \in S /\ (\A n \in Nat : n \in S => n + 1 \in S) => Nat \subseteq S
<1> SUFFICES ASSUME NEW S, 0 \in S, \A n \in Nat : n \in S => n + 1 \in S, Nat \ S # {}
             PROVE  FALSE
  OBVIOUS
<1> DEFINE T == Nat \ S
<1>1. IsWellFoundedOn(Below, Nat)
  BY NatLessThanWellFounded DEF OpToRel, Below
<1>2. \E x \in T : \A y \in T : <<y, x>> \notin Below
  <2>1. T \subseteq Nat /\ T # {}
    OBVIOUS
  <2> HIDE DEF T
  <2> QED
    BY <1>1, <2>1, WFMin, Zenon
<1>3. PICK x \in T : \A y \in T : <<y, x>> \notin Below
  BY <1>2
<1>4. x # 0 /\ x - 1 \in Nat
  OBVIOUS
<1>5. x - 1 \in S
  <2> SUFFICES ASSUME x - 1 \in T PROVE FALSE
    BY <1>4
  <2> <<x - 1, x>> \in Below
    BY <1>4 DEF Below
  <2> QED
    BY <1>3
<1> QED
  BY <1>4, <1>5

\* A sequence, of whatever elements.
IsSeq(a) == Len(a) \in Nat /\ a = [i \in 1..Len(a) |-> a[i]]
Elements(a) == {a[i] : i \in 1..Len(a)}

\* A sequence is one of its own elements.
LEMMA SeqIn == ASSUME NEW a, IsSeq(a) PROVE a \in Seq(Elements(a))
<1> DEFINE T == {a[i] : i \in 1..Len(a)}
<1>1. a \in [1..Len(a) -> T]
  BY DEF IsSeq
<1>2. Len(a) \in Nat
  BY DEF IsSeq
<1>3. T = Elements(a)
  BY DEF Elements
<1> HIDE DEF T
<1> QED BY <1>1, <1>2, <1>3

\* A sequence over a set is a sequence.
LEMMA SeqIs == ASSUME NEW T, NEW a \in Seq(T) PROVE IsSeq(a)
BY DEF IsSeq

\* Two sequences joined.
LEMMA SeqJoin ==
  ASSUME NEW a, NEW b, IsSeq(a), IsSeq(b)
  PROVE  /\ IsSeq(a \o b) /\ Len(a \o b) = Len(a) + Len(b)
         /\ \A i \in 1..Len(a) + Len(b) : (a \o b)[i] = IF i <= Len(a) THEN a[i] ELSE b[i - Len(a)]
         /\ \E T : a \in Seq(T) /\ b \in Seq(T)
<1> DEFINE T == Elements(a) \cup Elements(b)
<1>3. a \in Seq(T) /\ b \in Seq(T)
  BY SeqIn
<1> HIDE DEF T
<1>4. a \o b \in Seq(T) /\ Len(a \o b) = Len(a) + Len(b)
  BY <1>3, ConcatProperties
<1>5. \A i \in 1..Len(a) + Len(b) : (a \o b)[i] = IF i <= Len(a) THEN a[i] ELSE b[i - Len(a)]
   BY <1>3, ConcatProperties
<1>6. IsSeq(a \o b)
  BY <1>4, SeqIs
<1>7. \E U : a \in Seq(U) /\ b \in Seq(U)
  BY <1>3, Zenon
<1> QED BY <1>4, <1>5, <1>6, <1>7

\* The short sequences.
LEMMA SeqFew == IsSeq(<<>>) /\ (\A x : IsSeq(<<x>>)) /\ (\A x, y : IsSeq(<<x, y>>))
BY DEF IsSeq

\* Nothing joined to a sequence leaves it as it was.
LEMMA SeqEmptyRight == ASSUME NEW a, IsSeq(a) PROVE a \o <<>> = a
<1>1. a \in Seq(Elements(a))
  BY SeqIn
<1> QED BY <1>1

\* A sequence with one more element.
LEMMA SeqLast == ASSUME NEW a, IsSeq(a), NEW x
  PROVE /\ Len(a \o <<x>>) = Len(a) + 1 /\ (a \o <<x>>)[Len(a) + 1] = x
        /\ Append(a, x) = a \o <<x>> /\ IsSeq(a \o <<x>>)
<1> DEFINE T == Elements(a) \cup {x}
<1>1. a \in Seq(T)
  BY SeqIn
<1>2. x \in T OBVIOUS
<1> HIDE DEF T
<1>3. Append(a, x) = a \o <<x>>
  BY <1>1, <1>2
<1>4. IsSeq(a \o <<x>>) /\ Len(a \o <<x>>) = Len(a) + 1 /\ (a \o <<x>>)[Len(a) + 1] = x
  BY SeqJoin, SeqFew DEF IsSeq
<1> QED BY <1>3, <1>4

\* An element changed, an element added.
Put(p, m, y) == [p EXCEPT ![m] = y]
Longer(a, x) == a \o <<x>>

\* p is a with x as its last element, the m-th.
Ends(p, a, x, m) == p = a \o <<x>> /\ m = Len(a) + 1

\* To change the last element is to add another to what comes before it.
LEMMA SeqPut == ASSUME NEW a, IsSeq(a), NEW x, NEW y, NEW p, NEW m, Ends(p, a, x, m)
  PROVE Put(p, m, y) = Longer(a, y)
<1> DEFINE n == Len(a)
           q == a \o <<y>>
<1>1. /\ IsSeq(p) /\ Len(p) = n + 1 /\ IsSeq(q) /\ Len(q) = n + 1 /\ n \in Nat
      /\ \A i \in 1..n + 1 : p[i] = IF i <= n THEN a[i] ELSE <<x>>[i - n]
      /\ \A i \in 1..n + 1 : q[i] = IF i <= n THEN a[i] ELSE <<y>>[i - n]
  BY SeqJoin, SeqFew DEF IsSeq, Ends
<1> HIDE DEF q, n
<1>2. p = [i \in 1..n+1 |-> p[i]] /\ q = [i \in 1..n+1 |-> q[i]]
  BY <1>1 DEF IsSeq
<1>3. [p EXCEPT ![n + 1] = y] = [i \in 1..n+1 |-> IF i = n + 1 THEN y ELSE p[i]]
  BY <1>2
<1>4. \A i \in 1..n+1 : (IF i = n + 1 THEN y ELSE p[i]) = q[i]
  BY <1>1
<1> QED BY <1>2, <1>3, <1>4 DEF q, n, Put, Ends, Longer

-----------------------------------------------------------------------------
\* A Messages client's step, for a fold over frames.
TakeM(acc, fr) == LET s == acc IN Take("messages", s, fr)
Anything(x) == TRUE
TakeMFold == INSTANCE FoldFacts WITH Op <- TakeM, P <- Anything, Q <- Anything

\* The fold of FoldFacts over frames is the models' InTurn.
LEMMA TakeMFoldIs == \A c, a : TakeMFold!Fold(c, a) = InTurn(TakeM, c, a)
BY DEF InTurn, TakeMFold!Fold, MapThenFoldSet, TakeMFold!MapThenFoldSet, TakeMFold!Max

\* A client takes frames one by one.
LEMMA AcceptM ==
  /\ \A c : Accept("messages", c, <<>>) = c
  /\ \A c, fr : Accept("messages", c, <<fr>>) = MessagesAccept(c, fr)
  /\ \A c, a, b : IsSeq(a) /\ IsSeq(b) =>
       Accept("messages", c, a \o b) = Accept("messages", Accept("messages", c, a), b)
<1>0. \A c, a : Accept("messages", c, a) = InTurn(TakeM, c, a)
  BY DEF Accept, TakeM
<1>1. \A c : Accept("messages", c, <<>>) = c
  BY <1>0, TakeMFold!FoldEmpty, TakeMFoldIs, SetInduction DEF TakeMFold!Induction
<1>2. ASSUME NEW c, NEW fr PROVE Accept("messages", c, <<fr>>) = MessagesAccept(c, fr)
  <2>1. TakeM(c, fr) = MessagesAccept(c, fr)
    BY DEF TakeM, Take
  <2>2. InTurn(TakeM, c, <<fr>>) = TakeM(c, fr)
    BY TakeMFold!FoldOne, TakeMFoldIs, SetInduction DEF TakeMFold!Induction
  <2> QED BY <1>0, <2>1, <2>2
<1>3. ASSUME NEW c, NEW a, NEW b, IsSeq(a), IsSeq(b)
      PROVE Accept("messages", c, a \o b) = Accept("messages", Accept("messages", c, a), b)
  <2>1. PICK T : a \in Seq(T) /\ b \in Seq(T)
    BY <1>3, SeqJoin
  <2>2. InTurn(TakeM, c, a \o b) = InTurn(TakeM, InTurn(TakeM, c, a), b)
    BY <2>1, TakeMFold!FoldConcat, TakeMFoldIs, SetInduction DEF TakeMFold!Induction
  <2> QED BY <1>0, <2>2
<1> QED BY <1>1, <1>2, <1>3

\* The fields of the records these modules pass around.
BlockFields == {"kind", "id", "body", "sig", "cites", "st"}
EncFields == {"open", "span", "index", "blocks", "stop"}
ClientFields == {"phase", "seq", "open", "stage", "blocks", "final"}
IsBlock(b) == b = [x \in BlockFields |-> b[x]]
IsEnc(s) == s = [x \in EncFields |-> s[x]]
IsClient(c) == c = [x \in ClientFields |-> c[x]]

\* The client's view of an encoder s: what it has finished, and what is open.
Sim(s, c) ==
  /\ IsEnc(s) /\ IsSeq(s.blocks) /\ s.index \in Int
  /\ s.open = <<>> \/ \E b : IsBlock(b) /\ s.open = <<b>>
  /\ IsClient(c) /\ c.phase = "open"
  /\ c.open <=> s.open # <<>>
  /\ c.blocks = s.blocks \o s.open
  /\ Len(c.blocks) = s.index + 1

\* The frames of the outcome r bring the client c to where the encoder is;
\* fine: with no search left without its result.
Shows(c, r, fine) ==
  /\ IsSeq(r.out)
  /\ ~r.err => LET d == Accept("messages", c, r.out)
               IN  Sim(r.s, d) /\ (fine => Paired(d.blocks))

\* One operation after another.
LEMMA ShowsJoined ==
  ASSUME NEW c, NEW r, NEW w, NEW p, NEW q, Shows(c, r, p),
         ~r.err => Shows(Accept("messages", c, r.out), w, q)
  PROVE  Shows(c, M!Joined(r, w), q)
<1>1. CASE r.err
  BY <1>1 DEF Shows, M!Joined
<1>2. CASE ~r.err /\ w.err
  <2>1. M!Joined(r, w).out = <<>> /\ M!Joined(r, w).err
    BY <1>2 DEF M!Joined
  <2> QED BY <2>1, SeqFew DEF Shows
<1>3. CASE ~r.err /\ ~w.err
  <2>1. M!Joined(r, w).out = r.out \o w.out /\ M!Joined(r, w).s = w.s
    BY <1>3 DEF M!Joined
  <2>2. IsSeq(r.out) /\ IsSeq(w.out)
    BY <1>3 DEF Shows
  <2>3. Accept("messages", c, r.out \o w.out) =
        Accept("messages", Accept("messages", c, r.out), w.out)
    BY <2>2, AcceptM
  <2>4. IsSeq(r.out \o w.out)
    BY <2>2, SeqJoin
  <2> QED BY <1>3, <2>1, <2>3, <2>4 DEF Shows
<1> QED BY <1>1, <1>2, <1>3

\* An operation that sends nothing.
LEMMA ShowsNothing ==
  ASSUME NEW s, NEW c, Sim(s, c)
  PROVE  Shows(c, M!Ok(s, <<>>), Paired(c.blocks)) /\ \A p : Shows(c, M!Err(s), p)
BY AcceptM, SeqFew DEF Shows, M!Ok, M!Err

\* An operation that sends one frame.
LEMMA ShowsOne == ASSUME NEW s, NEW c, NEW fr, NEW p, Sim(s, MessagesAccept(c, fr)),
                         p => Paired(MessagesAccept(c, fr).blocks)
      PROVE Shows(c, M!Ok(s, <<fr>>), p)
BY AcceptM, SeqFew DEF Shows, M!Ok

\* The client's last block is the open one.
LEMMA SimLast ==
  ASSUME NEW s, NEW c, Sim(s, c), NEW b, s.open = <<b>>
  PROVE  /\ c.blocks[Len(c.blocks)] = b /\ IsBlock(b)
         /\ Len(c.blocks) > 0 /\ Len(c.blocks) = Len(s.blocks) + 1
         /\ IsSeq(c.blocks) /\ Len(s.blocks) \in Nat
         /\ Paired(c.blocks) <=> b.kind # "server_tool_use"
<1>1. IsSeq(s.blocks) /\ c.blocks = s.blocks \o <<b>>
  BY DEF Sim
<1>2. Len(c.blocks) = Len(s.blocks) + 1 /\ c.blocks[Len(s.blocks) + 1] = b /\ IsSeq(c.blocks)
  BY <1>1, SeqLast
<1>4. Len(s.blocks) \in Nat
  BY <1>1 DEF IsSeq
<1>3. IsBlock(b)
  BY DEF Sim
<1> QED BY <1>2, <1>3, <1>4 DEF Paired

\* The open block is finished; a call whose arguments do not parse fails.
LEMMA CloseShows ==
  ASSUME NEW s, NEW c, Sim(s, c)
  PROVE  /\ Shows(c, M!Close(s), Paired(c.blocks))
         /\ ~M!Close(s).err => /\ M!Close(s).s.open = <<>>
                              /\ Accept("messages", c, M!Close(s).out).blocks = c.blocks
<1>1. CASE s.open = <<>>
  BY <1>1, ShowsNothing, AcceptM DEF M!Close, M!Ok
<1>2. CASE s.open # <<>> /\ M!Opened(s, "tool_use") /\ ~M!Parses(s.open[1].body)
  <2>1. M!Close(s) = M!Err(s)
    BY <1>2 DEF M!Close
  <2> QED BY <2>1, ShowsNothing DEF M!Err
<1>3. CASE s.open # <<>> /\ ~(M!Opened(s, "tool_use") /\ ~M!Parses(s.open[1].body))
  <2>1. PICK b : IsBlock(b) /\ s.open = <<b>>
    BY <1>3 DEF Sim
  <2> DEFINE t == [s EXCEPT !.blocks = Append(@, s.open[1]), !.open = <<>>]
             fr == [f |-> "block_stop", i |-> s.index]
             d == [c EXCEPT !.open = FALSE]
  <2>2. M!Close(s) = M!Ok(t, <<fr>>)
    BY <1>3 DEF M!Close
  <2>3. Len(c.blocks) > 0 /\ Len(c.blocks) \in Nat
    BY <2>1, SimLast DEF IsSeq
  <2>4. MessagesAccept(c, fr) = d
    BY <1>3, <2>3 DEF MessagesAccept, Sim
  <2>5. IsEnc(t) /\ t.index = s.index /\ t.open = <<>> /\ t.blocks = Append(s.blocks, b)
    <3>1. IsEnc(s) /\ s.open[1] = b
      BY <2>1 DEF Sim
    <3> QED BY <3>1 DEF IsEnc, EncFields
  <2>6. IsClient(d) /\ d.phase = "open" /\ d.open = FALSE /\ d.blocks = c.blocks
    <3>1. IsClient(c) /\ c.phase = "open"
      BY DEF Sim
    <3> QED BY <3>1 DEF IsClient, ClientFields
  <2>7. IsSeq(t.blocks) /\ d.blocks = t.blocks \o t.open
    <3>1. IsSeq(s.blocks) /\ c.blocks = s.blocks \o <<b>>
      BY <2>1 DEF Sim
    <3>2. t.blocks = s.blocks \o <<b>> /\ IsSeq(t.blocks)
      <4> HIDE DEF t
      <4>1. Append(s.blocks, b) = s.blocks \o <<b>> /\ IsSeq(s.blocks \o <<b>>)
        BY <3>1, SeqLast
      <4> QED BY <2>5, <4>1, Zenon
    <3> QED BY <2>5, <2>6, <3>1, <3>2, SeqEmptyRight
  <2> HIDE DEF t, d, fr
  <2>8. Sim(t, d)
    BY <2>5, <2>6, <2>7 DEF Sim
  <2>9. Shows(c, M!Ok(t, <<fr>>), Paired(c.blocks))
    BY <2>4, <2>6, <2>8, ShowsOne
  <2>10. Accept("messages", c, <<fr>>) = d
    BY <2>4, AcceptM
  <2> QED BY <2>2, <2>5, <2>6, <2>9, <2>10 DEF M!Ok
<1> QED BY <1>1, <1>2, <1>3

\* A block opens when the last one is closed.
StartBlock(c, block) ==
  M!Ok([c EXCEPT !.index = @ + 1, !.open = <<block>>, !.span = 0],
       <<[f |-> "block_start", i |-> c.index + 1, block |-> block]>>)

\* OpenBlock closes what is open, then starts the block.
LEMMA OpenIs ==
  \A s, block : M!OpenBlock(s, block) = M!Joined(M!Close(s), StartBlock(M!Close(s).s, block))
BY DEF M!OpenBlock, M!Then, StartBlock

\* A block may follow: after a search's use only its result.
Fits(blocks, block) ==
  Paired(blocks) \/ (/\ block.kind = "web_search_tool_result"
                     /\ block.id = blocks[Len(blocks)].id)

\* A block starts when none is open and it may follow the last.
LEMMA StartShows ==
  ASSUME NEW s, NEW c, Sim(s, c), s.open = <<>>, NEW block, IsBlock(block), Fits(c.blocks, block)
  PROVE  Shows(c, StartBlock(s, block), block.kind # "server_tool_use")
<1> DEFINE t == [s EXCEPT !.index = @ + 1, !.open = <<block>>, !.span = 0]
           fr == [f |-> "block_start", i |-> s.index + 1, block |-> block]
           d == [c EXCEPT !.open = TRUE, !.blocks = Append(@, block)]
<1>1. IsEnc(s) /\ IsSeq(s.blocks) /\ s.index \in Int /\ c.blocks = s.blocks /\ IsClient(c)
      /\ c.phase = "open" /\ ~c.open
      /\ Len(c.blocks) = s.index + 1
  BY SeqEmptyRight DEF Sim
<1>2. MessagesAccept(c, fr) = d
  BY <1>1 DEF MessagesAccept, Fits
<1>3. IsEnc(t) /\ t.index = s.index + 1 /\ t.open = <<block>> /\ t.blocks = s.blocks
  BY <1>1 DEF IsEnc, EncFields
<1>4. IsClient(d) /\ d.phase = "open" /\ d.open = TRUE /\ d.blocks = Append(c.blocks, block)
  BY <1>1 DEF IsClient, ClientFields
<1> HIDE DEF t, d
<1>5. /\ Append(s.blocks, block) = s.blocks \o <<block>>
      /\ Len(s.blocks \o <<block>>) = Len(s.blocks) + 1
  BY <1>1, SeqLast
<1>6. d.blocks = t.blocks \o t.open /\ Len(d.blocks) = t.index + 1
  BY <1>1, <1>3, <1>4, <1>5
<1>7. Sim(t, d)
  BY <1>1, <1>3, <1>4, <1>6 DEF Sim
<1>8. block.kind # "server_tool_use" => Paired(d.blocks)
  BY <1>3, <1>7, SimLast
<1> HIDE DEF fr
<1>9. Shows(c, M!Ok(t, <<fr>>), block.kind # "server_tool_use")
  BY <1>2, <1>7, <1>8, ShowsOne
<1> QED BY <1>9 DEF StartBlock, t, fr

\* Whatever was open is closed first.
LEMMA OpenShows ==
  ASSUME NEW s, NEW c, Sim(s, c), NEW block, IsBlock(block), Fits(c.blocks, block)
  PROVE  /\ Shows(c, M!OpenBlock(s, block), block.kind # "server_tool_use")
         /\ ~M!OpenBlock(s, block).err => M!OpenBlock(s, block).s.open = <<block>>
<1> DEFINE r == M!Close(s)
           d == Accept("messages", c, r.out)
           w == StartBlock(r.s, block)
<1>1. Shows(c, r, Paired(c.blocks)) /\ (~r.err => r.s.open = <<>> /\ d.blocks = c.blocks)
  BY CloseShows
<1>2. ~r.err => Sim(r.s, d) /\ r.s.open = <<>> /\ Fits(d.blocks, block)
  BY <1>1 DEF Shows, Fits
<1> HIDE DEF r
<1>3. ~r.err => Shows(d, w, block.kind # "server_tool_use")
  BY <1>2, StartShows
<1>4. Shows(c, M!Joined(r, w), block.kind # "server_tool_use")
  BY <1>1, <1>3, ShowsJoined
<1>5. ~M!Joined(r, w).err => M!Joined(r, w).s.open = <<block>>
  <2> SUFFICES ASSUME ~M!Joined(r, w).err PROVE M!Joined(r, w).s.open = <<block>>
    OBVIOUS
  <2>1. ~r.err /\ M!Joined(r, w).s = w.s
    BY DEF M!Joined
  <2>2. IsEnc(r.s)
    BY <1>2, <2>1 DEF Sim
  <2>3. w.s.open = <<block>>
    BY <2>2 DEF StartBlock, M!Ok, IsEnc, EncFields
  <2> QED BY <2>1, <2>3
<1> QED BY <1>4, <1>5, OpenIs DEF r

\* A delta of the open block, as the encoder and the client take it.
LEMMA ExtendShows ==
  ASSUME NEW s, NEW c, Sim(s, c), NEW b, s.open = <<b>>, NEW type, type \in Deltas(b.kind), NEW x
  PROVE  /\ Shows(c, M!Extend(s, type, x), TRUE)
         /\ \E e : e.kind = b.kind /\ M!Extend(s, type, x).s.open = <<e>>
              /\ M!Extend(s, type, x).s.blocks = s.blocks
         /\ ~M!Extend(s, type, x).err
<1> DEFINE e == CASE type = "signature_delta" -> [b EXCEPT !.sig = x]
                  [] type = "citations_delta" -> [b EXCEPT !.cites = @ \o x]
                  [] OTHER -> [b EXCEPT !.body = @ \o x]
           t == [s EXCEPT !.open = <<e>>]
           n == Len(c.blocks)
           d == CASE type = "signature_delta" -> [c EXCEPT !.blocks[n].sig = x]
                  [] type = "citations_delta" -> [c EXCEPT !.blocks[n].cites = @ \o x]
                  [] OTHER                    -> [c EXCEPT !.blocks[n].body = @ \o x]
           fr == [f |-> "delta", i |-> s.index, type |-> type, x |-> x]
<1>1. /\ IsEnc(s) /\ IsSeq(s.blocks) /\ s.index \in Int /\ IsClient(c) /\ c.phase = "open" /\ c.open
      /\ Len(c.blocks) = s.index + 1 /\ c.blocks = s.blocks \o <<b>>
  BY DEF Sim
<1>2. /\ c.blocks[n] = b /\ IsBlock(b) /\ IsSeq(c.blocks)
      /\ n > 0 /\ n = Len(s.blocks) + 1 /\ n \in Nat
  BY SimLast DEF IsSeq
<1>3. b.kind \in {"text", "thinking", "tool_use"}
  BY DEF Deltas
<1>4. IsBlock(e) /\ e.kind = b.kind
  BY <1>2 DEF IsBlock, BlockFields
<1>5. IsEnc(t) /\ t.index = s.index /\ t.open = <<e>> /\ t.blocks = s.blocks
  <2> HIDE DEF e
  <2> QED BY <1>1 DEF IsEnc, EncFields
<1>6. IsClient(d) /\ d.phase = "open" /\ d.open = c.open /\ d.blocks = [c.blocks EXCEPT ![n] = e]
  BY <1>1, <1>2 DEF IsClient, ClientFields
<1>7. MessagesAccept(c, fr) = d
  <2>1. /\ fr.f = "delta" /\ fr.i = n - 1 /\ fr.type = type /\ fr.x = x
        /\ type \in Deltas(c.blocks[n].kind)
    BY <1>1, <1>2
  <2> HIDE DEF fr
  <2>2. MessagesAccept(c, fr) =
         CASE fr.type = "signature_delta" -> [c EXCEPT !.blocks[n].sig = fr.x]
                  [] fr.type = "citations_delta" -> [c EXCEPT !.blocks[n].cites = @ \o fr.x]
                  [] OTHER                       -> [c EXCEPT !.blocks[n].body = @ \o fr.x]
    BY <1>1, <1>2, <2>1, Zenon DEF MessagesAccept
  <2> QED BY <2>1, <2>2
<1>8. M!Extend(s, type, x) = M!Ok(t, <<fr>>)
  <2>1. s.open[1] = b
    OBVIOUS
  <2> QED BY <2>1 DEF M!Extend
<1> HIDE DEF e, t, d, fr
<1>9. d.blocks = s.blocks \o <<e>>
  <2>1. IsSeq(s.blocks) /\ Ends(c.blocks, s.blocks, b, n)
    BY <1>1, <1>2 DEF Ends
  <2>2. Put(c.blocks, n, e) = Longer(s.blocks, e)
    <3> HIDE DEF n
    <3> QED BY <2>1, SeqPut
  <2>3. d.blocks = Put(c.blocks, n, e)
    BY <1>6 DEF Put
  <2> QED BY <2>2, <2>3 DEF Longer
<1>10. Len(d.blocks) = t.index + 1
  BY <1>1, <1>2, <1>5, <1>9, SeqLast
<1>11. Sim(t, d)
  <2>1. \E y : IsBlock(y) /\ t.open = <<y>>
    BY <1>4, <1>5, Zenon
  <2>2. t.open # <<>>
    BY <1>5
  <2> QED BY <1>1, <1>5, <1>6, <1>9, <1>10, <2>1, <2>2 DEF Sim
<1>12. Paired(d.blocks)
  BY <1>3, <1>4, <1>5, <1>11, SimLast
<1>13. Shows(c, M!Ok(t, <<fr>>), TRUE)
  BY <1>7, <1>11, <1>12, ShowsOne
<1>14. M!Ok(t, <<fr>>).s = t /\ ~M!Ok(t, <<fr>>).err
  BY DEF M!Ok
<1>15. \E y : y.kind = b.kind /\ t.open = <<y>> /\ t.blocks = s.blocks
  BY <1>4, <1>5, Zenon
<1> QED BY <1>8, <1>13, <1>14, <1>15

\* Between two of a decoder's events.
Good(s, c) == Sim(s, c) /\ Paired(c.blocks)

\* ShowsJoined, between two events.
LEMMA ShowsThen ==
  ASSUME NEW c, NEW r, NEW w, Shows(c, r, TRUE),
         ~r.err /\ Good(r.s, Accept("messages", c, r.out))
           => Shows(Accept("messages", c, r.out), w, TRUE)
  PROVE  Shows(c, M!Joined(r, w), TRUE)
<1>1. ~r.err => Good(r.s, Accept("messages", c, r.out))
  BY DEF Shows, Good
<1> QED BY <1>1, ShowsJoined

\* Nothing sent, or an error: the client stays where the encoder is.
LEMMA ShowsSame ==
  ASSUME NEW s, NEW c, Good(s, c)
  PROVE  Shows(c, M!Ok(s, <<>>), TRUE) /\ Shows(c, M!Err(s), TRUE)
BY ShowsNothing DEF Good, Shows

\* A new block has every field.
LEMMA BlockIs ==
  \A kind, id, body : /\ IsBlock(M!Block(kind, id, body)) /\ M!Block(kind, id, body).kind = kind
                      /\ M!Block(kind, id, body).id = id
BY DEF IsBlock, BlockFields, M!Block

\* A block is opened, whatever was open before.
LEMMA OpensShows ==
  ASSUME NEW s, NEW c, Good(s, c), NEW block, IsBlock(block), block.kind # "server_tool_use"
  PROVE  Shows(c, M!OpenBlock(s, block), TRUE)
<1>1. Fits(c.blocks, block)
  BY DEF Good, Fits
<1>2. Shows(c, M!OpenBlock(s, block), block.kind # "server_tool_use")
  BY <1>1, OpenShows DEF Good
<1> QED BY <1>2 DEF Shows

\* Whatever is open is closed.
LEMMA ClosesShows ==
  ASSUME NEW s, NEW c, Good(s, c)
  PROVE  Shows(c, M!Close(s), TRUE)
<1>1. Shows(c, M!Close(s), Paired(c.blocks))
  BY CloseShows DEF Good
<1> QED BY <1>1 DEF Shows, Good

\* A block that arrives whole opens and closes.
LEMMA WholeShows ==
  ASSUME NEW s, NEW c, Good(s, c), NEW block, IsBlock(block), block.kind # "server_tool_use"
  PROVE  Shows(c, M!Whole(s, block), TRUE)
<1>1. M!Whole(s, block) = M!Joined(M!OpenBlock(s, block), M!Close(M!OpenBlock(s, block).s))
  BY DEF M!Whole, M!Then
<1>2. Shows(c, M!OpenBlock(s, block), TRUE)
  BY OpensShows
<1> QED BY <1>1, <1>2, ShowsThen, ClosesShows

\* The state after a step of one field that no client sees.
LEMMA QuietShows ==
  ASSUME NEW s, NEW c, Good(s, c), NEW x
  PROVE  /\ Good([s EXCEPT !.span = x], c) /\ [s EXCEPT !.span = x].open = s.open
         /\ Good([s EXCEPT !.stop = x], c)
<1>1. /\ IsEnc(s) /\ IsSeq(s.blocks) /\ s.index \in Int
      /\ s.open = <<>> \/ \E b : IsBlock(b) /\ s.open = <<b>>
      /\ IsClient(c) /\ c.phase = "open" /\ (c.open <=> s.open # <<>>)
      /\ c.blocks = s.blocks \o s.open
      /\ Len(c.blocks) = s.index + 1 /\ Paired(c.blocks)
  BY DEF Good, Sim
<1> DEFINE t == [s EXCEPT !.span = x]
           u == [s EXCEPT !.stop = x]
<1>2. IsEnc(t) /\ t.index = s.index /\ t.open = s.open /\ t.blocks = s.blocks
  BY <1>1 DEF IsEnc, EncFields
<1>3. IsEnc(u) /\ u.index = s.index /\ u.open = s.open /\ u.blocks = s.blocks
  BY <1>1 DEF IsEnc, EncFields
<1> HIDE DEF t, u
<1>4. Good(t, c)
  BY <1>1, <1>2 DEF Good, Sim
<1>5. Good(u, c)
  BY <1>1, <1>3 DEF Good, Sim
<1> QED BY <1>2, <1>4, <1>5 DEF t, u

\* Which kind of block is open.
LEMMA OpenedIs ==
  ASSUME NEW s, NEW b, s.open = <<b>>, NEW kind
  PROVE  M!Opened(s, kind) <=> b.kind = kind
BY DEF M!Opened

\* A text block for the span; its deltas fit it.
LEMMA TextShows ==
  ASSUME NEW s, NEW c, Good(s, c), NEW span
  PROVE  /\ Shows(c, M!Text(s, span), TRUE)
         /\ ~M!Text(s, span).err => M!Opened(M!Text(s, span).s, "text")
<1>1. CASE M!Opened(s, "text") /\ s.span = span
  <2>1. M!Text(s, span) = M!Ok(s, <<>>)
    BY <1>1 DEF M!Text
  <2>2. M!Ok(s, <<>>).s = s
    BY DEF M!Ok
  <2>3. Shows(c, M!Ok(s, <<>>), TRUE)
    BY ShowsSame
  <2> QED BY <1>1, <2>1, <2>2, <2>3
<1>2. CASE ~(M!Opened(s, "text") /\ s.span = span)
  <2> DEFINE block == M!Block("text", 0, <<>>)
             r == M!OpenBlock(s, block)
             w == M!Ok([r.s EXCEPT !.span = span], <<>>)
  <2>1. M!Text(s, span) = M!Joined(r, w)
    BY <1>2 DEF M!Text, M!Then
  <2>2. IsBlock(block) /\ block.kind = "text"
    BY BlockIs
  <2> HIDE DEF block
  <2>3. Shows(c, r, TRUE)
    BY <2>2, OpensShows
  <2>4. ~r.err => r.s.open = <<block>>
    <3>1. Fits(c.blocks, block)
      BY DEF Good, Fits
    <3> QED BY <2>2, <3>1, OpenShows DEF Good
  <2> HIDE DEF r
  <2>5. ASSUME NEW d, Good(r.s, d) PROVE Shows(d, w, TRUE)
    BY <2>5, QuietShows, ShowsSame
  <2>6. Shows(c, M!Joined(r, w), TRUE)
    BY <2>3, <2>5, ShowsThen
  <2>7. ~M!Joined(r, w).err => M!Opened(M!Joined(r, w).s, "text")
    <3> SUFFICES ASSUME ~M!Joined(r, w).err PROVE M!Opened(M!Joined(r, w).s, "text")
      OBVIOUS
    <3>1. ~r.err /\ M!Joined(r, w).s = [r.s EXCEPT !.span = span]
      BY DEF M!Joined, M!Ok
    <3>2. Good(r.s, Accept("messages", c, r.out))
      BY <2>3, <3>1 DEF Shows, Good
    <3>3. [r.s EXCEPT !.span = span].open = <<block>>
      BY <2>4, <3>1, <3>2, QuietShows
    <3>4. M!Opened([r.s EXCEPT !.span = span], "text")
      BY <2>2, <3>3, OpenedIs
    <3> QED BY <3>1, <3>4, Zenon
  <2> QED BY <2>1, <2>6, <2>7
<1> QED BY <1>1, <1>2

\* A thinking block; its deltas fit it.
LEMMA EnsureThinkingShows ==
  ASSUME NEW s, NEW c, Good(s, c)
  PROVE  /\ Shows(c, M!EnsureThinking(s), TRUE)
         /\ ~M!EnsureThinking(s).err => M!Opened(M!EnsureThinking(s).s, "thinking")
<1>1. CASE M!Opened(s, "thinking")
  BY <1>1, ShowsSame DEF M!EnsureThinking, M!Ok
<1>2. CASE ~M!Opened(s, "thinking")
  <2> DEFINE block == M!Block("thinking", 0, <<>>)
  <2>1. M!EnsureThinking(s) = M!OpenBlock(s, block)
    BY <1>2 DEF M!EnsureThinking
  <2>2. IsBlock(block) /\ block.kind = "thinking"
    BY BlockIs
  <2> HIDE DEF block
  <2>3. Fits(c.blocks, block) /\ Sim(s, c)
    BY DEF Good, Fits
  <2>4. ~M!OpenBlock(s, block).err => M!OpenBlock(s, block).s.open = <<block>>
    BY <2>2, <2>3, OpenShows
  <2>5. Shows(c, M!OpenBlock(s, block), TRUE)
    BY <2>2, OpensShows
  <2>6. ~M!OpenBlock(s, block).err => M!Opened(M!OpenBlock(s, block).s, "thinking")
    BY <2>2, <2>4, OpenedIs
  <2> QED BY <2>1, <2>5, <2>6
<1> QED BY <1>1, <1>2

\* A delta its open block allows.
LEMMA ExtendsShows ==
  ASSUME NEW s, NEW c, Good(s, c), NEW kind, M!Opened(s, kind), NEW type,
         type \in Deltas(kind), NEW x
  PROVE  Shows(c, M!Extend(s, type, x), TRUE)
<1>1. Sim(s, c) /\ s.open # <<>> /\ s.open[1].kind = kind
  BY DEF Good, M!Opened
<1>2. PICK b : IsBlock(b) /\ s.open = <<b>>
  BY <1>1 DEF Sim
<1>3. b.kind = kind
  BY <1>1, <1>2
<1> QED BY <1>1, <1>2, <1>3, ExtendShows

\* A search's use, its result, and its end.
LEMMA SearchShows ==
  ASSUME NEW s, NEW c, Good(s, c), NEW ev
  PROVE  Shows(c, M!Search(s, ev), TRUE)
<1>1. CASE ev.phase \notin {"completed", "failed"}
  BY <1>1, ShowsSame DEF M!Search
<1>2. CASE ev.phase \in {"completed", "failed"}
  <2> DEFINE use == M!Block("server_tool_use", ev.id, <<>>)
             res == M!Block("web_search_tool_result", ev.id, <<ev.phase>>)
             r == M!OpenBlock(s, use)
             d == Accept("messages", c, r.out)
             w == M!OpenBlock(r.s, res)
             p == M!Joined(r, w)
  <2>1. M!Search(s, ev) = M!Joined(p, M!Close(p.s))
    BY <1>2 DEF M!Search, M!Then
  <2>2. /\ IsBlock(use) /\ use.kind = "server_tool_use" /\ use.id = ev.id
        /\ IsBlock(res) /\ res.kind = "web_search_tool_result" /\ res.id = ev.id
    BY BlockIs
  <2> HIDE DEF use, res
  <2>3. Sim(s, c) /\ Fits(c.blocks, use)
    BY DEF Good, Fits
  <2>4. Shows(c, r, FALSE) /\ (~r.err => r.s.open = <<use>>)
    BY <2>2, <2>3, OpenShows DEF Shows
  <2>5. ~r.err => Sim(r.s, d) /\ Fits(d.blocks, res)
    BY <2>2, <2>4, SimLast DEF Shows, Fits
  <2> HIDE DEF r
  <2>6. ~r.err => Shows(d, w, TRUE)
    <3> SUFFICES ASSUME ~r.err PROVE Shows(d, w, TRUE)
      OBVIOUS
    <3>1. Shows(d, w, res.kind # "server_tool_use")
      BY <2>2, <2>5, OpenShows
    <3> QED BY <2>2, <3>1 DEF Shows
  <2> HIDE DEF w
  <2>7. Shows(c, p, TRUE)
    BY <2>4, <2>6, ShowsJoined
  <2> HIDE DEF p
  <2> QED BY <2>1, <2>7, ShowsThen, ClosesShows
<1> QED BY <1>1, <1>2

\* A citation, on the text block of its span or on the open one.
LEMMA CitationShows ==
  ASSUME NEW s, NEW c, Good(s, c), NEW ev
  PROVE  Shows(c, M!Citation(s, ev), TRUE)
<1> DEFINE w(o) == IF ev.x \in M!Range(o.open[1].cites) THEN M!Ok(o, <<>>)
                   ELSE M!Extend(o, "citations_delta", <<ev.x>>)
           r == IF ev.span = 0 THEN M!Ok(s, <<>>) ELSE M!Text(s, ev.span)
<1>1. CASE ev.span = 0 /\ ~M!Opened(s, "text")
  BY <1>1, ShowsSame DEF M!Citation
<1>2. CASE ~(ev.span = 0 /\ ~M!Opened(s, "text"))
  <2>1. M!Citation(s, ev) = M!Joined(r, w(r.s))
    BY <1>2 DEF M!Citation, M!Then
  <2>2. Shows(c, r, TRUE) /\ (~r.err => M!Opened(r.s, "text"))
    <3>1. CASE ev.span = 0
      <4>1. r = M!Ok(s, <<>>) /\ r.s = s
        BY <3>1 DEF M!Ok
      <4> HIDE DEF r
      <4> QED BY <1>2, <3>1, <4>1, ShowsSame
    <3>2. CASE ev.span # 0
      BY <3>2, TextShows
    <3> QED BY <3>1, <3>2
  <2>3. ASSUME NEW o, NEW d, Good(o, d), M!Opened(o, "text") PROVE Shows(d, w(o), TRUE)
    <3>1. Shows(d, M!Ok(o, <<>>), TRUE)
      BY <2>3, ShowsSame
    <3>2. Shows(d, M!Extend(o, "citations_delta", <<ev.x>>), TRUE)
      <4>1. "citations_delta" \in Deltas("text")
        BY DEF Deltas
      <4> QED BY <2>3, <4>1, ExtendsShows
    <3> QED BY <3>1, <3>2
  <2> HIDE DEF r, w
  <2> QED BY <2>1, <2>2, <2>3, ShowsThen
<1> QED BY <1>1, <1>2

\* A signature ends the thinking block.
LEMMA SignatureShows ==
  ASSUME NEW s, NEW c, Good(s, c), NEW x
  PROVE  LET p == M!Joined(M!EnsureThinking(s),
                           M!Extend(M!EnsureThinking(s).s, "signature_delta", x))
         IN  Shows(c, p, TRUE) /\ Shows(c, M!Joined(p, M!Close(p.s)), TRUE)
<1> DEFINE r == M!EnsureThinking(s)
           p == M!Joined(r, M!Extend(r.s, "signature_delta", x))
<1>1. Shows(c, r, TRUE) /\ (~r.err => M!Opened(r.s, "thinking"))
  BY EnsureThinkingShows
<1>2. "signature_delta" \in Deltas("thinking")
  BY DEF Deltas
<1> HIDE DEF r
<1>3. Shows(c, p, TRUE)
  BY <1>1, <1>2, ShowsThen, ExtendsShows
<1> HIDE DEF p
<1>4. Shows(c, M!Joined(p, M!Close(p.s)), TRUE)
  BY <1>3, ShowsThen, ClosesShows
<1> QED BY <1>3, <1>4 DEF p, r

\* What a decoder promises of its events: a native block is a whole block.
EventOK(ev) == ev.k = "native_block" => IsBlock(ev.block) /\ ev.block.kind # "server_tool_use"

\* Every event keeps the client with the encoder.
LEMMA OneShows ==
  ASSUME NEW s, NEW c, Good(s, c), NEW ev, EventOK(ev)
  PROVE  Shows(c, M!One(s, ev), TRUE)
<1>1. CASE ev.k = "native_item"
  BY <1>1, ShowsSame DEF M!One
<1>2. CASE ev.k = "native_block"
  BY <1>2, WholeShows DEF M!One, EventOK
<1>3. CASE ev.k = "text"
  <2> DEFINE r == M!Text(s, ev.span)
  <2>1. M!One(s, ev) = M!Joined(r, M!Extend(r.s, "text_delta", <<ev.x>>))
    BY <1>3 DEF M!One, M!Then
  <2>2. Shows(c, r, TRUE) /\ (~r.err => M!Opened(r.s, "text"))
    BY TextShows
  <2>3. "text_delta" \in Deltas("text")
    BY DEF Deltas
  <2> HIDE DEF r
  <2> QED BY <2>1, <2>2, <2>3, ShowsThen, ExtendsShows
<1>4. CASE ev.k = "thinking"
  <2> DEFINE r == M!EnsureThinking(s)
  <2>1. M!One(s, ev) = M!Joined(r, M!Extend(r.s, "thinking_delta", ev.x))
    BY <1>4 DEF M!One, M!Then
  <2>2. Shows(c, r, TRUE) /\ (~r.err => M!Opened(r.s, "thinking"))
    BY EnsureThinkingShows
  <2>3. "thinking_delta" \in Deltas("thinking")
    BY DEF Deltas
  <2> HIDE DEF r
  <2> QED BY <2>1, <2>2, <2>3, ShowsThen, ExtendsShows
<1>5. CASE ev.k = "signature"
  <2> DEFINE r == M!EnsureThinking(s)
             p == M!Joined(r, M!Extend(r.s, "signature_delta", <<ev.sig>>))
  <2>1. M!One(s, ev) = M!Joined(p, M!Close(p.s))
    BY <1>5 DEF M!One, M!Then
  <2> QED BY <2>1, SignatureShows
<1>6. CASE ev.k = "redacted"
  <2> DEFINE block == [M!Block("redacted_thinking", 0, <<>>) EXCEPT !.sig = <<ev.data>>]
  <2>1. M!One(s, ev) = M!Whole(s, block)
    BY <1>6 DEF M!One
  <2>2. IsBlock(block) /\ block.kind = "redacted_thinking"
    <3>1. IsBlock(M!Block("redacted_thinking", 0, <<>>))
          /\ M!Block("redacted_thinking", 0, <<>>).kind = "redacted_thinking"
      BY BlockIs
    <3> QED BY <3>1 DEF IsBlock, BlockFields
  <2> HIDE DEF block
  <2> QED BY <2>1, <2>2, WholeShows
<1>7. CASE ev.k = "call_start"
  <2> DEFINE block == M!Block("tool_use", ev.id, <<>>)
             r == M!OpenBlock(s, block)
             w == IF ev.args = <<>> THEN M!Ok(r.s, <<>>)
                  ELSE M!Extend(r.s, "input_json_delta", ev.args)
  <2>1. M!One(s, ev) = M!Joined(r, w)
    BY <1>7 DEF M!One, M!Then
  <2>2. IsBlock(block) /\ block.kind = "tool_use"
    BY BlockIs
  <2> HIDE DEF block
  <2>3. Fits(c.blocks, block) /\ Sim(s, c)
    BY DEF Good, Fits
  <2>4. Shows(c, r, TRUE) /\ (~r.err => M!Opened(r.s, "tool_use"))
    <3>1. ~r.err => r.s.open = <<block>>
      BY <2>2, <2>3, OpenShows
    <3>2. ~r.err => M!Opened(r.s, "tool_use")
      BY <2>2, <3>1, OpenedIs
    <3> QED BY <2>2, <3>2, OpensShows
  <2>5. "input_json_delta" \in Deltas("tool_use")
    BY DEF Deltas
  <2> HIDE DEF r
  <2>6. ~r.err /\ Good(r.s, Accept("messages", c, r.out))
        => Shows(Accept("messages", c, r.out), w, TRUE)
    BY <2>4, <2>5, ShowsSame, ExtendsShows
  <2> HIDE DEF w
  <2> QED BY <2>1, <2>4, <2>6, ShowsThen
<1>8. CASE ev.k = "call_args"
  <2>1. "input_json_delta" \in Deltas("tool_use")
    BY DEF Deltas
  <2> QED BY <1>8, <2>1, ShowsSame, ExtendsShows DEF M!One
<1>9. CASE ev.k = "call_end"
  BY <1>9, ClosesShows DEF M!One
<1>10. CASE ev.k = "hosted"
  BY <1>10, SearchShows DEF M!One
<1>11. CASE ev.k = "cite"
  BY <1>11, CitationShows DEF M!One
<1>12. CASE ev.k = "finish"
  BY <1>12, QuietShows, ShowsSame DEF M!One
<1>13. CASE ev.k \notin {"native_item", "native_block", "text", "thinking", "signature", "redacted",
                         "call_start", "call_args", "call_end", "hosted", "cite", "finish"}
  BY <1>13, ShowsSame DEF M!One
<1> QED BY <1>1, <1>2, <1>3, <1>4, <1>5, <1>6, <1>7, <1>8, <1>9, <1>10, <1>11, <1>12, <1>13

\* The fold over events (Encode), and what it keeps.
StepM(r, ev) == M!Then(r, LAMBDA s : M!One(s, ev))
ShownM(r) == Shows(client, r, TRUE)
StepMFold == INSTANCE FoldFacts WITH Op <- StepM, P <- ShownM, Q <- EventOK

\* One event more, after whatever was sent before.
LEMMA StepShows ==
  ASSUME NEW c, NEW r, Shows(c, r, TRUE), NEW ev, EventOK(ev)
  PROVE  Shows(c, M!Joined(r, M!One(r.s, ev)), TRUE)
BY ShowsThen, OneShows

AllOK(out) == IsSeq(out) /\ \A i \in 1..Len(out) : EventOK(out[i])

\* Any events keep the client with the encoder.
LEMMA EncodeShowsM ==
  ASSUME Good(enc, client), NEW out, AllOK(out)
  PROVE  Shows(client, M!Encode(enc, out, M!One), TRUE)
<1>1. \A a, e : ShownM(a) /\ EventOK(e) => ShownM(StepM(a, e))
  BY StepShows DEF ShownM, StepM, M!Then
<1>2. \A b, T : \A s \in Seq(T) : ShownM(b) /\ (\A e \in T : EventOK(e))
      => ShownM(StepMFold!Fold(b, s))
  BY <1>1, StepMFold!FoldKeeps, SetInduction DEF StepMFold!Induction
<1>3. ShownM(M!Ok(enc, <<>>))
  BY ShowsSame DEF ShownM
<1>4. out \in Seq(Elements(out)) /\ \A e \in Elements(out) : EventOK(e)
  BY SeqIn DEF AllOK, Elements
<1>5. ShownM(StepMFold!Fold(M!Ok(enc, <<>>), out))
  BY <1>2, <1>3, <1>4
<1>6. StepMFold!Fold(M!Ok(enc, <<>>), out) = M!InTurn(StepM, M!Ok(enc, <<>>), out)
  BY DEF M!InTurn, StepMFold!Fold, M!MapThenFoldSet, StepMFold!MapThenFoldSet, StepMFold!Max
<1>7. M!InTurn(StepM, M!Ok(enc, <<>>), out) = M!Encode(enc, out, M!One)
  BY DEF StepM, M!Encode
<1> QED BY <1>5, <1>6, <1>7 DEF ShownM

\* The end of an answer gives the client the encoder's blocks as its answer.
LEMMA FinishShowsM ==
  ASSUME Good(enc, client), NEW out, AllOK(out)
  PROVE  LET r == M!Finish(enc, out)
             d == Accept("messages", client, r.out)
         IN  /\ IsSeq(r.out)
             /\ ~r.err => d.phase = "over" /\ d.blocks = r.s.blocks /\ d.final = r.s.blocks
<1> DEFINE q == M!Encode(enc, out, M!One)
           p == M!Joined(q, M!Close(q.s))
           f1 == [f |-> "message_delta", reason |-> M!Stop(p.s)]
           f2 == [f |-> "message_stop"]
           w == M!Ok(p.s, <<f1, f2>>)
           r == M!Joined(p, w)
<1>1. M!Finish(enc, out) = r
  BY DEF M!Finish, M!Then
<1>2. Shows(client, q, TRUE)
  BY EncodeShowsM
<1> HIDE DEF q
<1>3. Shows(client, p, TRUE)
  BY <1>2, ShowsThen, ClosesShows
<1>4. ~p.err => p.s.open = <<>>
  <2> SUFFICES ASSUME ~p.err PROVE p.s.open = <<>>
    OBVIOUS
  <2>1. ~q.err /\ ~M!Close(q.s).err /\ p.s = M!Close(q.s).s
    BY DEF M!Joined
  <2>2. Sim(q.s, Accept("messages", client, q.out))
    BY <1>2, <2>1 DEF Shows
  <2> QED BY <2>1, <2>2, CloseShows
<1> DEFINE d == Accept("messages", client, p.out)
           a == MessagesAccept(d, f1)
           e == MessagesAccept(a, f2)
<1> HIDE DEF p
<1>5. CASE p.err
  <2>1. r = p
    BY <1>5 DEF M!Joined
  <2> QED BY <1>1, <1>3, <1>5, <2>1 DEF Shows
<1>6. CASE ~p.err
  <2>1. IsSeq(p.out) /\ Sim(p.s, d) /\ Paired(d.blocks)
    BY <1>3, <1>6 DEF Shows
  <2>2. IsClient(d) /\ d.phase = "open" /\ ~d.open /\ d.blocks = p.s.blocks
    BY <1>4, <1>6, <2>1, SeqEmptyRight DEF Sim
  <2>3. a = Into(d, "reason")
    BY <2>1, <2>2 DEF MessagesAccept
  <2>4. IsClient(a) /\ a.phase = "reason" /\ a.blocks = p.s.blocks
    BY <2>2, <2>3 DEF Into, IsClient, ClientFields
  <2> HIDE DEF a
  <2>5. e = [Into(a, "over") EXCEPT !.final = a.blocks]
    BY <2>4 DEF MessagesAccept
  <2>6. e.phase = "over" /\ e.blocks = p.s.blocks /\ e.final = p.s.blocks
    BY <2>4, <2>5 DEF Into, IsClient, ClientFields
  <2>7. r.out = p.out \o <<f1, f2>> /\ r.s = p.s
    BY <1>6 DEF M!Joined, M!Ok
  <2>8. Accept("messages", client, r.out) = e
    <3>1. IsSeq(<<f1>>) /\ IsSeq(<<f2>>) /\ IsSeq(<<f1, f2>>)
      BY SeqFew
    <3>2. <<f1, f2>> = <<f1>> \o <<f2>>
      OBVIOUS
    <3> DEFINE g == <<f1, f2>>
    <3>3. Accept("messages", client, p.out \o g) = Accept("messages", d, g)
      BY <2>1, <3>1, AcceptM
    <3>4. Accept("messages", d, <<f1>> \o <<f2>>) =
          Accept("messages", Accept("messages", d, <<f1>>), <<f2>>)
      BY <3>1, AcceptM
    <3>5. Accept("messages", d, <<f1>>) = a /\ Accept("messages", a, <<f2>>) = e
      BY AcceptM DEF a
    <3> QED BY <2>7, <3>2, <3>3, <3>4, <3>5
  <2>9. IsSeq(r.out)
    BY <2>1, <2>7, SeqFew, SeqJoin
  <2> QED BY <1>1, <2>6, <2>7, <2>8, <2>9
<1> QED BY <1>5, <1>6

-----------------------------------------------------------------------------
\* What a client has been told so far, and whether all of it fitted: the call
\* that is open, the indices of all calls, the reasoning that no item has
\* closed, and the phase of each search.
HeardFields == {"ok", "call", "used", "think", "phase"}
IsHeard(k) == k = [x \in HeardFields |-> k[x]]
Unheard == [ok |-> "yes", call |-> <<>>, used |-> {}, think |-> <<>>, phase |-> <<>>]
Fine(k) == k.ok = "yes"

\* The event fits what was heard before.
Fit(k, ev) ==
  CASE ev.k = "thinking"     -> IsSeq(ev.x) /\ ev.x # <<>>
    [] ev.k = "reasoning"    -> /\ IsBlock(ev.item) /\ ev.item.kind = "reasoning" /\ ev.item.cites = <<>>
                                /\ k.think # <<>> => ev.item.body = k.think[1].text
    [] ev.k = "native_item"  -> IsBlock(ev.item) /\ ev.item.kind = "native"
    [] ev.k = "native_block" -> EventOK(ev)
    [] ev.k = "call_start"   -> k.call = <<>> /\ ev.index \notin k.used /\ IsSeq(ev.args)
    [] ev.k = "call_args"    -> k.call # <<>> /\ ev.index = k.call[1].index
    [] ev.k = "call_end"     -> k.call = <<[index |-> ev.index, id |-> ev.id, args |-> ev.args]>>
    [] ev.k = "hosted"       -> Advances(k.phase, ev.id, ev.phase)
    [] OTHER                 -> TRUE

\* Reasoning that is open for the client: what an event adds to it.
Thought(k, ev) ==
  CASE ev.k = "thinking" ->
         IF k.think # <<>> /\ k.think[1].item = ev.item
         THEN <<[item |-> ev.item, text |-> k.think[1].text \o ev.x]>>
         ELSE <<[item |-> ev.item, text |-> ev.x]>>
    [] ev.k \in {"reasoning", "native_item", "text", "call_start"} -> <<>>
    [] ev.k = "hosted" -> IF ev.id \in DOMAIN k.phase THEN k.think ELSE <<>>
    [] OTHER -> k.think

\* The call that is open.
Called(k, ev) ==
  CASE ev.k = "call_start" -> <<[index |-> ev.index, id |-> ev.id, args |-> ev.args]>>
    [] ev.k = "call_args"  -> <<[index |-> k.call[1].index, id |-> k.call[1].id,
                                 args |-> Append(k.call[1].args, ev.x)]>>
    [] ev.k = "call_end"   -> <<>>
    [] OTHER               -> k.call

\* What has been told after one event more.
Hear(k, ev) ==
  [ok    |-> IF k.ok = "yes" /\ Fit(k, ev) THEN "yes" ELSE "no",
   call  |-> Called(k, ev),
   used  |-> IF ev.k = "call_start" THEN k.used \cup {ev.index} ELSE k.used,
   think |-> Thought(k, ev),
   phase |-> IF ev.k = "hosted" THEN With(k.phase, ev.id, ev.phase) ELSE k.phase]

-----------------------------------------------------------------------------
(* Chat. *)
ChunkFields == {"content", "reasoning", "calls", "positions", "cites", "stop", "usage"}
IsChunk(s) == s = [x \in ChunkFields |-> s[x]]
\* A sequence with an element appended.
LEMMA SeqAdd ==
  ASSUME NEW a, IsSeq(a), NEW x
  PROVE  /\ IsSeq(Append(a, x)) /\ Len(Append(a, x)) = Len(a) + 1
         /\ Append(a, x)[Len(a) + 1] = x
         /\ \A j \in 1..Len(a) : Append(a, x)[j] = a[j]
         /\ Append(a, x) # <<>>
<1>1. a \in Seq(Elements(a) \cup {x})
  <2>1. a \in Seq(Elements(a))
    BY SeqIn
  <2> QED BY <2>1
<1> DEFINE T == Elements(a) \cup {x}
<1> HIDE DEF T
<1>2. a \in Seq(T) /\ x \in T
  BY <1>1 DEF T
<1>3. Append(a, x) \in Seq(T)
  BY <1>2
<1>4. IsSeq(Append(a, x))
  BY <1>3, SeqIs
<1>5. /\ Len(Append(a, x)) = Len(a) + 1
      /\ Append(a, x)[Len(a) + 1] = x
      /\ \A j \in 1..Len(a) : Append(a, x)[j] = a[j]
  BY <1>2
<1>6. Append(a, x) # <<>>
  BY <1>2, <1>5
<1> QED BY <1>4, <1>5, <1>6

\* A sequence with one element replaced.
LEMMA SeqSet ==
  ASSUME NEW a, IsSeq(a), NEW m \in 1..Len(a), NEW y
  PROVE  /\ IsSeq([a EXCEPT ![m] = y]) /\ Len([a EXCEPT ![m] = y]) = Len(a)
         /\ [a EXCEPT ![m] = y][m] = y
         /\ \A j \in 1..Len(a) : j # m => [a EXCEPT ![m] = y][j] = a[j]
<1>1. PICK T : a \in Seq(T) /\ y \in T
  <2>1. a \in Seq(Elements(a) \cup {y})
    BY SeqIn
  <2> QED BY <2>1
<1> DEFINE b == [a EXCEPT ![m] = y]
<1>2. b \in Seq(T) /\ Len(b) = Len(a) /\ b[m] = y
  BY <1>1
<1>3. \A j \in 1..Len(a) : j # m => b[j] = a[j]
  BY <1>1
<1>4. IsSeq(b)
  BY <1>2, SeqIs
<1> HIDE DEF b
<1> QED BY <1>2, <1>3, <1>4 DEF b


\* Blocks that hold a text, a reasoning, the calls and at most one more.
Holds(b, t, r, a, p) ==
  /\ IsSeq(b) /\ IsSeq(a) /\ IsSeq(p) /\ Len(b) = 2 + Len(a) + Len(p)
  /\ b[1] = t /\ b[2] = r
  /\ \A j \in 1..Len(a) : b[2 + j] = a[j]
  /\ \A j \in 1..Len(p) : b[2 + Len(a) + j] = p[j]

\* The text or the reasoning block replaced.
LEMMA HoldsFirst ==
  ASSUME NEW b, NEW t, NEW r, NEW a, NEW p, Holds(b, t, r, a, p), NEW x
  PROVE  /\ Holds([b EXCEPT ![1] = x], x, r, a, p) /\ Holds([b EXCEPT ![2] = x], t, x, a, p)
<1>1. IsSeq(b) /\ Len(b) \in Nat /\ Len(a) \in Nat /\ Len(p) \in Nat /\ 1 \in 1..Len(b) /\ 2 \in 1..Len(b)
  BY DEF Holds, IsSeq
<1> DEFINE d == [b EXCEPT ![1] = x]
           e == [b EXCEPT ![2] = x]
<1>2. IsSeq(d) /\ Len(d) = Len(b) /\ d[1] = x /\ \A j \in 1..Len(b) : j # 1 => d[j] = b[j]
  BY <1>1, SeqSet
<1>3. IsSeq(e) /\ Len(e) = Len(b) /\ e[2] = x /\ \A j \in 1..Len(b) : j # 2 => e[j] = b[j]
  BY <1>1, SeqSet, SMTT(30)
<1> HIDE DEF d, e
<1>4. Holds(d, x, r, a, p)
  BY <1>1, <1>2 DEF Holds
<1>5. Holds(e, t, x, a, p)
  BY <1>1, <1>3 DEF Holds
<1> QED BY <1>4, <1>5 DEF d, e

\* The open call's block: what it is, that it can be finished or replaced.
LEMMA HoldsLast ==
  ASSUME NEW b, NEW t, NEW r, NEW a, NEW x, Holds(b, t, r, a, <<x>>)
  PROVE  /\ b[Len(b)] = x /\ Len(b) = Len(a) + 3
         /\ Holds(b, t, r, Append(a, x), <<>>)
         /\ \A y : Holds([b EXCEPT ![Len(b)] = y], t, r, a, <<y>>)
<1>1. /\ IsSeq(b) /\ Len(b) \in Nat /\ Len(a) \in Nat /\ IsSeq(a) /\ Len(<<x>>) = 1
      /\ Len(b) = Len(a) + 3 /\ Len(b) \in 1..Len(b) /\ <<x>>[1] = x /\ Len(<<>>) = 0
  BY DEF Holds, IsSeq
<1>2. b[Len(b)] = x
  BY <1>1 DEF Holds
<1>3. Holds(b, t, r, Append(a, x), <<>>)
  <2> DEFINE e == Append(a, x)
  <2>1. IsSeq(e) /\ Len(e) = Len(a) + 1 /\ e[Len(a) + 1] = x /\ \A j \in 1..Len(a) : e[j] = a[j]
    BY <1>1, SeqAdd
  <2>2. IsSeq(<<>>)
    BY SeqFew
  <2> HIDE DEF e
  <2>3. Holds(b, t, r, e, <<>>)
    BY <1>1, <1>2, <2>1, <2>2 DEF Holds
  <2> QED BY <2>3 DEF e
<1>4. ASSUME NEW y PROVE Holds([b EXCEPT ![Len(b)] = y], t, r, a, <<y>>)
  <2> DEFINE n == Len(b)
             d == [b EXCEPT ![n] = y]
  <2>1. IsSeq(d) /\ Len(d) = n /\ d[n] = y /\ \A j \in 1..n : j # n => d[j] = b[j]
    <3> n \in 1..Len(b)
      BY <1>1
    <3> HIDE DEF n
    <3>1. /\ IsSeq([b EXCEPT ![n] = y]) /\ Len([b EXCEPT ![n] = y]) = Len(b) /\ [b EXCEPT ![n] = y][n] = y
          /\ \A j \in 1..Len(b) : j # n => [b EXCEPT ![n] = y][j] = b[j]
      <4> IsSeq(b)
        BY <1>1
      <4> QED BY SeqSet
    <3> QED BY <3>1 DEF n
  <2>2. IsSeq(<<y>>) /\ Len(<<y>>) = 1 /\ <<y>>[1] = y
    BY SeqFew
  <2> HIDE DEF d
  <2>3. Holds(d, t, r, a, <<y>>)
    BY <1>1, <2>1, <2>2 DEF Holds
  <2> QED BY <2>3 DEF d
<1> QED BY <1>1, <1>2, <1>3, <1>4

\* A call's block added; the blocks when no call is open.
LEMMA HoldsMore ==
  ASSUME NEW b, NEW t, NEW r, NEW a, Holds(b, t, r, a, <<>>)
  PROVE  (\A x : Holds(Append(b, x), t, r, a, <<x>>)) /\ b = <<t, r>> \o a
<1>1. IsSeq(b) /\ Len(b) \in Nat /\ Len(a) \in Nat /\ IsSeq(a) /\ Len(<<>>) = 0 /\ Len(b) = 2 + Len(a)
  BY DEF Holds, IsSeq
<1>2. ASSUME NEW x PROVE Holds(Append(b, x), t, r, a, <<x>>)
  <2> DEFINE e == Append(b, x)
  <2>1. IsSeq(e) /\ Len(e) = Len(b) + 1 /\ e[Len(b) + 1] = x /\ \A j \in 1..Len(b) : e[j] = b[j]
    BY <1>1, SeqAdd
  <2>2. IsSeq(<<x>>) /\ Len(<<x>>) = 1 /\ <<x>>[1] = x
    BY SeqFew
  <2> HIDE DEF e
  <2>3. Holds(e, t, r, a, <<x>>)
    BY <1>1, <2>1, <2>2 DEF Holds
  <2> QED BY <2>3 DEF e
<1>3. b = <<t, r>> \o a
  <2>1. a \in Seq(Elements(a) \cup {t, r}) /\ <<t, r>> \in Seq(Elements(a) \cup {t, r})
    <3>1. a \in Seq(Elements(a))
      BY <1>1, SeqIn
    <3> QED BY <3>1
  <2> DEFINE c == <<t, r>> \o a
  <2>2. c \in Seq(Elements(a) \cup {t, r}) /\ Len(c) = 2 + Len(a)
    BY <2>1
  <2>3. \A j \in 1..Len(a) : c[2 + j] = a[j]
    BY <2>1
  <2>4. c[1] = t /\ c[2] = r
    BY <2>1
  <2>5. IsSeq(c)
    BY <2>2, SeqIs
  <2> HIDE DEF c
  <2>6. \A j \in 1..Len(b) : b[j] = c[j]
    <3> SUFFICES ASSUME NEW j \in 1..Len(b) PROVE b[j] = c[j]
      OBVIOUS
    <3>1. CASE j = 1 \/ j = 2
      BY <2>4, <3>1 DEF Holds
    <3>2. CASE j # 1 /\ j # 2
      <4>1. j - 2 \in 1..Len(a)
        BY <1>1, <3>2
      <4>2. PICK i \in 1..Len(a) : i = j - 2
        BY <4>1
      <4>3. j = 2 + i
        BY <1>1, <4>2
      <4>4. b[2 + i] = a[i] /\ c[2 + i] = a[i]
        BY <2>3 DEF Holds
      <4> QED BY <4>3, <4>4
    <3> QED BY <3>1, <3>2
  <2>7. b = c
    BY <1>1, <2>2, <2>5, <2>6 DEF IsSeq
  <2> QED BY <2>7 DEF c
<1> QED BY <1>2, <1>3

\* The call that is open, as the client holds it.
Pending(k) ==
  IF k.call = <<>> THEN <<>>
  ELSE <<Block("tool_use", k.call[1].id, k.call[1].args)>>
CallFields == {"index", "id", "args"}
CallOK(k) == k.call = <<>> \/ \E p : k.call = <<p>> /\ p = [x \in CallFields |-> p[x]] /\ IsSeq(p.args)

\* The Chat encoder keeps sequences; its client has not been told of an end.
Chunked(s) ==
  /\ IsChunk(s) /\ IsSeq(s.content) /\ IsSeq(s.reasoning) /\ IsSeq(s.calls) /\ IsSeq(s.positions)
  /\ IsSeq(s.cites)
Clear(c) == IsClient(c) /\ c.phase = "open" /\ c.open = FALSE
Words(s) == [Block("text", 0, s.content) EXCEPT !.cites = s.cites]
Musing(s) == Block("reasoning", 0, s.reasoning)

\* A text block, a reasoning block.
TextB(x, u) == [kind |-> "text", id |-> 0, body |-> x, sig |-> <<>>, cites |-> u, st |-> "in_progress"]
ThoughtB(x) == [kind |-> "reasoning", id |-> 0, body |-> x, sig |-> <<>>, cites |-> <<>>,
                st |-> "in_progress"]

\* The text and the reasoning that the Chat encoder keeps, as blocks.
LEMMA WordsAre ==
  /\ \A s : Words(s) = TextB(s.content, s.cites) /\ Musing(s) = ThoughtB(s.reasoning)
  /\ \A x, u, y : [TextB(x, u) EXCEPT !.body = y] = TextB(y, u)
  /\ \A x, u, y : [TextB(x, u) EXCEPT !.cites = y] = TextB(x, y)
  /\ \A x, y : [ThoughtB(x) EXCEPT !.body = y] = ThoughtB(y)
  /\ \A x, u : TextB(x, u).body = x /\ TextB(x, u).cites = u /\ ThoughtB(x).body = x
<1>1. \A s : Words(s) = TextB(s.content, s.cites)
  BY DEF Words, Block, TextB
<1>2. \A s : Musing(s) = ThoughtB(s.reasoning)
  BY DEF Musing, Block, ThoughtB
<1>3. \A x, u, y : [TextB(x, u) EXCEPT !.body = y] = TextB(y, u)
  BY DEF TextB
<1>4. \A x, u, y : [TextB(x, u) EXCEPT !.cites = y] = TextB(x, y)
  BY DEF TextB
<1>5. \A x, y : [ThoughtB(x) EXCEPT !.body = y] = ThoughtB(y)
  BY DEF ThoughtB
<1>6. \A x, u : TextB(x, u).body = x /\ TextB(x, u).cites = u /\ ThoughtB(x).body = x
  BY DEF TextB, ThoughtB
<1> QED BY <1>1, <1>2, <1>3, <1>4, <1>5, <1>6

\* Each call has its position; the open one is the last.
Placed(a, k) ==
  /\ \A j \in 1..Len(a) : a[j] \in k.used
  /\ k.call # <<>> => /\ Len(a) > 0 /\ a[Len(a)] = k.call[1].index
                      /\ \A j \in 1..Len(a) : j # Len(a) => a[j] # k.call[1].index

\* The Chat client c has what its encoder s keeps, after what k was told.
SeesC(s, k, c) ==
  /\ Chunked(s) /\ Clear(c) /\ CallOK(k)
  /\ Holds(c.blocks, Words(s), Musing(s), s.calls, Pending(k))
  /\ Len(s.positions) = Len(s.calls) + Len(k.call)
  /\ Placed(s.positions, k)

-----------------------------------------------------------------------------
\* What events that touch no call do.
LEMMA ChatSpeech ==
  ASSUME NEW s, NEW k, NEW c, SeesC(s, k, c), NEW l, l.call = k.call, l.used = k.used
  PROVE  /\ SeesC(s, l, c)
         /\ \A x : SeesC([s EXCEPT !.content = Append(@, x)], l, [c EXCEPT !.blocks[1].body = Append(@, x)])
         /\ \A x : SeesC([s EXCEPT !.cites = Append(@, x)], l, [c EXCEPT !.blocks[1].cites = Append(@, x)])
         /\ \A x : IsSeq(x) => SeesC([s EXCEPT !.reasoning = @ \o x], l, [c EXCEPT !.blocks[2].body = @ \o x])
<1>1. SeesC(s, l, c)
  BY DEF SeesC, CallOK, Pending, Placed
<1> DEFINE Same(t, d, w, m) ==
             /\ IsChunk(t) /\ IsClient(d) /\ d.phase = c.phase /\ d.open = c.open /\ t.calls = s.calls
             /\ t.positions = s.positions /\ IsSeq(t.content) /\ IsSeq(t.reasoning) /\ IsSeq(t.cites)
             /\ Words(t) = w /\ Musing(t) = m
             /\ Holds(d.blocks, w, m, s.calls, Pending(l))
<1>2. ASSUME NEW t, NEW d, NEW w, NEW m, Same(t, d, w, m) PROVE SeesC(t, l, d)
  BY <1>1, <1>2 DEF SeesC, Chunked, Clear
<1>3. Holds(c.blocks, Words(s), Musing(s), s.calls, Pending(l)) /\ IsChunk(s) /\ IsClient(c)
      /\ IsSeq(s.content) /\ IsSeq(s.cites) /\ IsSeq(s.reasoning)
  BY <1>1 DEF SeesC, Chunked, Clear
<1> DEFINE b == c.blocks
           w == Words(s)
           m == Musing(s)
<1>4. b[1] = w /\ b[2] = m
  BY <1>3 DEF Holds
<1>6. ASSUME NEW x PROVE SeesC([s EXCEPT !.content = Append(@, x)], l, [c EXCEPT !.blocks[1].body = Append(@, x)])
  <2> DEFINE t == [s EXCEPT !.content = Append(@, x)]
             d == [c EXCEPT !.blocks[1].body = Append(@, x)]
             v == Words(t)
  <2>1. /\ IsChunk(t) /\ t.calls = s.calls /\ t.positions = s.positions /\ t.content = Append(s.content, x)
        /\ t.reasoning = s.reasoning /\ t.cites = s.cites
    BY <1>3 DEF IsChunk, ChunkFields
  <2>2. v = [b[1] EXCEPT !.body = Append(@, x)]
    <3>1. v = TextB(Append(s.content, x), s.cites)
      BY <2>1, WordsAre
    <3>2. b[1] = TextB(s.content, s.cites)
      BY <1>4, WordsAre
    <3>3. [TextB(s.content, s.cites) EXCEPT !.body = Append(s.content, x)] = TextB(Append(s.content, x), s.cites)
      <4>1. \A y : [TextB(s.content, s.cites) EXCEPT !.body = y] = TextB(y, s.cites)
        BY DEF TextB
      <4> QED BY <4>1, Zenon
    <3>4. TextB(s.content, s.cites).body = s.content
      BY WordsAre
    <3> HIDE DEF v, b
    <3> QED BY <3>1, <3>2, <3>3, <3>4
  <2>3. IsClient(d) /\ d.phase = c.phase /\ d.open = c.open /\ d.blocks = [b EXCEPT ![1] = v]
    <3> HIDE DEF t, w, v
    <3> QED BY <1>3, <2>2 DEF IsClient, ClientFields
  <2>4. Holds([b EXCEPT ![1] = v], v, m, s.calls, Pending(l))
    <3> HIDE DEF v, b, w, m
    <3> QED BY <1>3, HoldsFirst DEF b, w, m
  <2>5. IsSeq(t.content) /\ IsSeq(t.reasoning) /\ IsSeq(t.cites) /\ Musing(t) = m
    BY <1>3, <2>1, SeqAdd DEF Musing
  <2> HIDE DEF t, d, v, m, b, w
  <2>6. Same(t, d, v, m)
    BY <2>1, <2>3, <2>4, <2>5 DEF v
  <2> HIDE DEF Same
  <2> QED BY <1>2, <2>6 DEF t, d
<1>7. ASSUME NEW x PROVE SeesC([s EXCEPT !.cites = Append(@, x)], l, [c EXCEPT !.blocks[1].cites = Append(@, x)])
  <2> DEFINE t == [s EXCEPT !.cites = Append(@, x)]
             d == [c EXCEPT !.blocks[1].cites = Append(@, x)]
             v == Words(t)
  <2>1. /\ IsChunk(t) /\ t.calls = s.calls /\ t.positions = s.positions /\ t.cites = Append(s.cites, x)
        /\ t.reasoning = s.reasoning /\ t.content = s.content
    BY <1>3 DEF IsChunk, ChunkFields
  <2>2. v = [b[1] EXCEPT !.cites = Append(@, x)]
    <3>1. v = TextB(s.content, Append(s.cites, x))
      BY <2>1, WordsAre
    <3>2. b[1] = TextB(s.content, s.cites)
      BY <1>4, WordsAre
    <3>3. [TextB(s.content, s.cites) EXCEPT !.cites = Append(s.cites, x)] = TextB(s.content, Append(s.cites, x))
      <4>1. \A y : [TextB(s.content, s.cites) EXCEPT !.cites = y] = TextB(s.content, y)
        BY DEF TextB
      <4> QED BY <4>1, Zenon
    <3>4. TextB(s.content, s.cites).cites = s.cites
      BY WordsAre
    <3> HIDE DEF v, b
    <3> QED BY <3>1, <3>2, <3>3, <3>4
  <2>3. IsClient(d) /\ d.phase = c.phase /\ d.open = c.open /\ d.blocks = [b EXCEPT ![1] = v]
    <3> HIDE DEF t, w, v
    <3> QED BY <1>3, <2>2 DEF IsClient, ClientFields
  <2>4. Holds([b EXCEPT ![1] = v], v, m, s.calls, Pending(l))
    <3> HIDE DEF v, b, w, m
    <3> QED BY <1>3, HoldsFirst DEF b, w, m
  <2>5. IsSeq(t.content) /\ IsSeq(t.reasoning) /\ IsSeq(t.cites) /\ Musing(t) = m
    BY <1>3, <2>1, SeqAdd DEF Musing
  <2> HIDE DEF t, d, v, m, b, w
  <2>6. Same(t, d, v, m)
    BY <2>1, <2>3, <2>4, <2>5 DEF v
  <2> HIDE DEF Same
  <2> QED BY <1>2, <2>6 DEF t, d
<1>8. ASSUME NEW x, IsSeq(x)
      PROVE SeesC([s EXCEPT !.reasoning = @ \o x], l, [c EXCEPT !.blocks[2].body = @ \o x])
  <2> DEFINE t == [s EXCEPT !.reasoning = @ \o x]
             d == [c EXCEPT !.blocks[2].body = @ \o x]
             v == Musing(t)
  <2>1. /\ IsChunk(t) /\ t.calls = s.calls /\ t.positions = s.positions /\ t.reasoning = s.reasoning \o x
        /\ t.cites = s.cites /\ t.content = s.content
    BY <1>3 DEF IsChunk, ChunkFields
  <2>2. v = [b[2] EXCEPT !.body = @ \o x]
    <3>1. v = ThoughtB(s.reasoning \o x)
      BY <2>1, WordsAre
    <3>2. b[2] = ThoughtB(s.reasoning)
      BY <1>4, WordsAre
    <3>3. [ThoughtB(s.reasoning) EXCEPT !.body = s.reasoning \o x] = ThoughtB(s.reasoning \o x)
      <4>1. \A y : [ThoughtB(s.reasoning) EXCEPT !.body = y] = ThoughtB(y)
        BY DEF ThoughtB
      <4> QED BY <4>1, Zenon
    <3>4. ThoughtB(s.reasoning).body = s.reasoning
      BY WordsAre
    <3> HIDE DEF v, b
    <3> QED BY <3>1, <3>2, <3>3, <3>4
  <2>3. IsClient(d) /\ d.phase = c.phase /\ d.open = c.open /\ d.blocks = [b EXCEPT ![2] = v]
    <3> HIDE DEF t, m, v
    <3> QED BY <1>3, <2>2 DEF IsClient, ClientFields
  <2>4. Holds([b EXCEPT ![2] = v], w, v, s.calls, Pending(l))
    <3> HIDE DEF v, b, w, m
    <3> QED BY <1>3, HoldsFirst DEF b, w, m
  <2>5. IsSeq(t.content) /\ IsSeq(t.reasoning) /\ IsSeq(t.cites) /\ Words(t) = w
    BY <1>3, <1>8, <2>1, SeqJoin DEF Words
  <2> HIDE DEF t, d, v, m, b, w
  <2>6. Same(t, d, w, v)
    BY <2>1, <2>3, <2>4, <2>5 DEF v
  <2> HIDE DEF Same
  <2> QED BY <1>2, <2>6 DEF t, d
<1> QED BY <1>1, <1>6, <1>7, <1>8

\* A call's position in the Chat encoder is where its index stands.
LEMMA PositionIs ==
  ASSUME NEW s, IsSeq(s.positions), NEW m \in 1..Len(s.positions),
         \A j \in 1..Len(s.positions) : j # m => s.positions[j] # s.positions[m]
  PROVE  C!Position(s, s.positions[m]) = m - 1
<1> DEFINE a == s.positions
           at == {p \in DOMAIN a : a[p] = a[m]}
<1>1. DOMAIN a = 1..Len(a)
  <2> a = [j \in 1..Len(a) |-> a[j]]
    BY DEF IsSeq
  <2> HIDE DEF a
  <2> QED OBVIOUS
<1>2. m \in at /\ \A p \in at : p = m
  BY <1>1
<1>3. at # {} /\ (CHOOSE p \in at : TRUE) = m
  <2> HIDE DEF at
  <2> QED BY <1>2
<1> QED BY <1>3 DEF C!Position

\* The call that is open has its fields.
LEMMA CallIs ==
  ASSUME NEW k, CallOK(k), k.call # <<>>
  PROVE  /\ k.call[1] = [x \in CallFields |-> k.call[1][x]] /\ IsSeq(k.call[1].args)
         /\ k.call = <<k.call[1]>> /\ Len(k.call) = 1
<1>1. PICK p : k.call = <<p>> /\ p = [x \in CallFields |-> p[x]] /\ IsSeq(p.args)
  BY DEF CallOK
<1>2. k.call[1] = p
  BY <1>1
<1> QED BY <1>1, <1>2

\* A call starts: the encoder gives it the next position, the client a block.
LEMMA ChatStart ==
  ASSUME NEW s, NEW k, NEW c, SeesC(s, k, c), NEW ev, ev.k = "call_start", Fit(k, ev),
         NEW w, w = C!CallStart(s, ev)
  PROVE  /\ w.err = FALSE
         /\ \E fr : w.out = <<fr>> /\ SeesC(w.s, Hear(k, ev), ChatAccept(c, fr))
<1> DEFINE l == Hear(k, ev)
           a == s.positions
           t == [s EXCEPT !.positions = Append(@, ev.index)]
           y == Block("tool_use", ev.id, ev.args)
           fr == [f |-> "call", pos |-> Len(a), id |-> ev.id, x |-> ev.args]
           d == [c EXCEPT !.blocks = Append(@, y)]
<1>1. k.call = <<>> /\ ev.index \notin k.used /\ IsSeq(ev.args)
  BY DEF Fit
<1>2. /\ IsChunk(s) /\ IsSeq(a) /\ Len(a) \in Nat /\ Len(a) = Len(s.calls) /\ Len(s.calls) \in Nat
      /\ \A j \in 1..Len(a) : a[j] \in k.used
      /\ Clear(c) /\ Holds(c.blocks, Words(s), Musing(s), s.calls, <<>>)
  <2>1. IsSeq(a) /\ IsSeq(s.calls) /\ Len(k.call) = 0 /\ Pending(k) = <<>>
    BY <1>1 DEF SeesC, Chunked, Pending
  <2>2. Len(a) \in Nat /\ Len(s.calls) \in Nat
    BY <2>1 DEF IsSeq
  <2>3. Len(a) = Len(s.calls)
    BY <2>1, <2>2 DEF SeesC
  <2> QED BY <2>1, <2>2, <2>3 DEF SeesC, Chunked, Placed
<1>3. IsSeq(t.positions) /\ t.positions = Append(a, ev.index) /\ IsChunk(t) /\ t.content = s.content
      /\ t.reasoning = s.reasoning /\ t.cites = s.cites /\ t.calls = s.calls
  <2>1. IsSeq(Append(a, ev.index))
    BY <1>2, SeqAdd
  <2> QED BY <1>2, <2>1 DEF IsChunk, ChunkFields
<1>4. /\ Len(t.positions) = Len(a) + 1 /\ t.positions[Len(a) + 1] = ev.index
      /\ \A j \in 1..Len(a) : t.positions[j] = a[j] /\ t.positions[j] # ev.index
  <2> DEFINE e == Append(a, ev.index)
  <2>1. Len(e) = Len(a) + 1 /\ e[Len(a) + 1] = ev.index /\ \A j \in 1..Len(a) : e[j] = a[j]
    BY <1>2, SeqAdd
  <2> HIDE DEF e
  <2> QED BY <1>1, <1>2, <1>3, <2>1 DEF e
<1>5. ev.index \notin C!Range(a)
  BY <1>1, <1>2 DEF C!Range, IsSeq
<1>6. C!Position(t, ev.index) = Len(a)
  <2> HIDE DEF t
  <2> DEFINE m == Len(a) + 1
  <2>1. m \in 1..Len(t.positions) /\ t.positions[m] = ev.index
        /\ \A j \in 1..Len(t.positions) : j # m => t.positions[j] # t.positions[m]
    BY <1>2, <1>4
  <2>2. m - 1 = Len(a)
    BY <1>2
  <2> HIDE DEF m
  <2> QED BY <1>3, <2>1, <2>2, PositionIs
<1>7. w = [s |-> t, out |-> <<fr>>, err |-> FALSE]
  <2> HIDE DEF t
  <2> QED BY <1>5, <1>6 DEF C!CallStart, C!Ok, t
<1>8. Len(c.blocks) - 2 = Len(a)
  BY <1>2 DEF Holds
<1>9. ChatAccept(c, fr) = d
  <2> HIDE DEF d
  <2> QED BY <1>2, <1>8 DEF ChatAccept, Clear, d
<1>10. IsClient(d) /\ d.phase = "open" /\ d.open = FALSE /\ d.blocks = Append(c.blocks, y)
  <2> HIDE DEF y
  <2> QED BY <1>2 DEF Clear, IsClient, ClientFields
<1>11. /\ l.call = <<[index |-> ev.index, id |-> ev.id, args |-> ev.args]>>
       /\ l.used = k.used \cup {ev.index}
  BY DEF Hear, Called
<1>12. CallOK(l) /\ Pending(l) = <<y>> /\ Len(l.call) = 1 /\ l.call # <<>> /\ l.call[1].index = ev.index
  <2> HIDE DEF l
  <2> QED BY <1>1, <1>11 DEF CallOK, CallFields, Pending
<1>13. Holds(Append(c.blocks, y), Words(t), Musing(t), t.calls, <<y>>)
  <2> HIDE DEF t, y
  <2>1. Words(t) = Words(s) /\ Musing(t) = Musing(s)
    BY <1>3 DEF Words, Musing
  <2> QED BY <1>2, <1>3, <2>1, HoldsMore
<1>14. Placed(t.positions, l)
  <2> HIDE DEF t, l
  <2> QED BY <1>2, <1>3, <1>4, <1>11, <1>12 DEF Placed
<1>15. SeesC(t, l, d)
  <2>1. IsSeq(s.content) /\ IsSeq(s.reasoning) /\ IsSeq(s.calls) /\ IsSeq(s.cites)
    BY DEF SeesC, Chunked
  <2> HIDE DEF t, l, d, y
  <2> QED BY <1>2, <1>3, <1>4, <1>10, <1>12, <1>13, <1>14, <2>1 DEF SeesC, Chunked, Clear
<1> HIDE DEF t, l, d, fr
<1>16. w.s = t /\ w.out = <<fr>> /\ w.err = FALSE
  BY <1>7
<1> QED BY <1>9, <1>15, <1>16, Zenon DEF l

\* What the call that is open lets one say of the client.
LEMMA CallOpen ==
  ASSUME NEW s, NEW k, NEW c, SeesC(s, k, c), k.call # <<>>
  PROVE  LET a == s.positions
             p == k.call[1]
             x == Block("tool_use", p.id, p.args)
         IN  /\ Holds(c.blocks, Words(s), Musing(s), s.calls, <<x>>)
             /\ Len(a) = Len(s.calls) + 1 /\ Len(s.calls) \in Nat /\ IsSeq(a)
             /\ C!Position(s, p.index) = Len(a) - 1
             /\ Len(c.blocks) = Len(a) + 2 /\ c.blocks[Len(c.blocks)] = x
<1> DEFINE a == s.positions
           p == k.call[1]
           x == Block("tool_use", p.id, p.args)
<1>1. Len(k.call) = 1 /\ Pending(k) = <<x>>
  BY CallIs DEF SeesC, Pending
<1>2. IsSeq(a) /\ IsSeq(s.calls) /\ Holds(c.blocks, Words(s), Musing(s), s.calls, <<x>>)
  <2> HIDE DEF x
  <2> QED BY <1>1 DEF SeesC, Chunked
<1>3. Len(a) \in Nat /\ Len(s.calls) \in Nat
  BY <1>2 DEF IsSeq
<1>4. Len(a) = Len(s.calls) + 1
  BY <1>1, <1>3 DEF SeesC
<1>5. Len(c.blocks) = Len(s.calls) + 3 /\ c.blocks[Len(c.blocks)] = x
  <2> HIDE DEF x
  <2> QED BY <1>2, HoldsLast
<1>6. a[Len(a)] = p.index /\ \A j \in 1..Len(a) : j # Len(a) => a[j] # a[Len(a)]
  BY DEF SeesC, Placed
<1>7. Len(a) \in 1..Len(a)
  BY <1>3, <1>4
<1>8. C!Position(s, a[Len(a)]) = Len(a) - 1
  <2> DEFINE m == Len(a)
  <2>1. m \in 1..Len(a) /\ \A j \in 1..Len(a) : j # m => a[j] # a[m]
    BY <1>6, <1>7
  <2> HIDE DEF m
  <2>2. C!Position(s, a[m]) = m - 1
    BY <1>2, <2>1, PositionIs
  <2> QED BY <2>2 DEF m
<1> HIDE DEF x
<1>9. /\ Holds(c.blocks, Words(s), Musing(s), s.calls, <<x>>)
      /\ Len(a) = Len(s.calls) + 1 /\ Len(s.calls) \in Nat /\ IsSeq(a)
      /\ C!Position(s, p.index) = Len(a) - 1
      /\ Len(c.blocks) = Len(a) + 2 /\ c.blocks[Len(c.blocks)] = x
  BY <1>2, <1>3, <1>4, <1>5, <1>6, <1>8
<1> QED BY <1>9 DEF x

\* A call's arguments reach the block of its position.
LEMMA ChatArgs ==
  ASSUME NEW s, NEW k, NEW c, SeesC(s, k, c), NEW ev, ev.k = "call_args", Fit(k, ev)
  PROVE  SeesC(s, Hear(k, ev), ChatAccept(c, [f |-> "args", pos |-> C!Position(s, ev.index), x |-> ev.x]))
<1> DEFINE l == Hear(k, ev)
           a == s.positions
           p == k.call[1]
           x == Block("tool_use", p.id, p.args)
           y == Block("tool_use", p.id, Append(p.args, ev.x))
           n == Len(c.blocks)
           d == [c EXCEPT !.blocks[Len(c.blocks)].body = Append(@, ev.x)]
           fr == [f |-> "args", pos |-> C!Position(s, ev.index), x |-> ev.x]
<1>1. k.call # <<>> /\ ev.index = p.index
  BY DEF Fit
<1>2. /\ Holds(c.blocks, Words(s), Musing(s), s.calls, <<x>>)
      /\ Len(a) = Len(s.calls) + 1 /\ Len(s.calls) \in Nat /\ IsSeq(a)
      /\ C!Position(s, p.index) = Len(a) - 1
      /\ n = Len(a) + 2 /\ c.blocks[n] = x
  BY <1>1, CallOpen
<1>3. ChatAccept(c, fr) = d
  <2>1. fr.pos = Len(c.blocks) - 2 - 1
    BY <1>1, <1>2
  <2>2. c.phase = "open"
    BY DEF SeesC, Clear
  <2>3. fr.f = "args" /\ fr.x = ev.x
    OBVIOUS
  <2> HIDE DEF d, fr, n
  <2> QED BY <2>1, <2>2, <2>3 DEF ChatAccept, d
<1>4. IsClient(c) /\ c.phase = "open" /\ c.open = FALSE
  BY DEF SeesC, Clear
<1>5. [x EXCEPT !.body = Append(p.args, ev.x)] = y /\ x.body = p.args
  <2>1. \A u, v, z : [Block("tool_use", u, v) EXCEPT !.body = z] = Block("tool_use", u, z)
    BY DEF Block
  <2>2. x.body = p.args
    BY DEF Block
  <2> QED BY <2>1, <2>2
<1>6. IsClient(d) /\ d.phase = "open" /\ d.open = FALSE /\ d.blocks = [c.blocks EXCEPT ![n] = y]
  <2>1. d = [c EXCEPT !.blocks = [c.blocks EXCEPT ![n] = [c.blocks[n] EXCEPT !.body = Append(c.blocks[n].body, ev.x)]]]
    OBVIOUS
  <2>2. d = [c EXCEPT !.blocks = [c.blocks EXCEPT ![n] = y]]
    <3> HIDE DEF x, y, n, d
    <3> QED BY <1>2, <1>5, <2>1
  <2> DEFINE b == [c.blocks EXCEPT ![n] = y]
  <2> HIDE DEF d, b
  <2>3. d = [c EXCEPT !.blocks = b]
    BY <2>2 DEF b
  <2>4. IsClient(d) /\ d.phase = "open" /\ d.open = FALSE /\ d.blocks = b
    BY <1>4, <2>3 DEF IsClient, ClientFields
  <2> QED BY <2>4 DEF b
<1>7. /\ l.call = <<[index |-> p.index, id |-> p.id, args |-> Append(p.args, ev.x)]>>
      /\ l.used = k.used
  BY <1>1 DEF Hear, Called
<1>8. IsSeq(p.args)
  BY <1>1, CallIs DEF SeesC
<1>9. CallOK(l) /\ Pending(l) = <<y>> /\ Len(l.call) = 1 /\ l.call # <<>> /\ l.call[1].index = p.index
  <2> DEFINE v == Append(p.args, ev.x)
  <2>1. IsSeq(v)
    BY <1>8, SeqAdd
  <2>2. l.call = <<[index |-> p.index, id |-> p.id, args |-> v]>>
    BY <1>7
  <2> HIDE DEF l, p, v
  <2>3. CallOK(l) /\ Pending(l) = <<Block("tool_use", p.id, v)>> /\ Len(l.call) = 1 /\ l.call # <<>> /\ l.call[1].index = p.index
    BY <2>1, <2>2 DEF CallOK, CallFields, Pending
  <2> QED BY <2>3 DEF v, p
<1>10. Holds([c.blocks EXCEPT ![n] = y], Words(s), Musing(s), s.calls, <<y>>)
  <2> HIDE DEF x, y
  <2>1. \A z : Holds([c.blocks EXCEPT ![Len(c.blocks)] = z], Words(s), Musing(s), s.calls, <<z>>)
    <3> DEFINE b == c.blocks
               e == s.calls
    <3>1. Holds(b, Words(s), Musing(s), e, <<x>>)
      BY <1>2
    <3> HIDE DEF b, e
    <3>2. \A z : Holds([b EXCEPT ![Len(b)] = z], Words(s), Musing(s), e, <<z>>)
      BY <3>1, HoldsLast
    <3> QED BY <3>2 DEF b, e
  <2> QED BY <2>1, Zenon
<1>11. Placed(a, l)
  <2> HIDE DEF l
  <2>1. Placed(a, k)
    BY DEF SeesC
  <2> QED BY <1>1, <1>7, <1>9, <2>1 DEF Placed
<1>12. Len(a) = Len(s.calls) + Len(l.call)
  BY <1>2, <1>9
<1>13. SeesC(s, l, d)
  <2> HIDE DEF l, d, y
  <2> QED BY <1>6, <1>9, <1>10, <1>11, <1>12 DEF SeesC, Clear
<1> QED BY <1>3, <1>13

\* A call ends: the encoder keeps it whole, the client has it already.
LEMMA ChatEnd ==
  ASSUME NEW s, NEW k, NEW c, SeesC(s, k, c), NEW ev, ev.k = "call_end", Fit(k, ev)
  PROVE  SeesC([s EXCEPT !.calls = Append(@, C!Block("tool_use", ev.id, ev.args))], Hear(k, ev), c)
<1> DEFINE l == Hear(k, ev)
           a == s.positions
           p == k.call[1]
           x == Block("tool_use", p.id, p.args)
           t == [s EXCEPT !.calls = Append(@, C!Block("tool_use", ev.id, ev.args))]
<1>1. k.call = <<[index |-> ev.index, id |-> ev.id, args |-> ev.args]>>
  BY DEF Fit
<1>2. k.call # <<>> /\ p.id = ev.id /\ p.args = ev.args
  BY <1>1
<1>3. /\ Holds(c.blocks, Words(s), Musing(s), s.calls, <<x>>)
      /\ Len(a) = Len(s.calls) + 1 /\ Len(s.calls) \in Nat /\ IsSeq(a)
  BY <1>2, CallOpen
<1>4. C!Block("tool_use", ev.id, ev.args) = x
  BY <1>2 DEF C!Block, Block
<1>5. /\ IsChunk(t) /\ t.calls = Append(s.calls, x) /\ t.content = s.content
      /\ t.reasoning = s.reasoning /\ t.cites = s.cites /\ t.positions = a
  <2> HIDE DEF x
  <2> QED BY <1>4 DEF SeesC, Chunked, IsChunk, ChunkFields
<1>6. IsSeq(Append(s.calls, x)) /\ Len(Append(s.calls, x)) = Len(s.calls) + 1
  <2> HIDE DEF x
  <2> QED BY SeqAdd DEF SeesC, Chunked
<1>7. l.call = <<>> /\ l.used = k.used
  BY DEF Hear, Called
<1>8. CallOK(l) /\ Pending(l) = <<>> /\ Len(l.call) = 0 /\ Placed(a, l)
  <2> HIDE DEF l
  <2> QED BY <1>7 DEF CallOK, Pending, SeesC, Placed
<1>9. Holds(c.blocks, Words(t), Musing(t), t.calls, <<>>)
  <2> HIDE DEF x, t
  <2>1. Words(t) = Words(s) /\ Musing(t) = Musing(s)
    BY <1>5 DEF Words, Musing
  <2>2. Holds(c.blocks, Words(s), Musing(s), Append(s.calls, x), <<>>)
    BY <1>3, HoldsLast
  <2> QED BY <1>5, <2>1, <2>2
<1>10. SeesC(t, l, c)
  <2>1. IsSeq(s.content) /\ IsSeq(s.reasoning) /\ IsSeq(s.cites) /\ Clear(c)
    BY DEF SeesC, Chunked
  <2> HIDE DEF t, l, x
  <2> QED BY <1>3, <1>5, <1>6, <1>8, <1>9, <2>1 DEF SeesC, Chunked
<1> QED BY <1>10

-----------------------------------------------------------------------------
Taking(acc, fr) == LET s == acc IN Take(dialect, s, fr)
TakingFold == INSTANCE FoldFacts WITH Op <- Taking, P <- Anything, Q <- Anything

\* A client takes frames one by one.
LEMMA AcceptAt ==
  /\ \A c : Accept(dialect, c, <<>>) = c
  /\ \A c, fr : Accept(dialect, c, <<fr>>) = Take(dialect, c, fr)
  /\ \A c, a, b : IsSeq(a) /\ IsSeq(b) =>
       Accept(dialect, c, a \o b) = Accept(dialect, Accept(dialect, c, a), b)
<1>0. \A c, a : Accept(dialect, c, a) = InTurn(Taking, c, a)
  BY DEF Accept, Taking
<1>1. \A c, a : TakingFold!Fold(c, a) = InTurn(Taking, c, a)
  BY DEF InTurn, TakingFold!Fold, MapThenFoldSet, TakingFold!MapThenFoldSet, TakingFold!Max
<1>2. \A c : Accept(dialect, c, <<>>) = c
  BY <1>0, <1>1, TakingFold!FoldEmpty, SetInduction DEF TakingFold!Induction
<1>3. ASSUME NEW c, NEW fr PROVE Accept(dialect, c, <<fr>>) = Take(dialect, c, fr)
  <2>1. Taking(c, fr) = Take(dialect, c, fr)
    BY DEF Taking
  <2>2. InTurn(Taking, c, <<fr>>) = Taking(c, fr)
    BY <1>1, TakingFold!FoldOne, SetInduction DEF TakingFold!Induction
  <2> QED BY <1>0, <2>1, <2>2
<1>4. ASSUME NEW c, NEW a, NEW b, IsSeq(a), IsSeq(b)
      PROVE Accept(dialect, c, a \o b) = Accept(dialect, Accept(dialect, c, a), b)
  <2>1. PICK T : a \in Seq(T) /\ b \in Seq(T)
    BY <1>4, SeqJoin
  <2>2. InTurn(Taking, c, a \o b) = InTurn(Taking, InTurn(Taking, c, a), b)
    BY <1>1, <2>1, TakingFold!FoldConcat, SetInduction DEF TakingFold!Induction
  <2> QED BY <1>0, <2>2
<1> QED BY <1>2, <1>3, <1>4

\* The chat client after an outcome of the encoder.
ReachesC(k, c, r) == IsSeq(r.out) /\ (~r.err => SeesC(r.s, k, Accept(dialect, c, r.out)))

\* One frame sent.
LEMMA ReachOne ==
  ASSUME dialect = "chat", NEW k, NEW c, NEW t, NEW fr, SeesC(t, k, ChatAccept(c, fr)),
         NEW w, w.s = t, w.out = <<fr>>
  PROVE  ReachesC(k, c, w)
<1>1. Accept(dialect, c, <<fr>>) = ChatAccept(c, fr)
  BY AcceptAt DEF Take
<1>2. IsSeq(w.out)
  BY SeqFew
<1> QED BY <1>1, <1>2 DEF ReachesC

\* No frame sent.
LEMMA ReachNone ==
  ASSUME dialect = "chat", NEW k, NEW c, NEW t, SeesC(t, k, c), NEW w, w.s = t, w.out = <<>>
  PROVE  ReachesC(k, c, w)
<1>1. Accept(dialect, c, <<>>) = c
  BY AcceptAt
<1>2. IsSeq(w.out)
  BY SeqFew
<1> QED BY <1>1, <1>2 DEF ReachesC

\* Any event that fits what was heard keeps the Chat client with its encoder.
LEMMA ChatOne ==
  ASSUME dialect = "chat", NEW s, NEW k, NEW c, SeesC(s, k, c), NEW ev, Fit(k, ev)
  PROVE  ReachesC(Hear(k, ev), c, C!One(s, ev))
<1> DEFINE w == C!One(s, ev)
           l == Hear(k, ev)
<1> SUFFICES ReachesC(l, c, w)
  OBVIOUS
<1>0. c.phase = "open"
  BY DEF SeesC, Clear
<1>1. CASE ev.k \in {"native_item", "native_block"}
  <2>1. w = C!Err(s)
    BY <1>1 DEF C!One
  <2>2. w.out = <<>> /\ w.err = TRUE
    BY <2>1 DEF C!Err
  <2>3. IsSeq(<<>>)
    BY SeqFew
  <2> HIDE DEF w, l
  <2> QED BY <2>2, <2>3 DEF ReachesC
<1>2. CASE ev.k = "call_start"
  <2>1. w = C!CallStart(s, ev)
    BY <1>2 DEF C!One
  <2> HIDE DEF w
  <2>2. PICK fr : w.out = <<fr>> /\ SeesC(w.s, l, ChatAccept(c, fr))
    BY <1>2, <2>1, ChatStart
  <2> HIDE DEF l
  <2> QED BY <2>2, ReachOne
<1>3. CASE ev.k = "call_args"
  <2> DEFINE fr == [f |-> "args", pos |-> C!Position(s, ev.index), x |-> ev.x]
  <2>1. w = C!Ok(s, <<fr>>)
    BY <1>3 DEF C!One
  <2>2. w.s = s /\ w.out = <<fr>>
    BY <2>1 DEF C!Ok
  <2>3. SeesC(s, l, ChatAccept(c, fr))
    BY <1>3, ChatArgs
  <2> HIDE DEF w, l, fr
  <2> QED BY <2>2, <2>3, ReachOne
<1>4. CASE ev.k = "call_end"
  <2> DEFINE t == [s EXCEPT !.calls = Append(@, C!Block("tool_use", ev.id, ev.args))]
  <2>1. w = C!Ok(t, <<>>)
    BY <1>4 DEF C!One
  <2> HIDE DEF t
  <2>2. w.s = t /\ w.out = <<>>
    BY <2>1 DEF C!Ok
  <2>3. SeesC(t, l, c)
    BY <1>4, ChatEnd DEF t
  <2> HIDE DEF w, l
  <2> QED BY <2>2, <2>3, ReachNone
<1>5. CASE ev.k \notin {"native_item", "native_block", "call_start", "call_args", "call_end"}
  <2>1. l.call = k.call /\ l.used = k.used
    BY <1>5 DEF Hear, Called
  <2> HIDE DEF l
  <2>2. /\ SeesC(s, l, c)
        /\ \A x : SeesC([s EXCEPT !.content = Append(@, x)], l, [c EXCEPT !.blocks[1].body = Append(@, x)])
        /\ \A x : SeesC([s EXCEPT !.cites = Append(@, x)], l, [c EXCEPT !.blocks[1].cites = Append(@, x)])
        /\ \A x : IsSeq(x) => SeesC([s EXCEPT !.reasoning = @ \o x], l, [c EXCEPT !.blocks[2].body = @ \o x])
    BY <2>1, ChatSpeech
  <2>3. CASE ev.k = "text"
    <3> DEFINE fr == [f |-> "text", x |-> ev.x]
               t == [s EXCEPT !.content = Append(@, ev.x)]
               d == [c EXCEPT !.blocks[1].body = Append(@, ev.x)]
    <3>1. SeesC(t, l, d)
      BY <2>2
    <3>2. w = C!Ok(t, <<fr>>)
      <4> HIDE DEF t, fr
      <4> QED BY <2>3 DEF C!One, t, fr
    <3>3. ChatAccept(c, fr) = d
      <4> HIDE DEF d
      <4> QED BY <1>0 DEF ChatAccept, d
    <3> HIDE DEF t, fr, d, w
    <3>4. w.s = t /\ w.out = <<fr>>
      BY <3>2 DEF C!Ok
    <3> QED BY <3>1, <3>3, <3>4, ReachOne
  <2>4. CASE ev.k = "thinking"
    <3> DEFINE fr == [f |-> "reasoning", x |-> ev.x]
               t == [s EXCEPT !.reasoning = @ \o ev.x]
               d == [c EXCEPT !.blocks[2].body = @ \o ev.x]
    <3>0. IsSeq(ev.x)
      BY <2>4 DEF Fit
    <3>1. SeesC(t, l, d)
      BY <2>2, <3>0
    <3>2. w = C!Ok(t, <<fr>>)
      <4> HIDE DEF t, fr
      <4> QED BY <2>4 DEF C!One, t, fr
    <3>3. ChatAccept(c, fr) = d
      <4> HIDE DEF d
      <4> QED BY <1>0 DEF ChatAccept, d
    <3> HIDE DEF t, fr, d, w
    <3>4. w.s = t /\ w.out = <<fr>>
      BY <3>2 DEF C!Ok
    <3> QED BY <3>1, <3>3, <3>4, ReachOne
  <2>5. CASE ev.k = "cite"
    <3> DEFINE fr == [f |-> "cite", x |-> ev.x]
               t == [s EXCEPT !.cites = Append(@, ev.x)]
               d == [c EXCEPT !.blocks[1].cites = Append(@, ev.x)]
    <3>1. SeesC(t, l, d)
      BY <2>2
    <3>2. w \in {C!Ok(s, <<>>), C!Ok(t, <<fr>>)}
      <4> HIDE DEF t, fr
      <4> QED BY <2>5 DEF C!One, C!Citation, t, fr
    <3>3. ChatAccept(c, fr) = d
      <4> HIDE DEF d
      <4> QED BY <1>0 DEF ChatAccept, d
    <3> HIDE DEF t, fr, d, w
    <3>4. (w.s = t /\ w.out = <<fr>>) \/ (w.s = s /\ w.out = <<>>)
      BY <3>2 DEF C!Ok
    <3> QED BY <2>2, <3>1, <3>3, <3>4, ReachOne, ReachNone
  <2>6. CASE ev.k \notin {"text", "thinking", "cite"}
    <3>1. \A t : IsChunk(t) /\ IsChunk(s) /\ t.content = s.content /\ t.reasoning = s.reasoning
                 /\ t.calls = s.calls /\ t.positions = s.positions /\ t.cites = s.cites => SeesC(t, l, c)
      BY <2>2 DEF SeesC, Chunked, Words, Musing
    <3> DEFINE u == [s EXCEPT !.usage = TRUE]
               v == [s EXCEPT !.stop = C!FinishReason(ev.reason)]
    <3>2. IsChunk(s)
      BY DEF SeesC, Chunked
    <3>3. SeesC(u, l, c) /\ SeesC(v, l, c)
      <4>1. IsChunk(u) /\ u.content = s.content /\ u.reasoning = s.reasoning
                 /\ u.calls = s.calls /\ u.positions = s.positions /\ u.cites = s.cites
        BY <3>2 DEF IsChunk, ChunkFields
      <4>2. IsChunk(v) /\ v.content = s.content /\ v.reasoning = s.reasoning
                 /\ v.calls = s.calls /\ v.positions = s.positions /\ v.cites = s.cites
        BY <3>2 DEF IsChunk, ChunkFields
      <4> HIDE DEF u, v
      <4> QED BY <3>1, <3>2, <4>1, <4>2
    <3>4. w \in {C!Ok(s, <<>>), C!Ok(u, <<>>), C!Ok(v, <<>>)}
      <4> HIDE DEF u, v
      <4> QED BY <1>5, <2>6 DEF C!One, u, v
    <3> HIDE DEF u, v, w
    <3>5. w.s \in {s, u, v} /\ w.out = <<>>
      BY <3>4 DEF C!Ok
    <3> QED BY <2>2, <3>3, <3>5, ReachNone
  <2> QED BY <2>3, <2>4, <2>5, <2>6
<1> QED BY <1>1, <1>2, <1>3, <1>4, <1>5

-----------------------------------------------------------------------------
\* A Responses client that holds the items b at the stages g and waits for
\* the sequence number q.
Holding(c, b, g, q) ==
  /\ IsClient(c) /\ c.phase = "open" /\ c.blocks = b /\ c.stage = g /\ c.seq = q
  /\ q \in Nat /\ IsSeq(b) /\ IsSeq(g) /\ Len(b) = Len(g)

RespFields == {"output", "seq", "message", "reasoning", "part", "calls", "searches", "incomplete",
               "terminal"}
IsResp(s) == s = [x \in RespFields |-> s[x]]

\* The outcome r leads to the encoder t and the client c to b and g.
Leads(c, r, t, b, g) ==
  /\ r.err = FALSE /\ r.s = t /\ IsSeq(r.out)
  /\ Holding(Accept(dialect, c, r.out), b, g, t.seq)

\* One operation after another.
LEMMA LeadsJoined ==
  ASSUME NEW c, NEW r, NEW t, NEW b, NEW g, Leads(c, r, t, b, g),
         NEW w, NEW u, NEW x, NEW y,
         \A d : Holding(d, b, g, t.seq) => Leads(d, w, u, x, y)
  PROVE  Leads(c, R!Joined(r, w), u, x, y)
<1> DEFINE d == Accept(dialect, c, r.out)
           j == R!Joined(r, w)
<1>1. Holding(d, b, g, t.seq) /\ r.err = FALSE /\ IsSeq(r.out)
  BY DEF Leads
<1>2. Leads(d, w, u, x, y)
  BY <1>1
<1>3. w.err = FALSE /\ w.s = u /\ IsSeq(w.out) /\ Holding(Accept(dialect, d, w.out), x, y, u.seq)
  BY <1>2 DEF Leads
<1>4. j.s = u /\ j.err = FALSE /\ j.out = r.out \o w.out
  BY <1>1, <1>3 DEF R!Joined
<1>5. IsSeq(j.out) /\ Accept(dialect, c, j.out) = Accept(dialect, d, w.out)
  BY <1>1, <1>3, <1>4, AcceptAt, SeqJoin
<1> HIDE DEF j
<1> QED BY <1>3, <1>4, <1>5 DEF Leads, j

\* An operation that sends nothing.
LEMMA LeadsNone ==
  ASSUME NEW c, NEW t, NEW b, NEW g, Holding(c, b, g, t.seq)
  PROVE  Leads(c, R!Ok(t, <<>>), t, b, g)
BY AcceptAt, SeqFew DEF Leads, R!Ok

NextSeq(s) == [s EXCEPT !.seq = @ + 1]
Framed(s, kind, pos, x) == [f |-> kind, seq |-> s.seq, pos |-> pos, x |-> x]

\* An operation that sends one frame.
LEMMA LeadsEvent ==
  ASSUME dialect = "responses", NEW c, NEW s, IsResp(s), NEW kind, NEW pos, NEW x, NEW b, NEW g,
         Holding(ResponsesAccept(c, Framed(s, kind, pos, x)), b, g, s.seq + 1)
  PROVE  Leads(c, R!Event(s, kind, pos, x), NextSeq(s), b, g)
<1> DEFINE fr == Framed(s, kind, pos, x)
           t == NextSeq(s)
           w == R!Event(s, kind, pos, x)
<1>1. w.s = t /\ w.out = <<fr>> /\ w.err = FALSE
  BY DEF R!Event, R!Ok, Framed, NextSeq
<1>2. t.seq = s.seq + 1
  BY DEF NextSeq, IsResp, RespFields
<1>3. Accept(dialect, c, <<fr>>) = ResponsesAccept(c, fr)
  BY AcceptAt DEF Take
<1>4. IsSeq(<<fr>>)
  BY SeqFew
<1> HIDE DEF fr, w, t
<1> QED BY <1>1, <1>2, <1>3, <1>4 DEF Leads, fr, w, t

\* What each frame does to a client that waits for it.
LEMMA FrameAdded ==
  ASSUME NEW c, NEW b, NEW g, NEW q, Holding(c, b, g, q), NEW fr, fr.seq = q,
         fr.f = "added", fr.pos = Len(b) + 1
  PROVE  Holding(ResponsesAccept(c, fr), Append(b, fr.x), Append(g, "added"), q + 1)
<1> DEFINE next == [c EXCEPT !.seq = @ + 1]
           d == [next EXCEPT !.blocks = Append(@, fr.x), !.stage = Append(@, "added")]
<1>1. ResponsesAccept(c, fr) = d
  <2> HIDE DEF d
  <2> QED BY DEF ResponsesAccept, Holding, d
<1> DEFINE x == Append(b, fr.x)
           y == Append(g, "added")
<1>2. IsSeq(x) /\ IsSeq(y) /\ Len(x) = Len(y)
  BY SeqAdd DEF Holding
<1>3. d = [c EXCEPT !.seq = q + 1, !.blocks = x, !.stage = y]
  BY DEF Holding, IsClient, ClientFields
<1> HIDE DEF d, x, y
<1>4. IsClient(d) /\ d.phase = c.phase /\ d.seq = q + 1 /\ d.blocks = x /\ d.stage = y
  BY <1>3 DEF Holding, IsClient, ClientFields
<1>5. Holding(d, x, y, q + 1)
  BY <1>2, <1>4 DEF Holding
<1> QED BY <1>1, <1>5 DEF x, y

\* Frames that are about an item.
LEMMA FrameItem ==
  ASSUME NEW c, NEW b, NEW g, NEW q, Holding(c, b, g, q), NEW fr, fr.seq = q,
         fr.pos \in 1..Len(b), fr.f \notin {"created", "added", "completed", "incomplete", "error"}
  PROVE  \E n : /\ ResponsesAccept(c, fr) = ItemAccept(n, fr) /\ Holding(n, b, g, q + 1)
<1> DEFINE n == [c EXCEPT !.seq = @ + 1]
<1>0. DOMAIN b = 1..Len(b)
  BY DEF Holding, IsSeq
<1>1. ResponsesAccept(c, fr) = ItemAccept(n, fr)
  <2>1. fr.pos \in DOMAIN c.blocks
    BY <1>0 DEF Holding
  <2>2. c.phase = "open" /\ fr.seq = c.seq
    BY DEF Holding
  <2> HIDE DEF n
  <2> QED BY <2>1, <2>2 DEF ResponsesAccept, n
<1>2. Holding(n, b, g, q + 1)
  BY DEF Holding, IsClient, ClientFields
<1> QED BY <1>1, <1>2

\* The stage of an item, or the item, or both, replaced.
LEMMA Replaced ==
  ASSUME NEW n, NEW b, NEW g, NEW q, Holding(n, b, g, q), NEW at \in 1..Len(b), NEW x, NEW v
  PROVE  /\ Holding([n EXCEPT !.stage[at] = v], b, [g EXCEPT ![at] = v], q)
         /\ Holding([n EXCEPT !.blocks[at] = x], [b EXCEPT ![at] = x], g, q)
         /\ Holding([n EXCEPT !.stage[at] = v, !.blocks[at] = x], [b EXCEPT ![at] = x], [g EXCEPT ![at] = v], q)
<1> DEFINE e == [b EXCEPT ![at] = x]
           h == [g EXCEPT ![at] = v]
<1>1. IsSeq(b) /\ IsSeq(g) /\ at \in 1..Len(b) /\ at \in 1..Len(g)
  BY DEF Holding
<1>2. IsSeq(e) /\ Len(e) = Len(b) /\ IsSeq(h) /\ Len(h) = Len(g)
  BY <1>1, SeqSet
<1>3. [n EXCEPT !.stage[at] = v] = [n EXCEPT !.stage = h]
  BY DEF Holding
<1>4. [n EXCEPT !.blocks[at] = x] = [n EXCEPT !.blocks = e]
  BY DEF Holding
<1>5. [n EXCEPT !.stage[at] = v, !.blocks[at] = x] = [n EXCEPT !.stage = h, !.blocks = e]
  BY DEF Holding, IsClient, ClientFields
<1> HIDE DEF e, h
<1>6. Holding([n EXCEPT !.stage = h], b, h, q)
  BY <1>2 DEF Holding, IsClient, ClientFields
<1>7. Holding([n EXCEPT !.blocks = e], e, g, q)
  BY <1>2 DEF Holding, IsClient, ClientFields
<1>8. Holding([n EXCEPT !.stage = h, !.blocks = e], e, h, q)
  BY <1>2 DEF Holding, IsClient, ClientFields
<1> QED BY <1>3, <1>4, <1>5, <1>6, <1>7, <1>8 DEF e, h

-----------------------------------------------------------------------------
\* An encoder whose next frame the client waits for.
Meets(s, c, b, g) == dialect = "responses" /\ IsResp(s) /\ Holding(c, b, g, s.seq)

\* A frame about an item the client has.
LEMMA LeadsItem ==
  ASSUME NEW s, NEW c, NEW b, NEW g, Meets(s, c, b, g), NEW pos \in 1..Len(b), NEW kind, NEW x,
         kind \notin {"created", "added", "completed", "incomplete", "error"}, NEW d, NEW h,
         \A n : Holding(n, b, g, s.seq + 1) =>
                Holding(ItemAccept(n, Framed(s, kind, pos, x)), d, h, s.seq + 1)
  PROVE  Leads(c, R!Event(s, kind, pos, x), NextSeq(s), d, h)
<1> DEFINE fr == Framed(s, kind, pos, x)
<1>1. fr.seq = s.seq /\ fr.pos \in 1..Len(b) /\ fr.f = kind
  BY DEF Framed
<1> HIDE DEF fr
<1>2. PICK n : ResponsesAccept(c, fr) = ItemAccept(n, fr) /\ Holding(n, b, g, s.seq + 1)
  BY <1>1, FrameItem DEF Meets
<1>3. Holding(ResponsesAccept(c, fr), d, h, s.seq + 1)
  BY <1>2 DEF fr
<1> QED BY <1>3, LeadsEvent DEF Meets, fr

\* An item's part is announced.
LEMMA LeadsPart ==
  ASSUME NEW s, NEW c, NEW b, NEW g, Meets(s, c, b, g), NEW pos \in 1..Len(b), NEW x,
         g[pos] = "added", b[pos].kind \in {"text", "reasoning"}
  PROVE  Leads(c, R!Event(s, "part", pos, x), NextSeq(s), b, [g EXCEPT ![pos] = "part"])
<1> DEFINE fr == Framed(s, "part", pos, x)
<1>1. ASSUME NEW n, Holding(n, b, g, s.seq + 1)
      PROVE Holding(ItemAccept(n, fr), b, [g EXCEPT ![pos] = "part"], s.seq + 1)
  <2>1. ItemAccept(n, fr) = [n EXCEPT !.stage[pos] = "part"]
    BY <1>1 DEF ItemAccept, Framed, Holding
  <2> HIDE DEF fr
  <2>2. Holding([n EXCEPT !.stage[pos] = "part"], b, [g EXCEPT ![pos] = "part"], s.seq + 1)
    BY <1>1, Replaced, Zenon
  <2> QED BY <2>1, <2>2
<1> QED BY <1>1, LeadsItem

\* A delta reaches an item whose part is open.
LEMMA LeadsDelta ==
  ASSUME NEW s, NEW c, NEW b, NEW g, Meets(s, c, b, g), NEW pos \in 1..Len(b), NEW x,
         g[pos] = "part"
  PROVE  Leads(c, R!Event(s, "delta", pos, x), NextSeq(s),
               [b EXCEPT ![pos] = [b[pos] EXCEPT !.body = b[pos].body \o x]], g)
<1> DEFINE fr == Framed(s, "delta", pos, x)
           y == [b[pos] EXCEPT !.body = b[pos].body \o x]
<1>1. ASSUME NEW n, Holding(n, b, g, s.seq + 1)
      PROVE Holding(ItemAccept(n, fr), [b EXCEPT ![pos] = y], g, s.seq + 1)
  <2>1. ItemAccept(n, fr) = [n EXCEPT !.blocks[pos] = y]
    BY <1>1 DEF ItemAccept, Framed, Holding
  <2> HIDE DEF fr, y
  <2>2. Holding([n EXCEPT !.blocks[pos] = y], [b EXCEPT ![pos] = y], g, s.seq + 1)
    BY <1>1, Replaced, Zenon
  <2> QED BY <2>1, <2>2
<1> HIDE DEF y, fr
<1> QED BY <1>1, LeadsItem DEF y, fr

\* A citation reaches an item whose part is open.
LEMMA LeadsCite ==
  ASSUME NEW s, NEW c, NEW b, NEW g, Meets(s, c, b, g), NEW pos \in 1..Len(b), NEW x,
         g[pos] = "part"
  PROVE  Leads(c, R!Event(s, "cite", pos, x), NextSeq(s),
               [b EXCEPT ![pos] = [b[pos] EXCEPT !.cites = Append(b[pos].cites, x)]], g)
<1> DEFINE fr == Framed(s, "cite", pos, x)
           y == [b[pos] EXCEPT !.cites = Append(b[pos].cites, x)]
<1>1. ASSUME NEW n, Holding(n, b, g, s.seq + 1)
      PROVE Holding(ItemAccept(n, fr), [b EXCEPT ![pos] = y], g, s.seq + 1)
  <2>1. ItemAccept(n, fr) = [n EXCEPT !.blocks[pos] = y]
    BY <1>1 DEF ItemAccept, Framed, Holding
  <2> HIDE DEF fr, y
  <2>2. Holding([n EXCEPT !.blocks[pos] = y], [b EXCEPT ![pos] = y], g, s.seq + 1)
    BY <1>1, Replaced, Zenon
  <2> QED BY <2>1, <2>2
<1> HIDE DEF y, fr
<1> QED BY <1>1, LeadsItem DEF y, fr

\* Arguments reach a call that is not done.
LEMMA LeadsArgs ==
  ASSUME NEW s, NEW c, NEW b, NEW g, Meets(s, c, b, g), NEW pos \in 1..Len(b), NEW x,
         g[pos] = "added", b[pos].kind = "tool_use"
  PROVE  Leads(c, R!Event(s, "args", pos, x), NextSeq(s),
               [b EXCEPT ![pos] = [b[pos] EXCEPT !.body = b[pos].body \o x]], g)
<1> DEFINE fr == Framed(s, "args", pos, x)
           y == [b[pos] EXCEPT !.body = b[pos].body \o x]
<1>1. ASSUME NEW n, Holding(n, b, g, s.seq + 1)
      PROVE Holding(ItemAccept(n, fr), [b EXCEPT ![pos] = y], g, s.seq + 1)
  <2>1. ItemAccept(n, fr) = [n EXCEPT !.blocks[pos] = y]
    BY <1>1 DEF ItemAccept, Framed, Holding
  <2> HIDE DEF fr, y
  <2>2. Holding([n EXCEPT !.blocks[pos] = y], [b EXCEPT ![pos] = y], g, s.seq + 1)
    BY <1>1, Replaced, Zenon
  <2> QED BY <2>1, <2>2
<1> HIDE DEF y, fr
<1> QED BY <1>1, LeadsItem DEF y, fr

\* The frames that close an item's text or arguments.
LEMMA LeadsStage ==
  ASSUME NEW s, NEW c, NEW b, NEW g, Meets(s, c, b, g), NEW pos \in 1..Len(b),
         NEW x, x = b[pos].body
  PROVE  /\ g[pos] = "part" =>
              Leads(c, R!Event(s, "text_done", pos, x), NextSeq(s), b, [g EXCEPT ![pos] = "text"])
         /\ g[pos] = "text" =>
              Leads(c, R!Event(s, "part_done", pos, x), NextSeq(s), b, [g EXCEPT ![pos] = "closed"])
         /\ g[pos] = "added" /\ b[pos].kind = "tool_use" =>
              Leads(c, R!Event(s, "args_done", pos, x), NextSeq(s), b, [g EXCEPT ![pos] = "closed"])
<1>1. CASE g[pos] = "part"
  <2> DEFINE fr == Framed(s, "text_done", pos, x)
  <2>1. ASSUME NEW n, Holding(n, b, g, s.seq + 1)
        PROVE Holding(ItemAccept(n, fr), b, [g EXCEPT ![pos] = "text"], s.seq + 1)
    <3>1. ItemAccept(n, fr) = [n EXCEPT !.stage[pos] = "text"]
      BY <1>1, <2>1 DEF ItemAccept, Framed, Holding
    <3> HIDE DEF fr
    <3>2. Holding([n EXCEPT !.stage[pos] = "text"], b, [g EXCEPT ![pos] = "text"], s.seq + 1)
      BY <2>1, Replaced, Zenon
    <3> QED BY <3>1, <3>2
  <2> QED BY <1>1, <2>1, LeadsItem
<1>2. CASE g[pos] = "text"
  <2> DEFINE fr == Framed(s, "part_done", pos, x)
  <2>1. ASSUME NEW n, Holding(n, b, g, s.seq + 1)
        PROVE Holding(ItemAccept(n, fr), b, [g EXCEPT ![pos] = "closed"], s.seq + 1)
    <3>1. ItemAccept(n, fr) = [n EXCEPT !.stage[pos] = "closed"]
      BY <1>2, <2>1 DEF ItemAccept, Framed, Holding
    <3> HIDE DEF fr
    <3>2. Holding([n EXCEPT !.stage[pos] = "closed"], b, [g EXCEPT ![pos] = "closed"], s.seq + 1)
      BY <2>1, Replaced, Zenon
    <3> QED BY <3>1, <3>2
  <2> QED BY <1>2, <2>1, LeadsItem
<1>3. CASE g[pos] = "added" /\ b[pos].kind = "tool_use"
  <2> DEFINE fr == Framed(s, "args_done", pos, x)
  <2>1. ASSUME NEW n, Holding(n, b, g, s.seq + 1)
        PROVE Holding(ItemAccept(n, fr), b, [g EXCEPT ![pos] = "closed"], s.seq + 1)
    <3>1. ItemAccept(n, fr) = [n EXCEPT !.stage[pos] = "closed"]
      BY <1>3, <2>1 DEF ItemAccept, Framed, Holding
    <3> HIDE DEF fr
    <3>2. Holding([n EXCEPT !.stage[pos] = "closed"], b, [g EXCEPT ![pos] = "closed"], s.seq + 1)
      BY <2>1, Replaced, Zenon
    <3> QED BY <3>1, <3>2
  <2> QED BY <1>3, <2>1, LeadsItem
<1> QED BY <1>1, <1>2, <1>3

\* A search's progress changes no item.
LEMMA LeadsSearch ==
  ASSUME NEW s, NEW c, NEW b, NEW g, Meets(s, c, b, g), NEW pos \in 1..Len(b), NEW x,
         g[pos] = "added", b[pos].kind = "search", NEW kind \in {"searching", "searched"}
  PROVE  Leads(c, R!Event(s, kind, pos, x), NextSeq(s), b, g)
<1> DEFINE fr == Framed(s, kind, pos, x)
<1>1. ASSUME NEW n, Holding(n, b, g, s.seq + 1)
      PROVE Holding(ItemAccept(n, fr), b, g, s.seq + 1)
  <2>1. ItemAccept(n, fr) = n
    BY <1>1 DEF ItemAccept, Framed, Holding
  <2> QED BY <1>1, <2>1
<1> QED BY <1>1, LeadsItem

\* An item may be called done.
Ended(b, x, stage) ==
  /\ x.kind = b.kind /\ x.id = b.id /\ x.body = b.body /\ x.cites = b.cites
  /\ stage = "closed" \/ (stage = "added" /\ b.kind \notin {"text", "tool_use"})

\* An item is done, as the encoder has it.
LEMMA LeadsDone ==
  ASSUME NEW s, NEW c, NEW b, NEW g, Meets(s, c, b, g), NEW pos \in 1..Len(b),
         NEW x, x = s.output[pos], Ended(b[pos], x, g[pos])
  PROVE  Leads(c, R!Done(s, pos), NextSeq(s), [b EXCEPT ![pos] = x], [g EXCEPT ![pos] = "done"])
<1> DEFINE fr == Framed(s, "done", pos, x)
<1>1. ASSUME NEW n, Holding(n, b, g, s.seq + 1)
      PROVE Holding(ItemAccept(n, fr), [b EXCEPT ![pos] = x], [g EXCEPT ![pos] = "done"], s.seq + 1)
  <2>1. ItemAccept(n, fr) = [n EXCEPT !.stage[pos] = "done", !.blocks[pos] = x]
    BY <1>1 DEF ItemAccept, Framed, Holding, Ended
  <2> HIDE DEF fr
  <2>2. Holding([n EXCEPT !.stage[pos] = "done", !.blocks[pos] = x], [b EXCEPT ![pos] = x], [g EXCEPT ![pos] = "done"], s.seq + 1)
    BY <1>1, Replaced, Zenon
  <2> QED BY <2>1, <2>2
<1>2. R!Done(s, pos) = R!Event(s, "done", pos, x)
  BY DEF R!Done
<1>3. Leads(c, R!Event(s, "done", pos, x), NextSeq(s), [b EXCEPT ![pos] = x], [g EXCEPT ![pos] = "done"])
  BY <1>1, LeadsItem
<1> QED BY <1>2, <1>3

\* An item is added.
LEMMA LeadsAdd ==
  ASSUME NEW s, NEW c, NEW b, NEW g, Meets(s, c, b, g), s.output = b, NEW item
  PROVE  Leads(c, R!Add(s, item, item), NextSeq([s EXCEPT !.output = Append(@, item)]),
               Append(b, item), Append(g, "added"))
<1> DEFINE t == [s EXCEPT !.output = Append(@, item)]
           fr == Framed(t, "added", Len(s.output) + 1, item)
<1>1. IsResp(t) /\ t.seq = s.seq
  BY DEF Meets, IsResp, RespFields
<1> HIDE DEF t
<1>2. fr.seq = s.seq /\ fr.f = "added" /\ fr.pos = Len(b) + 1 /\ fr.x = item
  BY <1>1 DEF Framed
<1> HIDE DEF fr
<1>3. Holding(ResponsesAccept(c, fr), Append(b, item), Append(g, "added"), t.seq + 1)
  BY <1>1, <1>2, FrameAdded DEF Meets
<1>4. R!Add(s, item, item) = R!Event(t, "added", Len(s.output) + 1, item)
  BY DEF R!Add, t
<1>5. Leads(c, R!Event(t, "added", Len(s.output) + 1, item), NextSeq(t), Append(b, item), Append(g, "added"))
  BY <1>1, <1>3, LeadsEvent DEF Meets, fr
<1> QED BY <1>4, <1>5 DEF t

-----------------------------------------------------------------------------
\* The sequence b is a with y at m, with x at its end.
Upd(a, b, m, y) ==
  /\ m \in 1..Len(a) /\ IsSeq(b) /\ Len(b) = Len(a) /\ b[m] = y
  /\ \A j \in 1..Len(a) : j # m => b[j] = a[j]
App(a, b, x) ==
  /\ IsSeq(b) /\ Len(b) = Len(a) + 1 /\ b[Len(a) + 1] = x
  /\ \A j \in 1..Len(a) : b[j] = a[j]

(***************************************************************************)
(* The items o of an answer, the stages g the client has them at, and what *)
(* the encoder holds open: the message m, the reasoning r, the calls ca    *)
(* and the searches se, with th, cl and ph as they were heard.             *)
(***************************************************************************)
Items(o, g) ==
  IsSeq(o) /\ IsSeq(g) /\ Len(o) \in Nat /\ Len(g) = Len(o) /\ \A j \in 1..Len(o) : IsBlock(o[j])
\* The open message and the open reasoning are items with an open part.
Talking(o, g, m) ==
  m \in 0..Len(o) /\ (m # 0 => o[m].kind = "text" /\ g[m] = "part")
Thinks(o, g, r, th) ==
  /\ r \in 0..Len(o)
  /\ r = 0 => th = <<>>
  /\ r # 0 => o[r].kind = "reasoning" /\ o[r].cites = <<>> /\ g[r] = "part" /\ th = <<[item |-> o[r].id, text |-> o[r].body]>>
\* The open call is an item that is added and not done.
CallAt(ca, cl) == ca[cl[1].index]
CallsHeld(o, g, ca, cl) ==
  cl # <<>> => /\ cl[1].index \in DOMAIN ca /\ CallAt(ca, cl) \in 1..Len(o)
               /\ g[CallAt(ca, cl)] = "added"
               /\ o[CallAt(ca, cl)].kind = "tool_use" /\ o[CallAt(ca, cl)].id = cl[1].id
               /\ o[CallAt(ca, cl)].body = cl[1].args
\* Each search has an item of its own, done when its last phase was heard.
Searches(o, g, se, ph) ==
  /\ DOMAIN se = DOMAIN ph
  /\ \A i \in DOMAIN se : /\ se[i] \in 1..Len(o) /\ o[se[i]].kind = "search"
                          /\ g[se[i]] = IF PhaseRank(ph[i]) < 2 THEN "added" ELSE "done"
                          /\ \A j \in DOMAIN se : se[i] = se[j] => i = j
\* Every other item is done.
Rest(o, g, m, r, ca, cl) ==
  \A j \in 1..Len(o) : \/ g[j] = "done" \/ o[j].kind = "search" \/ j = m \/ j = r
                       \/ cl # <<>> /\ j = CallAt(ca, cl)

RS(o, g, m, r, ca, se, th, cl, ph) ==
  /\ Items(o, g) /\ Talking(o, g, m) /\ Thinks(o, g, r, th) /\ CallsHeld(o, g, ca, cl)
  /\ Searches(o, g, se, ph) /\ Rest(o, g, m, r, ca, cl)

\* A message opens when none is open.
LEMMA NewMessage ==
  ASSUME NEW o, NEW g, NEW r, NEW ca, NEW se, NEW th, NEW cl, NEW ph, RS(o, g, 0, r, ca, se, th, cl, ph),
         NEW x, IsBlock(x), x.kind = "text", NEW p, App(o, p, x), NEW h, App(g, h, "part")
  PROVE  RS(p, h, Len(o) + 1, r, ca, se, th, cl, ph)
<1>1. Items(p, h)
  BY DEF RS, App, Items
<1>2. Talking(p, h, Len(o) + 1)
  BY DEF RS, App, Items, Talking
<1>3. Thinks(p, h, r, th)
  BY DEF RS, App, Items, Thinks
<1>4. CallsHeld(p, h, ca, cl)
  BY DEF RS, App, Items, CallsHeld, CallAt
<1>5. Searches(p, h, se, ph)
  BY DEF RS, App, Items, Searches
<1>6. Rest(p, h, Len(o) + 1, r, ca, cl)
  BY DEF RS, App, Items, Rest, CallAt
<1> QED BY <1>1, <1>2, <1>3, <1>4, <1>5, <1>6 DEF RS

\* Reasoning opens when none is open.
LEMMA NewReasoning ==
  ASSUME NEW o, NEW g, NEW m, NEW ca, NEW se, NEW th, NEW cl, NEW ph, RS(o, g, m, 0, ca, se, th, cl, ph),
         NEW x, IsBlock(x), x.kind = "reasoning", x.cites = <<>>, NEW p, App(o, p, x), NEW h, App(g, h, "part")
  PROVE  RS(p, h, m, Len(o) + 1, ca, se, <<[item |-> x.id, text |-> x.body]>>, cl, ph)
<1>1. Items(p, h)
  BY DEF RS, App, Items
<1>2. Talking(p, h, m)
  BY DEF RS, App, Items, Talking
<1>3. Thinks(p, h, Len(o) + 1, <<[item |-> x.id, text |-> x.body]>>)
  BY DEF RS, App, Items, Thinks
<1>4. CallsHeld(p, h, ca, cl)
  BY DEF RS, App, Items, CallsHeld, CallAt
<1>5. Searches(p, h, se, ph)
  BY DEF RS, App, Items, Searches
<1>6. Rest(p, h, m, Len(o) + 1, ca, cl)
  BY DEF RS, App, Items, Rest, CallAt
<1> QED BY <1>1, <1>2, <1>3, <1>4, <1>5, <1>6 DEF RS

\* An item is added and done at once.
LEMMA NewWhole ==
  ASSUME NEW o, NEW g, NEW m, NEW r, NEW ca, NEW se, NEW th, NEW cl, NEW ph, RS(o, g, m, r, ca, se, th, cl, ph),
         NEW x, IsBlock(x), NEW p, App(o, p, x), NEW h, App(g, h, "done")
  PROVE  RS(p, h, m, r, ca, se, th, cl, ph)
<1>1. Items(p, h)
  BY DEF RS, App, Items
<1>2. Talking(p, h, m)
  BY DEF RS, App, Items, Talking
<1>3. Thinks(p, h, r, th)
  BY DEF RS, App, Items, Thinks
<1>4. CallsHeld(p, h, ca, cl)
  BY DEF RS, App, Items, CallsHeld, CallAt
<1>5. Searches(p, h, se, ph)
  BY DEF RS, App, Items, Searches
<1>6. Rest(p, h, m, r, ca, cl)
  BY DEF RS, App, Items, Rest, CallAt
<1> QED BY <1>1, <1>2, <1>3, <1>4, <1>5, <1>6 DEF RS

\* A call opens when none is open.
LEMMA NewCall ==
  ASSUME NEW o, NEW g, NEW m, NEW r, NEW ca, NEW se, NEW th, NEW ph, RS(o, g, m, r, ca, se, th, <<>>, ph),
         NEW x, IsBlock(x), x.kind = "tool_use", NEW p, App(o, p, x), NEW h, App(g, h, "added"),
         NEW cl, cl # <<>>, cl[1].id = x.id, cl[1].args = x.body, NEW da,
         cl[1].index \in DOMAIN da, da[cl[1].index] = Len(o) + 1
  PROVE  RS(p, h, m, r, da, se, th, cl, ph)
<1>1. Items(p, h)
  BY DEF RS, App, Items
<1>2. Talking(p, h, m)
  BY DEF RS, App, Items, Talking
<1>3. Thinks(p, h, r, th)
  BY DEF RS, App, Items, Thinks
<1>4. CallsHeld(p, h, da, cl)
  BY DEF RS, App, Items, CallsHeld, CallAt
<1>5. Searches(p, h, se, ph)
  BY DEF RS, App, Items, Searches
<1>6. Rest(p, h, m, r, da, cl)
  BY DEF RS, App, Items, Rest, CallAt
<1> QED BY <1>1, <1>2, <1>3, <1>4, <1>5, <1>6 DEF RS

\* A search is added.
LEMMA NewSearch ==
  ASSUME NEW o, NEW g, NEW m, NEW r, NEW ca, NEW se, NEW th, NEW cl, NEW ph, RS(o, g, m, r, ca, se, th, cl, ph),
         NEW x, IsBlock(x), x.kind = "search", NEW p, App(o, p, x), NEW h, App(g, h, "added"),
         NEW i, i \notin DOMAIN se, NEW v, PhaseRank(v) < 2
  PROVE  RS(p, h, m, r, ca, With(se, i, Len(o) + 1), th, cl, With(ph, i, v))
<1> DEFINE te == With(se, i, Len(o) + 1)
           qh == With(ph, i, v)
<1>1. /\ DOMAIN te = DOMAIN se \cup {i} /\ te[i] = Len(o) + 1 /\ \A j \in DOMAIN se : te[j] = se[j]
      /\ DOMAIN qh = DOMAIN se \cup {i} /\ qh[i] = v /\ \A j \in DOMAIN se : qh[j] = ph[j]
  BY DEF With, RS, Searches
<1> HIDE DEF te, qh
<1>2. Searches(p, h, te, qh)
  BY <1>1 DEF RS, App, Items, Searches
<1>3. Items(p, h)
  BY DEF RS, App, Items
<1>4. Talking(p, h, m)
  BY DEF RS, App, Items, Talking
<1>5. Thinks(p, h, r, th)
  BY DEF RS, App, Items, Thinks
<1>6. CallsHeld(p, h, ca, cl)
  BY DEF RS, App, Items, CallsHeld, CallAt
<1>7. Rest(p, h, m, r, ca, cl)
  BY DEF RS, App, Items, Rest, CallAt
<1> QED BY <1>2, <1>3, <1>4, <1>5, <1>6, <1>7 DEF RS, te, qh

\* The open message is done.
LEMMA EndMessage ==
  ASSUME NEW o, NEW g, NEW m, NEW r, NEW ca, NEW se, NEW th, NEW cl, NEW ph, RS(o, g, m, r, ca, se, th, cl, ph),
         m # 0, NEW x, IsBlock(x), x.kind = "text", NEW p, Upd(o, p, m, x), NEW h, Upd(g, h, m, "done")
  PROVE  RS(p, h, 0, r, ca, se, th, cl, ph)
<1>1. Items(p, h) /\ Talking(p, h, 0)
  BY DEF RS, Upd, Items, Talking
<1>2. Thinks(p, h, r, th)
  BY DEF RS, Upd, Items, Talking, Thinks
<1>3. CallsHeld(p, h, ca, cl)
  BY DEF RS, Upd, Items, Talking, CallsHeld, CallAt
<1>4. Searches(p, h, se, ph)
  BY DEF RS, Upd, Items, Talking, Searches
<1>5. Rest(p, h, 0, r, ca, cl)
  BY DEF RS, Upd, Items, Talking, Rest, CallAt
<1> QED BY <1>1, <1>2, <1>3, <1>4, <1>5 DEF RS

\* The open reasoning is done.
LEMMA EndReasoning ==
  ASSUME NEW o, NEW g, NEW m, NEW r, NEW ca, NEW se, NEW th, NEW cl, NEW ph, RS(o, g, m, r, ca, se, th, cl, ph),
         r # 0, NEW x, IsBlock(x), x.kind = "reasoning", NEW p, Upd(o, p, r, x), NEW h, Upd(g, h, r, "done")
  PROVE  RS(p, h, m, 0, ca, se, <<>>, cl, ph)
<1>1. Items(p, h) /\ Thinks(p, h, 0, <<>>)
  BY DEF RS, Upd, Items, Thinks
<1>2. Talking(p, h, m)
  BY DEF RS, Upd, Items, Talking, Thinks
<1>3. CallsHeld(p, h, ca, cl)
  BY DEF RS, Upd, Items, Thinks, CallsHeld, CallAt
<1>4. Searches(p, h, se, ph)
  BY DEF RS, Upd, Items, Thinks, Searches
<1>5. Rest(p, h, m, 0, ca, cl)
  BY DEF RS, Upd, Items, Thinks, Rest, CallAt
<1> QED BY <1>1, <1>2, <1>3, <1>4, <1>5 DEF RS

\* The open call is done.
LEMMA EndCall ==
  ASSUME NEW o, NEW g, NEW m, NEW r, NEW ca, NEW se, NEW th, NEW cl, NEW ph, RS(o, g, m, r, ca, se, th, cl, ph),
         cl # <<>>, NEW x, IsBlock(x), x.kind = "tool_use",
         NEW p, Upd(o, p, CallAt(ca, cl), x), NEW h, Upd(g, h, CallAt(ca, cl), "done")
  PROVE  RS(p, h, m, r, ca, se, th, <<>>, ph)
<1>1. Items(p, h) /\ CallsHeld(p, h, ca, <<>>)
  BY DEF RS, Upd, Items, CallsHeld
<1>2. Talking(p, h, m)
  BY DEF RS, Upd, Items, Talking, CallsHeld
<1>3. Thinks(p, h, r, th)
  BY DEF RS, Upd, Items, Thinks, CallsHeld
<1>4. Searches(p, h, se, ph)
  BY DEF RS, Upd, Items, CallsHeld, Searches
<1>5. Rest(p, h, m, r, ca, <<>>)
  BY DEF RS, Upd, Items, CallsHeld, Rest, CallAt
<1> QED BY <1>1, <1>2, <1>3, <1>4, <1>5 DEF RS

\* A search is done.
LEMMA EndSearch ==
  ASSUME NEW o, NEW g, NEW m, NEW r, NEW ca, NEW se, NEW th, NEW cl, NEW ph, RS(o, g, m, r, ca, se, th, cl, ph),
         NEW i \in DOMAIN se, NEW x, IsBlock(x), x.kind = "search",
         NEW p, Upd(o, p, se[i], x), NEW h, Upd(g, h, se[i], "done"), NEW v, ~(PhaseRank(v) < 2)
  PROVE  RS(p, h, m, r, ca, se, th, cl, With(ph, i, v))
<1> DEFINE qh == With(ph, i, v)
<1>1. DOMAIN qh = DOMAIN se /\ qh[i] = v /\ \A j \in DOMAIN se : j # i => qh[j] = ph[j]
  BY DEF With, RS, Searches
<1> HIDE DEF qh
<1>2. Searches(p, h, se, qh)
  BY <1>1 DEF RS, Upd, Items, Searches
<1>3. Items(p, h)
  BY DEF RS, Upd, Items
<1>4. Talking(p, h, m)
  BY DEF RS, Upd, Items, Talking, Searches
<1>5. Thinks(p, h, r, th)
  BY DEF RS, Upd, Items, Thinks, Searches
<1>6. CallsHeld(p, h, ca, cl)
  BY DEF RS, Upd, Items, CallsHeld, CallAt, Searches
<1>7. Rest(p, h, m, r, ca, cl)
  BY DEF RS, Upd, Items, Rest, CallAt
<1> QED BY <1>2, <1>3, <1>4, <1>5, <1>6, <1>7 DEF RS, qh

\* A search goes on.
LEMMA StepSearch ==
  ASSUME NEW o, NEW g, NEW m, NEW r, NEW ca, NEW se, NEW th, NEW cl, NEW ph, RS(o, g, m, r, ca, se, th, cl, ph),
         NEW i \in DOMAIN se, PhaseRank(ph[i]) < 2, NEW v, PhaseRank(v) < 2
  PROVE  RS(o, g, m, r, ca, se, th, cl, With(ph, i, v))
<1> DEFINE qh == With(ph, i, v)
<1>1. DOMAIN qh = DOMAIN se /\ qh[i] = v /\ \A j \in DOMAIN se : j # i => qh[j] = ph[j]
  BY DEF With, RS, Searches
<1> HIDE DEF qh
<1>2. Searches(o, g, se, qh)
  BY <1>1 DEF RS, Searches
<1> QED BY <1>2 DEF RS, qh

\* The open message grows.
LEMMA MoreText ==
  ASSUME NEW o, NEW g, NEW m, NEW r, NEW ca, NEW se, NEW th, NEW cl, NEW ph, RS(o, g, m, r, ca, se, th, cl, ph),
         m # 0, NEW x, IsBlock(x), x.kind = "text", NEW p, Upd(o, p, m, x)
  PROVE  RS(p, g, m, r, ca, se, th, cl, ph)
BY DEF RS, Upd, Items, Talking, Thinks, CallsHeld, Searches, Rest, CallAt

\* The open reasoning grows.
LEMMA MoreThought ==
  ASSUME NEW o, NEW g, NEW m, NEW r, NEW ca, NEW se, NEW th, NEW cl, NEW ph, RS(o, g, m, r, ca, se, th, cl, ph),
         r # 0, NEW x, IsBlock(x), x.kind = "reasoning", x.cites = <<>>, NEW p, Upd(o, p, r, x)
  PROVE  RS(p, g, m, r, ca, se, <<[item |-> x.id, text |-> x.body]>>, cl, ph)
BY DEF RS, Upd, Items, Talking, Thinks, CallsHeld, Searches, Rest, CallAt

\* The open call's arguments grow.
LEMMA MoreArgs ==
  ASSUME NEW o, NEW g, NEW m, NEW r, NEW ca, NEW se, NEW th, NEW cl, NEW ph, RS(o, g, m, r, ca, se, th, cl, ph),
         cl # <<>>, NEW x, IsBlock(x), x.kind = "tool_use", NEW p, Upd(o, p, CallAt(ca, cl), x),
         NEW dl, dl # <<>>, dl[1].index = cl[1].index, dl[1].id = x.id, dl[1].args = x.body
  PROVE  RS(p, g, m, r, ca, se, th, dl, ph)
<1>1. Items(p, g)
  BY DEF RS, Upd, Items
<1>2. Talking(p, g, m)
  BY DEF RS, Upd, Items, Talking, CallsHeld, CallAt
<1>3. Thinks(p, g, r, th)
  BY DEF RS, Upd, Items, Thinks, CallsHeld, CallAt
<1>4. CallsHeld(p, g, ca, dl)
  BY DEF RS, Upd, Items, CallsHeld, CallAt
<1>5. Searches(p, g, se, ph)
  BY DEF RS, Upd, Items, Searches, CallsHeld, CallAt
<1>6. Rest(p, g, m, r, ca, dl)
  BY DEF RS, Upd, Items, Rest, CallAt
<1> QED BY <1>1, <1>2, <1>3, <1>4, <1>5, <1>6 DEF RS

-----------------------------------------------------------------------------
\* Append adds an element at the end.
LEMMA AppIs ==
  ASSUME NEW a, IsSeq(a), NEW x
  PROVE  /\ App(a, Append(a, x), x)
         /\ \A y : App(a, [Append(a, x) EXCEPT ![Len(a) + 1] = y], y)
<1> DEFINE b == Append(a, x)
           n == Len(a) + 1
<1>1. IsSeq(b) /\ Len(b) = n /\ b[n] = x /\ \A j \in 1..Len(a) : b[j] = a[j]
  BY SeqAdd
<1>2. Len(a) \in Nat
  BY DEF IsSeq
<1>3. n \in 1..Len(b)
  BY <1>1, <1>2
<1> HIDE DEF b, n
<1>4. App(a, b, x)
  BY <1>1 DEF App, n
<1>5. ASSUME NEW y PROVE App(a, [b EXCEPT ![n] = y], y)
  <2> DEFINE d == [b EXCEPT ![n] = y]
  <2>0. IsSeq(b) /\ n \in 1..Len(b)
    BY <1>1, <1>3
  <2>1. /\ IsSeq([b EXCEPT ![n] = y]) /\ Len([b EXCEPT ![n] = y]) = Len(b) /\ [b EXCEPT ![n] = y][n] = y
        /\ \A j \in 1..Len(b) : j # n => [b EXCEPT ![n] = y][j] = b[j]
    BY <2>0, SeqSet
  <2> HIDE DEF d
  <2>2. IsSeq(d) /\ Len(d) = Len(b) /\ d[n] = y /\ \A j \in 1..Len(b) : j # n => d[j] = b[j]
    BY <2>1 DEF d
  <2>3. App(a, d, y)
    BY <1>1, <1>2, <2>2 DEF App, n
  <2> QED BY <2>3 DEF d
<1> QED BY <1>4, <1>5 DEF b, n

\* EXCEPT updates one element.
LEMMA UpdIs ==
  ASSUME NEW a, IsSeq(a), NEW m \in 1..Len(a), NEW y
  PROVE  Upd(a, [a EXCEPT ![m] = y], m, y)
<1> DEFINE d == [a EXCEPT ![m] = y]
<1>1. IsSeq(d) /\ Len(d) = Len(a) /\ d[m] = y /\ \A j \in 1..Len(a) : j # m => d[j] = a[j]
  BY SeqSet
<1> HIDE DEF d
<1>2. Upd(a, d, m, y)
  BY <1>1 DEF Upd
<1> QED BY <1>2 DEF d

\* The same element updated twice.
LEMMA UpdMore ==
  ASSUME NEW a, NEW b, NEW m, NEW x, Upd(a, b, m, x), NEW y
  PROVE  Upd(a, [b EXCEPT ![m] = y], m, y) /\ IsSeq(b) /\ Len(b) = Len(a) /\ m \in 1..Len(b) /\ b[m] = x
<1> DEFINE d == [b EXCEPT ![m] = y]
<1>0. IsSeq(b) /\ m \in 1..Len(b) /\ Len(b) = Len(a) /\ b[m] = x
  BY DEF Upd
<1>1. IsSeq(d) /\ Len(d) = Len(b) /\ d[m] = y /\ \A j \in 1..Len(b) : j # m => d[j] = b[j]
  BY <1>0, SeqSet
<1> HIDE DEF d
<1>2. Upd(a, d, m, y)
  BY <1>0, <1>1 DEF Upd
<1> QED BY <1>0, <1>2 DEF d

\* Two sequences that differ at m only.
LEMMA SetTo ==
  ASSUME NEW a, NEW b, NEW m, NEW x, Upd(b, a, m, x), IsSeq(b)
  PROVE  [b EXCEPT ![m] = x] = a
<1> DEFINE d == [b EXCEPT ![m] = x]
<1>0. m \in 1..Len(b)
  BY DEF Upd
<1>1. IsSeq(d) /\ Len(d) = Len(b) /\ d[m] = x /\ \A j \in 1..Len(b) : j # m => d[j] = b[j]
  BY <1>0, SeqSet
<1> HIDE DEF d
<1>2. Len(a) = Len(d) /\ \A j \in 1..Len(d) : d[j] = a[j]
  BY <1>1 DEF Upd
<1>3. IsSeq(a) /\ IsSeq(d)
  BY <1>1 DEF Upd
<1>4. a = d
  BY <1>2, <1>3 DEF IsSeq
<1> QED BY <1>4 DEF d

\* The Responses client c has the items of its encoder s, after what k was told.
SeesR(s, k, c) ==
  /\ Meets(s, c, s.output, c.stage) /\ CallOK(k)
  /\ RS(s.output, c.stage, s.message, s.reasoning, s.calls, s.searches, k.think, k.call, k.phase)
  /\ s.reasoning # 0 => s.part = TRUE
  /\ s.terminal = FALSE

\* The Responses client after an outcome of the encoder.
ReachesR(k, c, r) == IsSeq(r.out) /\ (~r.err => SeesR(r.s, k, Accept(dialect, c, r.out)))

\* What leads the client to the encoder's items keeps the two together.
LEMMA LeadsSees ==
  ASSUME dialect = "responses", NEW c, NEW r, NEW t, NEW b, NEW g, Leads(c, r, t, b, g), IsResp(t), t.output = b,
         t.terminal = FALSE, t.reasoning # 0 => t.part = TRUE, NEW k, CallOK(k),
         RS(b, g, t.message, t.reasoning, t.calls, t.searches, k.think, k.call, k.phase)
  PROVE  ReachesR(k, c, r)
<1> DEFINE d == Accept(dialect, c, r.out)
<1>1. Holding(d, b, g, t.seq) /\ r.s = t /\ IsSeq(r.out)
  BY DEF Leads
<1> HIDE DEF d
<1>2. d.stage = g
  BY <1>1 DEF Holding
<1>3. SeesR(t, k, d)
  BY <1>1, <1>2 DEF SeesR, Meets
<1> QED BY <1>1, <1>3 DEF ReachesR, d

\* One operation after another.
LEMMA ReachesJoined ==
  ASSUME NEW c, NEW r, NEW l, ReachesR(l, c, r), NEW w, NEW k,
         \A d : SeesR(r.s, l, d) => ReachesR(k, d, w)
  PROVE  ReachesR(k, c, R!Joined(r, w))
<1> DEFINE d == Accept(dialect, c, r.out)
           j == R!Joined(r, w)
<1>1. CASE r.err
  BY <1>1 DEF ReachesR, R!Joined
<1>2. CASE ~r.err
  <2>1. SeesR(r.s, l, d) /\ IsSeq(r.out)
    BY <1>2 DEF ReachesR
  <2>2. ReachesR(k, d, w)
    BY <2>1
  <2>3. IsSeq(w.out) /\ (~w.err => SeesR(w.s, k, Accept(dialect, d, w.out)))
    BY <2>2 DEF ReachesR
  <2>4. j.s = w.s /\ j.err = w.err /\ j.out = IF w.err THEN <<>> ELSE r.out \o w.out
    BY <1>2 DEF R!Joined
  <2>5. IsSeq(j.out)
    BY <2>1, <2>3, <2>4, SeqJoin, SeqFew
  <2>6. ~w.err => Accept(dialect, c, j.out) = Accept(dialect, d, w.out)
    BY <2>1, <2>3, <2>4, AcceptAt
  <2> HIDE DEF j
  <2> QED BY <2>3, <2>4, <2>5, <2>6 DEF ReachesR, j
<1> QED BY <1>1, <1>2

\* An operation that sends nothing.
LEMMA ReachesNone ==
  ASSUME NEW s, NEW k, NEW c, SeesR(s, k, c)
  PROVE  ReachesR(k, c, R!Ok(s, <<>>))
<1>1. Accept(dialect, c, <<>>) = c
  BY AcceptAt
<1> QED BY <1>1, SeqFew DEF ReachesR, R!Ok

-----------------------------------------------------------------------------
\* Encoders that differ in their sequence numbers at most.
SameShape(s, t) ==
  /\ IsResp(s) /\ IsResp(t) /\ s.output = t.output /\ s.message = t.message /\ s.reasoning = t.reasoning
  /\ s.part = t.part /\ s.calls = t.calls /\ s.searches = t.searches /\ s.terminal = t.terminal

\* A sequence number more changes nothing else.
LEMMA NextAlike ==
  ASSUME NEW t, IsResp(t)
  PROVE  /\ SameShape(t, NextSeq(t)) /\ NextSeq(t).seq = t.seq + 1
         /\ SameShape(t, NextSeq(NextSeq(t)))
         /\ SameShape(t, NextSeq(NextSeq(NextSeq(t))))
<1>1. \A u : IsResp(u) => SameShape(u, NextSeq(u)) /\ NextSeq(u).seq = u.seq + 1
  BY DEF SameShape, NextSeq, IsResp, RespFields
<1>2. \A u, v, w : SameShape(u, v) /\ SameShape(v, w) => SameShape(u, w)
  BY DEF SameShape
<1>3. \A u, v : SameShape(u, v) => IsResp(v)
  BY DEF SameShape
<1> QED BY <1>1, <1>2, <1>3

\* An item with a part is closed and done.
Shut(t, pos, x) ==
  R!Then(R!Then(R!Event(t, "text_done", pos, x), LAMBDA r : R!Event(r, "part_done", pos, x)),
         LAMBDA r : R!Done(r, pos))

\* An item's text is closed, its part is closed, the item is done.
LEMMA LeadsShut ==
  ASSUME NEW t, NEW c, NEW b, NEW g, Meets(t, c, b, g), NEW pos \in 1..Len(b), g[pos] = "part",
         NEW y, Upd(b, t.output, pos, y), Ended(b[pos], y, "closed")
  PROVE  \E h : Upd(g, h, pos, "done") /\ Leads(c, Shut(t, pos, y.body), NextSeq(NextSeq(NextSeq(t))), t.output, h)
<1> DEFINE x == y.body
           e1 == R!Event(t, "text_done", pos, x)
           t1 == NextSeq(t)
           e2 == R!Event(t1, "part_done", pos, x)
           t2 == NextSeq(t1)
           e3 == R!Done(t2, pos)
           t3 == NextSeq(t2)
           h1 == [g EXCEPT ![pos] = "text"]
           h2 == [h1 EXCEPT ![pos] = "closed"]
           h3 == [h2 EXCEPT ![pos] = "done"]
           w == Shut(t, pos, x)
<1>0. /\ IsResp(t) /\ Holding(c, b, g, t.seq) /\ dialect = "responses" /\ IsSeq(g) /\ pos \in 1..Len(g)
      /\ x = b[pos].body /\ IsSeq(b) /\ Len(g) = Len(b)
  BY DEF Meets, Holding, Ended
<1>1. Upd(g, h1, pos, "text")
  BY <1>0, UpdIs
<1> HIDE DEF h1
<1>2. Upd(g, h2, pos, "closed") /\ h1[pos] = "text" /\ Len(h1) = Len(g) /\ IsSeq(h1)
  BY <1>1, UpdMore
<1> HIDE DEF h2
<1>3. Upd(g, h3, pos, "done") /\ h2[pos] = "closed" /\ Len(h2) = Len(g) /\ IsSeq(h2)
  BY <1>2, UpdMore
<1> HIDE DEF h3
<1>4. /\ SameShape(t, t1) /\ t1.seq = t.seq + 1
      /\ SameShape(t, t2) /\ t2.seq = t1.seq + 1
      /\ SameShape(t, t3)
  <2>1. SameShape(t, t1) /\ t1.seq = t.seq + 1 /\ SameShape(t, t2) /\ SameShape(t, t3)
    BY <1>0, NextAlike
  <2>2. IsResp(t1)
    BY <2>1 DEF SameShape
  <2>3. t2.seq = t1.seq + 1
    BY <2>2, NextAlike
  <2> QED BY <2>1, <2>3
<1>5. w = R!Joined(R!Joined(e1, R!Event(e1.s, "part_done", pos, x)), R!Done(R!Joined(e1, R!Event(e1.s, "part_done", pos, x)).s, pos))
  BY DEF Shut, R!Then
<1>6. Leads(c, e1, t1, b, h1)
  <2> HIDE DEF x
  <2> QED BY <1>0, LeadsStage DEF h1
<1>7. e1.s = t1
  <2> HIDE DEF e1, t1
  <2> QED BY <1>6 DEF Leads
<1> HIDE DEF e1, t1, x
<1>8. ASSUME NEW d, Holding(d, b, h1, t1.seq) PROVE Leads(d, e2, t2, b, h2)
  <2>1. Meets(t1, d, b, h1)
    BY <1>0, <1>4, <1>8 DEF Meets, SameShape
  <2> QED BY <1>0, <1>2, <2>1, LeadsStage DEF h2
<1> HIDE DEF e2, t2
<1>9. Leads(c, R!Joined(e1, e2), t2, b, h2)
  BY <1>6, <1>8, LeadsJoined
<1>10. R!Joined(e1, e2).s = t2
  BY <1>9 DEF Leads
<1>11. w = R!Joined(R!Joined(e1, e2), e3)
  BY <1>5, <1>7, <1>10 DEF e2
<1>12. ASSUME NEW d, Holding(d, b, h2, t2.seq) PROVE Leads(d, e3, t3, t.output, h3)
  <2>1. Meets(t2, d, b, h2)
    BY <1>0, <1>4, <1>12 DEF Meets, SameShape
  <2>2. t2.output[pos] = y
    BY <1>4 DEF SameShape, Upd
  <2>3. [b EXCEPT ![pos] = y] = t.output
    BY <1>0, SetTo
  <2>4. Leads(d, e3, t3, [b EXCEPT ![pos] = y], h3)
    <3>1. Ended(b[pos], y, h2[pos])
      BY <1>3
    <3> QED BY <1>0, <2>1, <2>2, <3>1, LeadsDone DEF h3
  <2> QED BY <2>3, <2>4
<1> HIDE DEF e3, t3
<1>13. Leads(c, w, t3, t.output, h3)
  <2> HIDE DEF w
  <2> QED BY <1>9, <1>11, <1>12, LeadsJoined
<1> QED BY <1>3, <1>13 DEF t3, t2, t1, x

\* An item is added and done at once.
Entire(s, item) == R!Then(R!Add(s, item, item), LAMBDA a : R!Done(a, Len(a.output)))

Arrives(s, c, g, item) ==
  \E t, h, p : /\ App(g, h, "done") /\ App(s.output, p, item) /\ Leads(c, Entire(s, item), t, p, h)
               /\ t.output = p /\ IsResp(t) /\ t.message = s.message /\ t.reasoning = s.reasoning
               /\ t.part = s.part /\ t.calls = s.calls /\ t.searches = s.searches
               /\ t.terminal = s.terminal

\* An item that arrives whole is added and done.
LEMMA LeadsEntire ==
  ASSUME NEW s, NEW c, NEW b, NEW g, Meets(s, c, b, g), b = s.output, NEW item,
         item.kind \notin {"text", "tool_use"}
  PROVE  Arrives(s, c, g, item)
<1> DEFINE a == R!Add(s, item, item)
           s0 == [s EXCEPT !.output = Append(@, item)]
           t1 == NextSeq(s0)
           n == Len(b) + 1
           b1 == Append(b, item)
           g1 == Append(g, "added")
           g2 == [g1 EXCEPT ![n] = "done"]
           e == R!Done(t1, n)
           t2 == NextSeq(t1)
<1>1. IsResp(s) /\ Holding(c, b, g, s.seq) /\ dialect = "responses" /\ IsSeq(g) /\ IsSeq(b) /\ Len(g) = Len(b)
      /\ Len(b) \in Nat
  BY DEF Meets, Holding, IsSeq
<1>2. Leads(c, a, t1, b1, g1)
  BY LeadsAdd
<1>3. a.s = t1
  <2> HIDE DEF a, t1
  <2> QED BY <1>2 DEF Leads
<1>4. App(b, b1, item) /\ App(g, g1, "added") /\ App(g, g2, "done") /\ App(b, [b1 EXCEPT ![n] = item], item)
  BY <1>1, AppIs
<1>5. /\ IsResp(s0) /\ s0.output = b1 /\ s0.message = s.message /\ s0.reasoning = s.reasoning
      /\ s0.part = s.part /\ s0.calls = s.calls /\ s0.searches = s.searches /\ s0.terminal = s.terminal
  BY <1>1 DEF IsResp, RespFields
<1> HIDE DEF s0, b1, g1, g2, a
<1>6. SameShape(s0, t1) /\ SameShape(s0, t2)
  BY <1>5, NextAlike
<1>7. t1.output = b1 /\ Len(b1) = n /\ n \in 1..Len(b1) /\ b1[n] = item /\ g1[n] = "added" /\ IsSeq(b1) /\ IsSeq(g1)
  BY <1>1, <1>4, <1>5, <1>6 DEF App, SameShape
<1>8. Entire(s, item) = R!Joined(a, e)
  BY <1>3, <1>7 DEF Entire, R!Then, a
<1> HIDE DEF t1
<1>9. ASSUME NEW d, Holding(d, b1, g1, t1.seq) PROVE Leads(d, e, t2, b1, g2)
  <2>1. Meets(t1, d, b1, g1)
    BY <1>1, <1>6, <1>9 DEF Meets, SameShape
  <2>2. Ended(b1[n], item, g1[n])
    BY <1>7 DEF Ended
  <2>3. item = t1.output[n]
    BY <1>7
  <2>4. Leads(d, e, t2, [b1 EXCEPT ![n] = item], g2)
    BY <1>7, <2>1, <2>2, <2>3, LeadsDone DEF g2
  <2>5. [b1 EXCEPT ![n] = item] = b1
    <3>1. Upd(b1, b1, n, item)
      BY <1>7 DEF Upd
    <3> QED BY <1>7, <3>1, SetTo
  <2> QED BY <2>4, <2>5
<1> HIDE DEF e, t2
<1>10. Leads(c, R!Joined(a, e), t2, b1, g2)
  BY <1>2, <1>9, LeadsJoined
<1> QED BY <1>4, <1>5, <1>6, <1>8, <1>10 DEF SameShape, Arrives

-----------------------------------------------------------------------------
\* Two clients told the same, but for what was thought.
SameHeard(k, l) == l.call = k.call /\ l.phase = k.phase
\* An outcome that succeeds, with the message m and the reasoning r open.
Lasts(w, m, r) == w.err = FALSE /\ w.s.message = m /\ w.s.reasoning = r
\* Reasoning that is open is not empty.
Musings(k) == k.think # <<>> => IsSeq(k.think[1].text) /\ k.think[1].text # <<>>

\* What SeesR says of the encoder's output.
LEMMA SeesHas ==
  ASSUME NEW s, NEW k, NEW c, SeesR(s, k, c)
  PROVE  /\ Meets(s, c, s.output, c.stage) /\ IsResp(s) /\ dialect = "responses" /\ s.terminal = FALSE
         /\ CallOK(k)
         /\ IsSeq(s.output) /\ IsSeq(c.stage) /\ Len(s.output) \in Nat /\ Len(c.stage) = Len(s.output)
         /\ RS(s.output, c.stage, s.message, s.reasoning, s.calls, s.searches, k.think, k.call, k.phase)
         /\ \A j \in 1..Len(s.output) : IsBlock(s.output[j])
         /\ s.message # 0 => s.message \in 1..Len(s.output) /\ s.output[s.message].kind = "text"
                             /\ c.stage[s.message] = "part"
         /\ s.reasoning = 0 => k.think = <<>>
         /\ s.reasoning # 0 => /\ s.reasoning \in 1..Len(s.output) /\ s.output[s.reasoning].kind = "reasoning"
                               /\ c.stage[s.reasoning] = "part" /\ s.output[s.reasoning].cites = <<>>
                               /\ k.think = <<[item |-> s.output[s.reasoning].id, text |-> s.output[s.reasoning].body]>>
                               /\ s.part = TRUE
BY DEF SeesR, RS, Items, Talking, Thinks, Meets

\* The open message, if any, is completed.
LEMMA CompletesMessage ==
  ASSUME NEW s, NEW k, NEW c, SeesR(s, k, c), NEW w, w = R!CompleteMessage(s)
  PROVE  ReachesR(k, c, w) /\ Lasts(w, 0, s.reasoning)
<1>1. CASE s.message = 0
  <2>1. w = R!Ok(s, <<>>)
    BY <1>1 DEF R!CompleteMessage
  <2> QED BY <1>1, <2>1, ReachesNone DEF R!Ok, Lasts
<1>2. CASE s.message # 0
  <2> DEFINE o == s.output
             m == s.message
             y == [o[m] EXCEPT !.st = "completed"]
             p == [o EXCEPT ![m] = y]
             t == [s EXCEPT !.message = 0, !.output[m].st = "completed"]
             u == NextSeq(NextSeq(NextSeq(t)))
  <2>1. w = Shut(t, m, o[m].body)
    <3> HIDE DEF t
    <3> QED BY <1>2 DEF R!CompleteMessage, Shut, R!Then, t
  <2>2. m \in 1..Len(o) /\ IsBlock(o[m]) /\ o[m].kind = "text" /\ c.stage[m] = "part" /\ IsSeq(o)
    BY <1>2, SeesHas
  <2>3. IsBlock(y) /\ y.kind = "text" /\ y.body = o[m].body /\ Ended(o[m], y, "closed")
    BY <2>2 DEF IsBlock, BlockFields, Ended
  <2> HIDE DEF y
  <2>4. Upd(o, p, m, y)
    BY <2>2, UpdIs
  <2>5. IsResp(s)
    BY SeesHas
  <2>6. /\ IsResp(t) /\ t.output = p /\ t.seq = s.seq /\ t.message = 0 /\ t.reasoning = s.reasoning
        /\ t.part = s.part /\ t.calls = s.calls /\ t.searches = s.searches /\ t.terminal = s.terminal
    <3>1. t = [s EXCEPT !.message = 0, !.output = p]
      BY <2>5 DEF y, IsResp, RespFields
    <3> HIDE DEF t, p
    <3> QED BY <2>5, <3>1 DEF IsResp, RespFields
  <2> HIDE DEF p, t
  <2>7. Meets(t, c, o, c.stage)
    BY <2>6, SeesHas DEF Meets
  <2>8. PICK h : Upd(c.stage, h, m, "done") /\ Leads(c, w, u, t.output, h)
    BY <2>1, <2>2, <2>3, <2>4, <2>6, <2>7, LeadsShut
  <2>9. RS(p, h, 0, s.reasoning, s.calls, s.searches, k.think, k.call, k.phase)
    <3>1. RS(o, c.stage, m, s.reasoning, s.calls, s.searches, k.think, k.call, k.phase)
      BY SeesHas
    <3> HIDE DEF m
    <3> QED BY <1>2, <2>3, <2>4, <2>8, <3>1, EndMessage DEF m
  <2>10. SameShape(t, u)
    BY <2>6, NextAlike
  <2> HIDE DEF u
  <2>11. /\ IsResp(u) /\ u.output = p /\ u.message = 0 /\ u.reasoning = s.reasoning /\ u.part = s.part
         /\ u.calls = s.calls /\ u.searches = s.searches /\ u.terminal = s.terminal
    BY <2>6, <2>10 DEF SameShape
  <2>12. ReachesR(k, c, w)
    <3>1. RS(p, h, u.message, u.reasoning, u.calls, u.searches, k.think, k.call, k.phase)
      BY <2>9, <2>11
    <3>2. u.reasoning # 0 => u.part = TRUE
      BY <2>11, SeesHas
    <3>3. Leads(c, w, u, p, h) /\ CallOK(k) /\ dialect = "responses" /\ u.terminal = FALSE
      BY <2>6, <2>8, <2>11, SeesHas
    <3> QED BY <2>11, <3>1, <3>2, <3>3, LeadsSees
  <2>13. w.s = u /\ w.err = FALSE
    BY <2>8 DEF Leads
  <2> QED BY <2>11, <2>12, <2>13 DEF Lasts
<1> QED BY <1>1, <1>2

\* The open reasoning, or a whole one, is completed as an item.
LEMMA CompletesReasoning ==
  ASSUME NEW s, NEW k, NEW c, SeesR(s, k, c), NEW x, IsBlock(x), x.kind = "reasoning", x.cites = <<>>,
         k.think # <<>> => x.body = k.think[1].text /\ x.body # <<>>,
         NEW l, SameHeard(k, l), l.think = <<>>, NEW w, w = R!CompleteReasoning(s, x)
  PROVE  ReachesR(l, c, w) /\ Lasts(w, s.message, 0)
<1>0. CallOK(l)
  <2>1. CallOK(k)
    BY SeesHas
  <2> QED BY <2>1 DEF CallOK, SameHeard
<1>1. CASE s.reasoning = 0
  <2>1. w = Entire(s, x)
    BY <1>1 DEF R!CompleteReasoning, Entire, R!Then
  <2>2. Meets(s, c, s.output, c.stage) /\ x.kind \notin {"text", "tool_use"}
    BY SeesHas
  <2>3. PICK t, h, p : /\ App(c.stage, h, "done") /\ App(s.output, p, x) /\ Leads(c, w, t, p, h)
                       /\ t.output = p /\ IsResp(t) /\ t.message = s.message /\ t.reasoning = s.reasoning
                       /\ t.part = s.part /\ t.calls = s.calls /\ t.searches = s.searches
                       /\ t.terminal = s.terminal
    <3>1. Arrives(s, c, c.stage, x)
      BY <2>2, LeadsEntire
    <3> QED BY <2>1, <3>1 DEF Arrives
  <2>4. RS(s.output, c.stage, s.message, s.reasoning, s.calls, s.searches, l.think, l.call, l.phase)
    <3>1. /\ RS(s.output, c.stage, s.message, s.reasoning, s.calls, s.searches, k.think, k.call, k.phase)
          /\ k.think = <<>>
      BY <1>1, SeesHas
    <3> QED BY <3>1, Zenon DEF SameHeard
  <2>5. RS(p, h, t.message, t.reasoning, t.calls, t.searches, l.think, l.call, l.phase)
    BY <2>3, <2>4, NewWhole
  <2>6. ReachesR(l, c, w)
    <3>1. t.terminal = FALSE /\ (t.reasoning # 0 => t.part = TRUE) /\ dialect = "responses"
      BY <1>1, <2>3, SeesHas
    <3> QED BY <1>0, <2>3, <2>5, <3>1, LeadsSees
  <2>7. w.s = t /\ w.err = FALSE
    BY <2>3 DEF Leads
  <2> QED BY <1>1, <2>3, <2>6, <2>7 DEF Lasts
<1>2. CASE s.reasoning # 0
  <2> DEFINE o == s.output
             r == s.reasoning
             y == [x EXCEPT !.id = o[r].id]
             p == [o EXCEPT ![r] = y]
             t == [s EXCEPT !.output[r] = y]
             u == NextSeq(NextSeq(NextSeq(t)))
             v == [u EXCEPT !.reasoning = 0, !.part = FALSE]
             a == Shut(t, r, y.body)
  <2>2. /\ r \in 1..Len(o) /\ IsBlock(o[r]) /\ o[r].kind = "reasoning" /\ c.stage[r] = "part" /\ IsSeq(o)
        /\ o[r].cites = <<>> /\ k.think = <<[item |-> o[r].id, text |-> o[r].body]>> /\ s.part = TRUE
    BY <1>2, SeesHas, ZenonT(30)
  <2>3. IsBlock(y) /\ y.kind = "reasoning" /\ y.body = x.body /\ y.id = o[r].id /\ y.cites = <<>>
    BY DEF IsBlock, BlockFields
  <2>4. y.body = o[r].body /\ y.body # <<>>
    <3>1. k.think # <<>> /\ k.think[1].text = o[r].body
      BY <2>2
    <3> HIDE DEF y, o, r
    <3> QED BY <2>3, <3>1
  <2> HIDE DEF y
  <2>5. Ended(o[r], y, "closed")
    BY <2>2, <2>3, <2>4 DEF Ended
  <2>1. w = R!Joined(a, R!Ok([a.s EXCEPT !.reasoning = 0, !.part = FALSE], <<>>))
    <3> DEFINE q == R!Then(R!Event(t, "text_done", r, y.body), LAMBDA z : R!Event(z, "part_done", r, y.body))
               d == R!Then(q, LAMBDA z : R!Done(z, r))
    <3>1. d = a
      BY DEF Shut
    <3>2. w = R!Then(R!Then(IF s.part /\ y.body # <<>> THEN q ELSE R!Ok(t, <<>>), LAMBDA z : R!Done(z, r)),
                     LAMBDA z : R!Ok([z EXCEPT !.reasoning = 0, !.part = FALSE], <<>>))
      <4> HIDE DEF t
      <4> QED BY <1>2 DEF R!CompleteReasoning, y, t
    <3>3. w = R!Then(d, LAMBDA z : R!Ok([z EXCEPT !.reasoning = 0, !.part = FALSE], <<>>))
      <4> HIDE DEF q
      <4> QED BY <2>2, <2>4, <3>2
    <3> HIDE DEF d, a
    <3> QED BY <3>1, <3>3 DEF R!Then
  <2>6. Upd(o, p, r, y)
    BY <2>2, UpdIs
  <2>7. IsResp(s)
    BY SeesHas
  <2>8. /\ IsResp(t) /\ t.output = p /\ t.seq = s.seq /\ t.message = s.message
        /\ t.calls = s.calls /\ t.searches = s.searches /\ t.terminal = s.terminal
    <3>1. t = [s EXCEPT !.output = p]
      BY <2>7 DEF IsResp, RespFields
    <3> HIDE DEF t, p
    <3> QED BY <2>7, <3>1 DEF IsResp, RespFields
  <2> HIDE DEF p, t
  <2>9. Meets(t, c, o, c.stage)
    BY <2>8, SeesHas DEF Meets
  <2>10. PICK h : Upd(c.stage, h, r, "done") /\ Leads(c, a, u, p, h)
    BY <2>2, <2>5, <2>6, <2>8, <2>9, LeadsShut
  <2>11. a.s = u
    <3> HIDE DEF a, u
    <3> QED BY <2>10 DEF Leads
  <2>12. RS(p, h, s.message, 0, s.calls, s.searches, <<>>, k.call, k.phase)
    <3>1. RS(o, c.stage, s.message, r, s.calls, s.searches, k.think, k.call, k.phase)
      BY SeesHas
    <3> HIDE DEF r
    <3> QED BY <1>2, <2>3, <2>6, <2>10, <3>1, EndReasoning DEF r
  <2>13. SameShape(t, u)
    BY <2>8, NextAlike
  <2> HIDE DEF u, a
  <2>14. /\ IsResp(v) /\ v.output = p /\ v.message = s.message /\ v.reasoning = 0 /\ v.seq = u.seq
         /\ v.calls = s.calls /\ v.searches = s.searches /\ v.terminal = s.terminal
    BY <2>8, <2>13 DEF SameShape, IsResp, RespFields
  <2> DEFINE e == R!Ok(v, <<>>)
  <2>15. w = R!Joined(a, e)
    BY <2>1, <2>11
  <2> HIDE DEF v
  <2>16. ASSUME NEW d, Holding(d, p, h, u.seq) PROVE Leads(d, e, v, p, h)
    BY <2>14, <2>16, LeadsNone
  <2> HIDE DEF e
  <2>17. Leads(c, w, v, p, h)
    BY <2>10, <2>15, <2>16, LeadsJoined
  <2>18. ReachesR(l, c, w)
    <3>1. RS(p, h, v.message, v.reasoning, v.calls, v.searches, l.think, l.call, l.phase)
      BY <2>12, <2>14 DEF SameHeard
    <3>2. dialect = "responses" /\ v.terminal = FALSE /\ (v.reasoning # 0 => v.part = TRUE)
      BY <2>14, SeesHas
    <3> QED BY <1>0, <2>14, <2>17, <3>1, <3>2, LeadsSees
  <2>19. w.s = v /\ w.err = FALSE
    BY <2>17 DEF Leads
  <2> QED BY <2>14, <2>18, <2>19 DEF Lasts
<1> QED BY <1>1, <1>2

-----------------------------------------------------------------------------
\* What SeesR looks at.
Hd(th, cl, ph) == [think |-> th, call |-> cl, phase |-> ph]

\* What SeesR does not look at may change.
LEMMA SeesSame ==
  ASSUME NEW s, NEW k, NEW c, SeesR(s, k, c), NEW l, SameHeard(k, l), l.think = k.think
  PROVE  SeesR(s, l, c)
BY DEF SeesR, CallOK, SameHeard

\* The fields of Hd.
LEMMA HdIs == \A th, cl, ph : /\ Hd(th, cl, ph).think = th /\ Hd(th, cl, ph).call = cl /\ Hd(th, cl, ph).phase = ph
BY DEF Hd

\* The same open call.
LEMMA CallSame == ASSUME NEW k, CallOK(k), NEW l, l.call = k.call PROVE CallOK(l)
BY DEF CallOK

\* The open reasoning, if any, is closed with what was heard of it.
LEMMA ClosesThought ==
  ASSUME NEW s, NEW k, NEW c, SeesR(s, k, c), Musings(k), NEW l, SameHeard(k, l), l.think = <<>>,
         NEW w, w = R!CompleteReasoningOpen(s)
  PROVE  ReachesR(l, c, w) /\ Lasts(w, s.message, 0)
<1>1. CASE s.reasoning = 0
  <2>1. w = R!Ok(s, <<>>)
    BY <1>1 DEF R!CompleteReasoningOpen
  <2>2. k.think = <<>>
    BY <1>1, SeesHas
  <2>3. SeesR(s, l, c)
    BY <2>2, SeesSame
  <2> QED BY <1>1, <2>1, <2>3, ReachesNone DEF R!Ok, Lasts
<1>2. CASE s.reasoning # 0
  <2> DEFINE x == s.output[s.reasoning]
  <2>1. w = R!CompleteReasoning(s, x)
    BY <1>2 DEF R!CompleteReasoningOpen
  <2>2. /\ s.reasoning \in 1..Len(s.output) /\ IsBlock(x) /\ x.kind = "reasoning" /\ x.cites = <<>>
        /\ k.think = <<[item |-> x.id, text |-> x.body]>>
    BY <1>2, SeesHas
  <2> HIDE DEF x
  <2>3. k.think[1].text = x.body /\ k.think # <<>>
    BY <2>2
  <2>4. x.body # <<>>
    BY <2>3 DEF Musings
  <2>5. k.think # <<>> => x.body = k.think[1].text /\ x.body # <<>>
    BY <2>3, <2>4
  <2>6. IsBlock(x) /\ x.kind = "reasoning" /\ x.cites = <<>>
    BY <2>2
  <2> QED BY <2>1, <2>5, <2>6, CompletesReasoning
<1> QED BY <1>1, <1>2

\* The message and the reasoning that are open are closed.
LEMMA ClosesItems ==
  ASSUME NEW s, NEW k, NEW c, SeesR(s, k, c), Musings(k), NEW l, SameHeard(k, l), l.think = <<>>,
         NEW w, w = R!CloseOpenItems(s)
  PROVE  ReachesR(l, c, w) /\ Lasts(w, 0, 0)
<1> DEFINE r == R!CompleteReasoningOpen(s)
           v == R!CompleteMessage(r.s)
<1>1. ReachesR(l, c, r) /\ Lasts(r, s.message, 0)
  BY ClosesThought
<1>2. w = R!Joined(r, v)
  BY DEF R!CloseOpenItems, R!Then
<1> HIDE DEF r
<1>3. r.err = FALSE /\ r.s.reasoning = 0
  BY <1>1 DEF Lasts
<1>4. ASSUME NEW d, SeesR(r.s, l, d) PROVE ReachesR(l, d, v) /\ Lasts(v, 0, r.s.reasoning)
  BY <1>4, CompletesMessage
<1> HIDE DEF v
<1>5. Lasts(v, 0, r.s.reasoning)
  BY <1>1, <1>3, <1>4 DEF ReachesR
<1>6. ReachesR(l, c, R!Joined(r, v))
  BY <1>1, <1>4, ReachesJoined
<1>7. R!Joined(r, v).s = v.s /\ R!Joined(r, v).err = v.err
  BY <1>3 DEF R!Joined
<1> QED BY <1>2, <1>3, <1>5, <1>6, <1>7 DEF Lasts

-----------------------------------------------------------------------------
\* The encoder t is s with the items p.
Alters(s, t, p) ==
  /\ IsResp(t) /\ t.output = p /\ t.message = s.message /\ t.reasoning = s.reasoning
  /\ t.part = s.part /\ t.calls = s.calls /\ t.searches = s.searches /\ t.terminal = s.terminal

\* The outcome w leads to an encoder and a client that both have y at pos.
Changes(s, c, pos, y, w) ==
  \E t, p : Upd(s.output, p, pos, y) /\ Alters(s, t, p) /\ Leads(c, w, t, p, c.stage)

\* An item changed in the encoder and at the client alike.
LEMMA ChangesSees ==
  ASSUME NEW s, NEW k, NEW c, SeesR(s, k, c), NEW pos, NEW y, NEW w, Changes(s, c, pos, y, w),
         NEW l, CallOK(l),
         \A p : Upd(s.output, p, pos, y) =>
                RS(p, c.stage, s.message, s.reasoning, s.calls, s.searches, l.think, l.call, l.phase)
  PROVE  ReachesR(l, c, w) /\ w.err = FALSE
<1>1. PICK t, p : Upd(s.output, p, pos, y) /\ Alters(s, t, p) /\ Leads(c, w, t, p, c.stage)
  BY DEF Changes
<1>2. RS(p, c.stage, t.message, t.reasoning, t.calls, t.searches, l.think, l.call, l.phase)
  BY <1>1 DEF Alters
<1>3. IsResp(t) /\ t.output = p /\ dialect = "responses" /\ t.terminal = FALSE /\ (t.reasoning # 0 => t.part = TRUE)
  BY <1>1, SeesHas DEF Alters
<1>4. ReachesR(l, c, w)
  BY <1>1, <1>2, <1>3, LeadsSees
<1> QED BY <1>1, <1>4 DEF Leads

\* A delta of an item, as the encoder and the client take it.
LEMMA Extends ==
  ASSUME NEW s, NEW k, NEW c, SeesR(s, k, c), NEW pos \in 1..Len(s.output), NEW kind, NEW x,
         \/ kind = "delta" /\ c.stage[pos] = "part"
         \/ kind = "args" /\ c.stage[pos] = "added" /\ s.output[pos].kind = "tool_use",
         NEW w, w = R!Extend(s, kind, pos, x)
  PROVE  Changes(s, c, pos, [s.output[pos] EXCEPT !.body = s.output[pos].body \o x], w)
<1> DEFINE o == s.output
           y == [o[pos] EXCEPT !.body = o[pos].body \o x]
           p == [o EXCEPT ![pos] = y]
           t == [s EXCEPT !.output[pos].body = @ \o x]
           u == NextSeq(t)
<1>1. IsResp(s) /\ IsSeq(o) /\ Meets(s, c, o, c.stage)
  BY SeesHas
<1>2. w = R!Event(t, kind, pos, x)
  BY DEF R!Extend
<1>3. t = [s EXCEPT !.output = p]
  BY <1>1 DEF IsResp, RespFields
<1>4. Upd(o, p, pos, y)
  BY <1>1, UpdIs
<1> HIDE DEF p, t
<1>5. Alters(s, t, p) /\ t.seq = s.seq
  BY <1>1, <1>3 DEF Alters, IsResp, RespFields
<1>6. Meets(t, c, o, c.stage)
  BY <1>1, <1>5 DEF Meets, Alters
<1>7. Leads(c, w, u, p, c.stage)
  <2>1. CASE kind = "delta" /\ c.stage[pos] = "part"
    <3>1. Leads(c, R!Event(t, "delta", pos, x), u, [o EXCEPT ![pos] = y], c.stage)
      BY <1>6, <2>1, LeadsDelta
    <3> QED BY <1>2, <2>1, <3>1 DEF p
  <2>2. CASE kind = "args" /\ c.stage[pos] = "added" /\ o[pos].kind = "tool_use"
    <3>1. Leads(c, R!Event(t, "args", pos, x), u, [o EXCEPT ![pos] = y], c.stage)
      BY <1>6, <2>2, LeadsArgs
    <3> QED BY <1>2, <2>2, <3>1 DEF p
  <2> QED BY <2>1, <2>2
<1>8. Alters(s, u, p)
  BY <1>5, NextAlike DEF Alters, SameShape
<1> HIDE DEF y, u
<1>9. Changes(s, c, pos, y, w)
  BY <1>4, <1>7, <1>8 DEF Changes
<1> QED BY <1>9 DEF y

\* A citation: it reaches the open message, or nothing.
LEMMA CitationSees ==
  ASSUME NEW s, NEW k, NEW c, SeesR(s, k, c), NEW ev, NEW w, w = R!Citation(s, ev)
  PROVE  ReachesR(k, c, w)
<1> DEFINE o == s.output
           pos == s.message
           x == ev.x
           y == [o[pos] EXCEPT !.cites = Append(o[pos].cites, x)]
           p == [o EXCEPT ![pos] = y]
           t == [s EXCEPT !.output[pos].cites = Append(@, ev.x)]
           u == NextSeq(t)
<1>0. w = R!Ok(s, <<>>) \/ (pos # 0 /\ w = R!Event(t, "cite", pos, x))
  <2> HIDE DEF t
  <2> QED BY DEF R!Citation, t
<1>a. CASE w = R!Ok(s, <<>>)
  BY <1>a, ReachesNone
<1>b. CASE pos # 0 /\ w = R!Event(t, "cite", pos, x)
  <2>1. IsResp(s) /\ IsSeq(o) /\ Meets(s, c, o, c.stage)
    BY SeesHas
  <2>2. pos \in 1..Len(o) /\ c.stage[pos] = "part" /\ IsBlock(o[pos]) /\ o[pos].kind = "text"
    BY <1>b, SeesHas
  <2>3. t = [s EXCEPT !.output = p]
    BY <2>1 DEF IsResp, RespFields
  <2>4. Upd(o, p, pos, y)
    BY <2>1, <2>2, UpdIs, SMTT(30)
  <2>5. IsBlock(y) /\ y.kind = "text"
    BY <2>2 DEF IsBlock, BlockFields
  <2> HIDE DEF p, t
  <2>6. Alters(s, t, p) /\ t.seq = s.seq
    BY <2>1, <2>3 DEF Alters, IsResp, RespFields
  <2>7. Meets(t, c, o, c.stage)
    BY <2>1, <2>6 DEF Meets, Alters
  <2>8. Leads(c, w, u, p, c.stage)
    <3>1. Leads(c, R!Event(t, "cite", pos, x), u, [o EXCEPT ![pos] = y], c.stage)
      <4> HIDE DEF pos
      <4> QED BY <2>2, <2>7, LeadsCite
    <3> QED BY <1>b, <3>1 DEF p
  <2>9. Alters(s, u, p)
    BY <2>6, NextAlike DEF Alters, SameShape
  <2> HIDE DEF y, u
  <2>10. Changes(s, c, pos, y, w)
    BY <2>4, <2>8, <2>9 DEF Changes
  <2>11. ASSUME NEW q, Upd(o, q, pos, y)
         PROVE  RS(q, c.stage, pos, s.reasoning, s.calls, s.searches, k.think, k.call, k.phase)
    <3>1. RS(o, c.stage, pos, s.reasoning, s.calls, s.searches, k.think, k.call, k.phase)
      BY SeesHas
    <3> HIDE DEF o, pos
    <3> QED BY <1>b, <2>5, <2>11, <3>1, MoreText
  <2>12. CallOK(k)
    BY SeesHas
  <2> QED BY <2>10, <2>11, <2>12, ChangesSees
<1> QED BY <1>0, <1>a, <1>b

-----------------------------------------------------------------------------
\* A message or a reasoning item is announced, with its part.
Announces(s, c, g, x, t, w) ==
  \E h, p : App(g, h, "part") /\ App(s.output, p, x) /\ Leads(c, w, NextSeq(t), p, h) /\ t.output = p

Announced(s, x, t) == R!Joined(R!Add(s, x, x), R!Event(t, "part", Len(s.output) + 1, <<>>))

\* An item with its part is announced.
LEMMA LeadsAnnounced ==
  ASSUME NEW s, NEW c, NEW g, Meets(s, c, s.output, g), NEW x, x.kind \in {"text", "reasoning"},
         NEW t, IsResp(t), t.output = Append(s.output, x), t.seq = s.seq + 1
  PROVE  Announces(s, c, g, x, t, Announced(s, x, t))
<1> DEFINE o == s.output
           n == Len(o) + 1
           a == R!Add(s, x, x)
           t1 == NextSeq([s EXCEPT !.output = Append(@, x)])
           e == R!Event(t, "part", n, <<>>)
           b1 == Append(o, x)
           g1 == Append(g, "added")
           g2 == [g1 EXCEPT ![n] = "part"]
<1>1. IsSeq(o) /\ IsSeq(g) /\ Len(g) = Len(o) /\ Len(o) \in Nat /\ IsResp(s) /\ dialect = "responses"
  BY DEF Meets, Holding, IsSeq
<1>2. Leads(c, a, t1, b1, g1)
  BY LeadsAdd
<1>3. App(o, b1, x) /\ App(g, g1, "added") /\ App(g, g2, "part")
  BY <1>1, AppIs
<1>4. t1.seq = s.seq + 1
  BY <1>1 DEF IsResp, RespFields, NextSeq
<1> HIDE DEF t1, a, b1, g1, g2
<1>5. n \in 1..Len(b1) /\ b1[n] = x /\ g1[n] = "added"
  BY <1>1, <1>3 DEF App
<1>6. ASSUME NEW d, Holding(d, b1, g1, t1.seq) PROVE Leads(d, e, NextSeq(t), b1, g2)
  <2>1. Meets(t, d, b1, g1)
    BY <1>1, <1>4, <1>6 DEF Meets
  <2> QED BY <1>5, <2>1, LeadsPart DEF g2
<1> HIDE DEF e
<1>7. Leads(c, R!Joined(a, e), NextSeq(t), b1, g2)
  BY <1>2, <1>6, LeadsJoined
<1>8. t.output = b1
  BY DEF b1
<1>9. Announces(s, c, g, x, t, R!Joined(a, e))
  BY <1>3, <1>7, <1>8 DEF Announces
<1> QED BY <1>9 DEF a, e, Announced

\* A message is open afterwards.
LEMMA EnsuresMessage ==
  ASSUME NEW s, NEW k, NEW c, SeesR(s, k, c), NEW w, w = R!EnsureMessage(s)
  PROVE  ReachesR(k, c, w) /\ w.err = FALSE /\ w.s.message # 0
<1>1. CASE s.message # 0
  <2>1. w = R!Ok(s, <<>>)
    BY <1>1 DEF R!EnsureMessage
  <2> QED BY <1>1, <2>1, ReachesNone DEF R!Ok
<1>2. CASE s.message = 0
  <2> DEFINE o == s.output
             g == c.stage
             x == R!Block("text", 0, <<>>)
             n == Len(o) + 1
             a == R!Add(s, x, x)
             t1 == NextSeq([s EXCEPT !.output = Append(@, x)])
             t == [t1 EXCEPT !.message = Len(t1.output)]
             u == NextSeq(t)
  <2>1. w = R!Joined(a, R!Event([a.s EXCEPT !.message = Len(a.s.output)], "part", Len(a.s.output), <<>>))
    BY <1>2 DEF R!EnsureMessage, R!Then
  <2>2. a.s = t1
    BY DEF R!Add, R!Event, R!Ok, NextSeq
  <2>3. Meets(s, c, o, g) /\ IsSeq(o) /\ IsResp(s)
    BY SeesHas
  <2>4. IsBlock(x) /\ x.kind = "text" /\ x.kind \in {"text", "reasoning"}
    BY DEF R!Block, IsBlock, BlockFields
  <2> HIDE DEF x, a
  <2>5. Len(Append(o, x)) = n
    BY <2>3, SeqAdd
  <2>6. IsResp(t1) /\ t1.output = Append(o, x) /\ t1.seq = s.seq + 1 /\ t1.message = s.message /\ t1.reasoning = s.reasoning
        /\ t1.part = s.part /\ t1.calls = s.calls /\ t1.searches = s.searches /\ t1.terminal = s.terminal
    BY <2>3 DEF IsResp, RespFields, NextSeq
  <2> HIDE DEF t1
  <2>7. /\ IsResp(t) /\ t.output = Append(o, x) /\ t.seq = s.seq + 1 /\ t.message = n /\ t.reasoning = s.reasoning
        /\ t.part = s.part /\ t.calls = s.calls /\ t.searches = s.searches /\ t.terminal = s.terminal
    BY <2>5, <2>6 DEF IsResp, RespFields
  <2>8. w = R!Joined(a, R!Event(t, "part", n, <<>>))
    BY <2>1, <2>2, <2>5, <2>6
  <2> HIDE DEF t
  <2>9. Announces(s, c, g, x, t, w)
    <3>1. Announces(s, c, g, x, t, Announced(s, x, t))
      BY <2>3, <2>4, <2>7, LeadsAnnounced
    <3> QED BY <2>8, <3>1 DEF a, Announced
  <2>10. PICK h, p : App(g, h, "part") /\ App(o, p, x) /\ Leads(c, w, u, p, h) /\ t.output = p
    BY <2>9 DEF Announces
  <2>11. SameShape(t, u)
    BY <2>7, NextAlike
  <2> HIDE DEF u
  <2>12. /\ IsResp(u) /\ u.output = p /\ u.message = n /\ u.reasoning = s.reasoning
         /\ u.part = s.part /\ u.calls = s.calls /\ u.searches = s.searches /\ u.terminal = s.terminal
    BY <2>7, <2>10, <2>11 DEF SameShape
  <2>13. RS(p, h, n, s.reasoning, s.calls, s.searches, k.think, k.call, k.phase)
    <3>1. RS(o, g, 0, s.reasoning, s.calls, s.searches, k.think, k.call, k.phase)
      BY <1>2, SeesHas
    <3> HIDE DEF o, g
    <3> QED BY <2>4, <2>10, <3>1, NewMessage
  <2>14. ReachesR(k, c, w)
    <3>1. RS(p, h, u.message, u.reasoning, u.calls, u.searches, k.think, k.call, k.phase)
      BY <2>12, <2>13
    <3>2. dialect = "responses" /\ u.terminal = FALSE /\ (u.reasoning # 0 => u.part = TRUE) /\ CallOK(k)
      BY <2>12, SeesHas
    <3> QED BY <2>10, <2>12, <3>1, <3>2, LeadsSees
  <2>15. w.s = u /\ w.err = FALSE
    BY <2>10 DEF Leads
  <2>16. n # 0
    BY <2>3 DEF IsSeq
  <2> QED BY <2>12, <2>14, <2>15, <2>16
<1> QED BY <1>1, <1>2

\* Reasoning is open.
ReasonOpen(w) == w.err = FALSE /\ w.s.reasoning # 0

\* Reasoning is open afterwards, about what it was about before if it was.
LEMMA EnsuresReasoning ==
  ASSUME NEW s, NEW k, NEW c, SeesR(s, k, c), NEW id, NEW l, SameHeard(k, l),
         l.think = IF k.think = <<>> THEN <<[item |-> id, text |-> <<>>]>> ELSE k.think,
         NEW w, w = R!EnsureReasoning(s, id)
  PROVE  ReachesR(l, c, w) /\ ReasonOpen(w)
<1>1. CASE s.reasoning # 0
  <2>1. w = R!Ok(s, <<>>)
    BY <1>1 DEF R!EnsureReasoning
  <2>2. k.think # <<>>
    <3>1. k.think = <<[item |-> s.output[s.reasoning].id, text |-> s.output[s.reasoning].body]>>
      BY <1>1, SeesHas
    <3> QED BY <3>1
  <2>3. SeesR(s, l, c)
    BY <2>2, SeesSame
  <2> QED BY <1>1, <2>1, <2>3, ReachesNone DEF R!Ok, ReasonOpen
<1>2. CASE s.reasoning = 0
  <2> DEFINE o == s.output
             g == c.stage
             x == R!Block("reasoning", id, <<>>)
             n == Len(o) + 1
             a == R!Add(s, x, x)
             t1 == NextSeq([s EXCEPT !.output = Append(@, x)])
             t == [t1 EXCEPT !.reasoning = Len(t1.output), !.part = TRUE]
             u == NextSeq(t)
  <2>1. w = R!Joined(a, R!Event([a.s EXCEPT !.reasoning = Len(a.s.output), !.part = TRUE], "part", Len(a.s.output), <<>>))
    BY <1>2 DEF R!EnsureReasoning, R!Then
  <2>2. a.s = t1
    BY DEF R!Add, R!Event, R!Ok, NextSeq
  <2>3. Meets(s, c, o, g) /\ IsSeq(o) /\ IsResp(s) /\ k.think = <<>>
    BY <1>2, SeesHas
  <2>4. IsBlock(x) /\ x.kind = "reasoning" /\ x.kind \in {"text", "reasoning"} /\ x.cites = <<>> /\ x.id = id /\ x.body = <<>>
    BY DEF R!Block, IsBlock, BlockFields
  <2> HIDE DEF x, a
  <2>5. Len(Append(o, x)) = n
    BY <2>3, SeqAdd
  <2>6. IsResp(t1) /\ t1.output = Append(o, x) /\ t1.seq = s.seq + 1 /\ t1.message = s.message /\ t1.reasoning = s.reasoning
        /\ t1.part = s.part /\ t1.calls = s.calls /\ t1.searches = s.searches /\ t1.terminal = s.terminal
    BY <2>3 DEF IsResp, RespFields, NextSeq
  <2> HIDE DEF t1
  <2>7. /\ IsResp(t) /\ t.output = Append(o, x) /\ t.seq = s.seq + 1 /\ t.reasoning = n /\ t.message = s.message
        /\ t.part = TRUE /\ t.calls = s.calls /\ t.searches = s.searches /\ t.terminal = s.terminal
    BY <2>5, <2>6 DEF IsResp, RespFields
  <2>8. w = R!Joined(a, R!Event(t, "part", n, <<>>))
    BY <2>1, <2>2, <2>5, <2>6
  <2> HIDE DEF t
  <2>9. Announces(s, c, g, x, t, w)
    <3>1. Announces(s, c, g, x, t, Announced(s, x, t))
      BY <2>3, <2>4, <2>7, LeadsAnnounced
    <3> QED BY <2>8, <3>1 DEF a, Announced
  <2>10. PICK h, p : App(g, h, "part") /\ App(o, p, x) /\ Leads(c, w, u, p, h) /\ t.output = p
    BY <2>9 DEF Announces
  <2>11. SameShape(t, u)
    BY <2>7, NextAlike
  <2> HIDE DEF u
  <2>12. /\ IsResp(u) /\ u.output = p /\ u.message = s.message /\ u.reasoning = n
         /\ u.part = TRUE /\ u.calls = s.calls /\ u.searches = s.searches /\ u.terminal = s.terminal
    BY <2>7, <2>10, <2>11 DEF SameShape
  <2>13. RS(p, h, s.message, n, s.calls, s.searches, <<[item |-> x.id, text |-> x.body]>>, k.call, k.phase)
    <3>1. RS(o, g, s.message, 0, s.calls, s.searches, k.think, k.call, k.phase)
      BY <1>2, SeesHas
    <3> HIDE DEF o, g
    <3> QED BY <2>4, <2>10, <3>1, NewReasoning
  <2>14. l.think = <<[item |-> x.id, text |-> x.body]>>
    BY <2>3, <2>4
  <2>15. ReachesR(l, c, w)
    <3>1. RS(p, h, u.message, u.reasoning, u.calls, u.searches, l.think, l.call, l.phase)
      BY <2>12, <2>13, <2>14 DEF SameHeard
    <3>2. CallOK(k)
      BY SeesHas
    <3>3. dialect = "responses" /\ u.terminal = FALSE /\ (u.reasoning # 0 => u.part = TRUE) /\ CallOK(l)
      BY <2>12, <3>2, SeesHas, CallSame DEF SameHeard
    <3> QED BY <2>10, <2>12, <3>1, <3>3, LeadsSees
  <2>16. w.s = u /\ w.err = FALSE
    BY <2>10 DEF Leads
  <2>17. n # 0
    BY <2>3 DEF IsSeq
  <2> QED BY <2>12, <2>15, <2>16, <2>17 DEF ReasonOpen
<1> QED BY <1>1, <1>2

-----------------------------------------------------------------------------
\* An outcome that succeeds brings the client to where the encoder is.
LEMMA ReachIs ==
  ASSUME NEW c, NEW k, NEW r, ReachesR(k, c, r), r.err = FALSE
  PROVE  SeesR(r.s, k, Accept(dialect, c, r.out)) /\ IsSeq(r.out)
BY DEF ReachesR

\* What is left of a sequence of two operations when the first succeeds.
LEMMA JoinedIs ==
  ASSUME NEW r, NEW w, r.err = FALSE
  PROVE  R!Joined(r, w).s = w.s /\ R!Joined(r, w).err = w.err
BY DEF R!Joined

\* Reasoning about something else ends.
Other(s, id) ==
  IF s.reasoning # 0 /\ s.output[s.reasoning].id # id THEN R!CompleteReasoningOpen(s) ELSE R!Ok(s, <<>>)

\* Reasoning about another item ends, and what was heard of it with it.
LEMMA EndsOther ==
  ASSUME NEW s, NEW k, NEW c, SeesR(s, k, c), Musings(k), NEW id, NEW l, SameHeard(k, l),
         l.think = IF k.think # <<>> /\ k.think[1].item = id THEN k.think ELSE <<>>,
         NEW w, w = Other(s, id)
  PROVE  ReachesR(l, c, w) /\ w.err = FALSE
<1>1. CASE s.reasoning = 0
  <2>1. k.think = <<>>
    BY <1>1, SeesHas
  <2>2. SeesR(s, l, c)
    BY <2>1, SeesSame
  <2>3. w = R!Ok(s, <<>>)
    BY <1>1 DEF Other
  <2> QED BY <2>2, <2>3, ReachesNone DEF R!Ok
<1>2. CASE s.reasoning # 0
  <2>1. k.think = <<[item |-> s.output[s.reasoning].id, text |-> s.output[s.reasoning].body]>>
    BY <1>2, SeesHas
  <2>2. k.think # <<>> /\ k.think[1].item = s.output[s.reasoning].id
    BY <2>1
  <2>3. CASE s.output[s.reasoning].id = id
    <3>1. SeesR(s, l, c)
      BY <2>2, <2>3, SeesSame
    <3>2. w = R!Ok(s, <<>>)
      BY <2>3 DEF Other
    <3> QED BY <3>1, <3>2, ReachesNone DEF R!Ok
  <2>4. CASE s.output[s.reasoning].id # id
    <3>1. w = R!CompleteReasoningOpen(s)
      BY <1>2, <2>4 DEF Other
    <3>2. l.think = <<>>
      BY <2>2, <2>4
    <3>3. ReachesR(l, c, w) /\ Lasts(w, s.message, 0)
      <4>1. ReachesR(l, c, R!CompleteReasoningOpen(s)) /\ Lasts(R!CompleteReasoningOpen(s), s.message, 0)
        BY <3>2, ClosesThought
      <4> QED BY <3>1, <4>1
    <3> QED BY <3>3 DEF Lasts
  <2> QED BY <2>3, <2>4
<1> QED BY <1>1, <1>2

\* The open reasoning grows as it was heard to.
LEMMA Muses ==
  ASSUME NEW s, NEW k, NEW c, SeesR(s, k, c), s.reasoning # 0, NEW x, NEW l, SameHeard(k, l),
         l.think = <<[item |-> k.think[1].item, text |-> k.think[1].text \o x]>>,
         NEW w, w = R!Extend(s, "delta", s.reasoning, x)
  PROVE  ReachesR(l, c, w)
<1> DEFINE o == s.output
           r == s.reasoning
           y == [o[r] EXCEPT !.body = o[r].body \o x]
<1>1. /\ r \in 1..Len(o) /\ IsBlock(o[r]) /\ o[r].kind = "reasoning" /\ c.stage[r] = "part"
      /\ o[r].cites = <<>> /\ k.think = <<[item |-> o[r].id, text |-> o[r].body]>> /\ CallOK(k)
  BY SeesHas, ZenonT(30)
<1>2. Changes(s, c, r, y, w)
  BY <1>1, Extends
<1>3. IsBlock(y) /\ y.kind = "reasoning" /\ y.cites = <<>> /\ y.id = o[r].id /\ y.body = o[r].body \o x
  BY <1>1, Zenon DEF IsBlock, BlockFields
<1> HIDE DEF y
<1>4. l.think = <<[item |-> y.id, text |-> y.body]>>
  <2> DEFINE t == [item |-> o[r].id, text |-> o[r].body]
  <2>2. t.item = o[r].id /\ t.text = o[r].body
    OBVIOUS
  <2>3. k.think = <<t>>
    BY <1>1, Zenon
  <2> HIDE DEF t, o, r
  <2>1. k.think[1] = t
    BY <2>3
  <2> QED BY <1>3, <2>1, <2>2, Zenon
<1>5. ASSUME NEW p, Upd(o, p, r, y)
      PROVE  RS(p, c.stage, s.message, r, s.calls, s.searches, l.think, l.call, l.phase)
  <2>1. RS(o, c.stage, s.message, r, s.calls, s.searches, k.think, k.call, k.phase)
    BY SeesHas
  <2>2. RS(p, c.stage, s.message, r, s.calls, s.searches, <<[item |-> y.id, text |-> y.body]>>, k.call, k.phase)
    <3> HIDE DEF o, r
    <3> r # 0
      BY DEF r
    <3> QED BY <1>3, <1>5, <2>1, MoreThought
  <2> QED BY <1>4, <2>2 DEF SameHeard
<1>6. CallOK(l)
  BY <1>1, CallSame DEF SameHeard
<1> QED BY <1>2, <1>5, <1>6, ChangesSees

\* A thinking event.
LEMMA ThinkingSees ==
  ASSUME NEW s, NEW k, NEW c, SeesR(s, k, c), Musings(k), NEW ev, ev.k = "thinking", Fit(k, ev),
         NEW l, l = Hear(k, ev)
  PROVE  ReachesR(l, c, R!Thinking(s, ev))
<1> DEFINE r1 == R!CompleteMessage(s)
           r2 == Other(r1.s, ev.item)
           q2 == R!Joined(r1, r2)
           r3 == R!EnsureReasoning(q2.s, ev.item)
           q3 == R!Joined(q2, r3)
           r4 == R!Extend(q3.s, "delta", q3.s.reasoning, ev.x)
           k2 == Hd(IF k.think # <<>> /\ k.think[1].item = ev.item THEN k.think ELSE <<>>, k.call, k.phase)
           k3 == Hd(IF k2.think = <<>> THEN <<[item |-> ev.item, text |-> <<>>]>> ELSE k2.think, k.call, k.phase)
<1>1. R!Thinking(s, ev) = R!Joined(q3, r4)
  BY DEF R!Thinking, R!Then, Other
<1>2. SameHeard(k, k2) /\ SameHeard(k2, k3)
  BY HdIs DEF SameHeard
<1>3. k2.think = IF k.think # <<>> /\ k.think[1].item = ev.item THEN k.think ELSE <<>>
  BY HdIs
<1>4. k3.think = IF k2.think = <<>> THEN <<[item |-> ev.item, text |-> <<>>]>> ELSE k2.think
  BY HdIs
<1>5. SameHeard(k3, l) /\ l.think = <<[item |-> k3.think[1].item, text |-> k3.think[1].text \o ev.x]>>
  <2>1. l.call = k.call /\ l.phase = k.phase /\ l.think = Thought(k, ev)
    BY DEF Hear, Called
  <2>2. k3.call = k.call /\ k3.phase = k.phase
    BY HdIs
  <2>3. IsSeq(ev.x)
    BY DEF Fit
  <2>4. <<>> \o ev.x = ev.x
    <3>1. ev.x \in Seq(Elements(ev.x))
      BY <2>3, SeqIn
    <3> QED BY <3>1
  <2> HIDE DEF k2, k3
  <2>5. CASE k.think # <<>> /\ k.think[1].item = ev.item
    <3>1. k3.think = k.think
      BY <1>3, <1>4, <2>5
    <3>2. Thought(k, ev) = <<[item |-> ev.item, text |-> k.think[1].text \o ev.x]>>
      BY <2>5 DEF Thought
    <3> QED BY <2>1, <2>2, <2>5, <3>1, <3>2 DEF SameHeard
  <2>6. CASE ~(k.think # <<>> /\ k.think[1].item = ev.item)
    <3>1. k3.think = <<[item |-> ev.item, text |-> <<>>]>>
      BY <1>3, <1>4, <2>6
    <3>2. Thought(k, ev) = <<[item |-> ev.item, text |-> ev.x]>>
      BY <2>6 DEF Thought
    <3>3. k3.think[1].item = ev.item /\ k3.think[1].text = <<>>
      BY <3>1
    <3> QED BY <2>1, <2>2, <2>4, <3>2, <3>3 DEF SameHeard
  <2> QED BY <2>5, <2>6
<1> HIDE DEF k2, k3
<1>6. ReachesR(k, c, r1) /\ r1.err = FALSE
  BY CompletesMessage DEF Lasts
<1> HIDE DEF r1
<1>7. ASSUME NEW d, SeesR(r1.s, k, d) PROVE ReachesR(k2, d, r2) /\ r2.err = FALSE
  BY <1>2, <1>3, <1>7, EndsOther, ZenonT(30)
<1> HIDE DEF r2
<1>8. ReachesR(k2, c, q2) /\ q2.err = FALSE
  BY <1>6, <1>7, ReachIs, JoinedIs, ReachesJoined
<1> HIDE DEF q2
<1>9. ASSUME NEW d, SeesR(q2.s, k2, d) PROVE ReachesR(k3, d, r3) /\ ReasonOpen(r3)
  BY <1>2, <1>4, <1>9, EnsuresReasoning
<1> HIDE DEF r3
<1>10. ReachesR(k3, c, q3) /\ q3.err = FALSE /\ q3.s.reasoning # 0
  BY <1>8, <1>9, ReachIs, JoinedIs, ReachesJoined DEF ReasonOpen
<1> HIDE DEF q3
<1>11. ASSUME NEW d, SeesR(q3.s, k3, d) PROVE ReachesR(l, d, r4)
  BY <1>5, <1>10, <1>11, Muses
<1> HIDE DEF r4
<1> QED BY <1>1, <1>10, <1>11, ReachesJoined

\* A text event.
LEMMA TextSees ==
  ASSUME NEW s, NEW k, NEW c, SeesR(s, k, c), Musings(k), NEW ev, ev.k = "text", NEW l, l = Hear(k, ev)
  PROVE  ReachesR(l, c, R!Text(s, ev))
<1> DEFINE r1 == R!CompleteReasoningOpen(s)
           r2 == R!EnsureMessage(r1.s)
           q2 == R!Joined(r1, r2)
           r3 == R!Extend(q2.s, "delta", q2.s.message, <<ev.x>>)
<1>1. R!Text(s, ev) = R!Joined(q2, r3)
  BY DEF R!Text, R!Then
<1>2. SameHeard(k, l) /\ l.think = <<>>
  BY DEF SameHeard, Hear, Thought, Called
<1>3. ReachesR(l, c, r1) /\ r1.err = FALSE
  BY <1>2, ClosesThought DEF Lasts
<1> HIDE DEF r1
<1>4. ASSUME NEW d, SeesR(r1.s, l, d) PROVE ReachesR(l, d, r2) /\ r2.err = FALSE /\ r2.s.message # 0
  BY <1>4, EnsuresMessage
<1> HIDE DEF r2
<1>5. ReachesR(l, c, q2) /\ q2.err = FALSE /\ q2.s.message # 0
  BY <1>3, <1>4, ReachIs, JoinedIs, ReachesJoined
<1> HIDE DEF q2
<1>6. ASSUME NEW d, SeesR(q2.s, l, d) PROVE ReachesR(l, d, r3)
  <2> DEFINE t == q2.s
             o == t.output
             m == t.message
             y == [o[m] EXCEPT !.body = o[m].body \o <<ev.x>>]
  <2>1. SeesR(t, l, d) /\ m # 0
    BY <1>5, <1>6
  <2> HIDE DEF t
  <2>2. m \in 1..Len(o) /\ IsBlock(o[m]) /\ o[m].kind = "text" /\ d.stage[m] = "part" /\ CallOK(l)
    BY <2>1, SeesHas
  <2>3. r3 = R!Extend(t, "delta", m, <<ev.x>>)
    BY DEF t
  <2>4. Changes(t, d, m, y, r3)
    BY <2>1, <2>2, <2>3, Extends
  <2>5. IsBlock(y) /\ y.kind = "text"
    BY <2>2 DEF IsBlock, BlockFields
  <2> HIDE DEF y
  <2>6. ASSUME NEW p, Upd(o, p, m, y)
        PROVE  RS(p, d.stage, m, t.reasoning, t.calls, t.searches, l.think, l.call, l.phase)
    <3>1. RS(o, d.stage, m, t.reasoning, t.calls, t.searches, l.think, l.call, l.phase)
      BY <2>1, SeesHas
    <3> HIDE DEF o, m
    <3> QED BY <2>1, <2>5, <2>6, <3>1, MoreText
  <2> QED BY <2>1, <2>2, <2>4, <2>6, ChangesSees
<1> HIDE DEF r3
<1> QED BY <1>1, <1>5, <1>6, ReachesJoined

-----------------------------------------------------------------------------
Regroups(w, a, e) == R!Joined(R!Joined(w, a), e) = R!Joined(w, R!Joined(a, e))

\* Three operations in turn, grouped either way.
LEMMA JoinAssoc ==
  ASSUME NEW w, NEW a, NEW e, w.err = FALSE, a.err = FALSE, e.err = FALSE,
         IsSeq(w.out), IsSeq(a.out), IsSeq(e.out)
  PROVE  Regroups(w, a, e)
<1> DEFINE T == Elements(w.out) \cup Elements(a.out) \cup Elements(e.out)
<1>1. w.out \in Seq(T) /\ a.out \in Seq(T) /\ e.out \in Seq(T)
  <2>1. w.out \in Seq(Elements(w.out)) /\ a.out \in Seq(Elements(a.out)) /\ e.out \in Seq(Elements(e.out))
    BY SeqIn
  <2> QED BY <2>1
<1> HIDE DEF T
<1>2. (w.out \o a.out) \o e.out = w.out \o (a.out \o e.out)
  <2> DEFINE x == w.out
             y == a.out
             z == e.out
  <2>1. x \in Seq(T) /\ y \in Seq(T) /\ z \in Seq(T)
    BY <1>1
  <2> HIDE DEF x, y, z
  <2>2. \A S : \A p, q, r \in Seq(S) : (p \o q) \o r = p \o (q \o r)
    BY ConcatAssociative, Zenon
  <2>3. (x \o y) \o z = x \o (y \o z)
    BY <2>1, <2>2
  <2> QED BY <2>3 DEF x, y, z
<1>3. R!Joined(w, a) = [s |-> a.s, out |-> w.out \o a.out, err |-> FALSE]
  BY DEF R!Joined
<1>4. R!Joined(a, e) = [s |-> e.s, out |-> a.out \o e.out, err |-> FALSE]
  BY DEF R!Joined
<1>5. R!Joined(R!Joined(w, a), e) = [s |-> e.s, out |-> (w.out \o a.out) \o e.out, err |-> FALSE]
  BY <1>3 DEF R!Joined
<1>6. R!Joined(w, R!Joined(a, e)) = [s |-> e.s, out |-> w.out \o (a.out \o e.out), err |-> FALSE]
  BY <1>4 DEF R!Joined
<1> QED BY <1>2, <1>5, <1>6 DEF Regroups

\* A native item arrives whole, after what was open is closed.
LEMMA NativeSees ==
  ASSUME NEW s, NEW k, NEW c, SeesR(s, k, c), Musings(k), NEW item, IsBlock(item), item.kind = "native",
         NEW l, SameHeard(k, l), l.think = <<>>
  PROVE  ReachesR(l, c, R!Native(s, item))
<1> DEFINE w == R!CloseOpenItems(s)
           a == R!Add(w.s, item, item)
           e == R!Done(a.s, Len(a.s.output))
<1>1. R!Native(s, item) = R!Joined(R!Joined(w, a), e)
  <2>1. R!Native(s, item) = R!Joined(R!Joined(w, a), R!Done(R!Joined(w, a).s, Len(R!Joined(w, a).s.output)))
    BY DEF R!Native, R!Then
  <2>2. ReachesR(l, c, w) /\ Lasts(w, 0, 0)
    BY ClosesItems
  <2> HIDE DEF w, a
  <2>3. R!Joined(w, a).s = a.s
    BY <2>2, JoinedIs DEF Lasts
  <2> QED BY <2>1, <2>3
<1>2. ReachesR(l, c, w) /\ Lasts(w, 0, 0)
  BY ClosesItems
<1>3. Entire(w.s, item) = R!Joined(a, e)
  BY DEF Entire, R!Then
<1>4. a.err = FALSE /\ IsSeq(a.out) /\ e.err = FALSE /\ IsSeq(e.out)
  BY SeqFew DEF R!Add, R!Done, R!Event, R!Ok
<1> HIDE DEF w, a, e
<1>5. w.err = FALSE /\ IsSeq(w.out)
  BY <1>2 DEF Lasts, ReachesR
<1>6. R!Native(s, item) = R!Joined(w, R!Joined(a, e))
  <2>1. Regroups(w, a, e)
    BY <1>4, <1>5, JoinAssoc
  <2> QED BY <1>1, <2>1 DEF Regroups
<1>7. ASSUME NEW d, SeesR(w.s, l, d) PROVE ReachesR(l, d, R!Joined(a, e))
  <2> DEFINE v == w.s
             g == d.stage
  <2>0. SeesR(v, l, d)
    BY <1>7
  <2> HIDE DEF v
  <2>1. /\ Meets(v, d, v.output, g) /\ dialect = "responses" /\ v.terminal = FALSE
        /\ RS(v.output, g, v.message, v.reasoning, v.calls, v.searches, l.think, l.call, l.phase) /\ CallOK(l)
        /\ v.reasoning # 0 => v.part = TRUE
    BY <2>0, SeesHas
  <2>2. Arrives(v, d, g, item)
    <3> DEFINE b == v.output
    <3>1. Meets(v, d, b, g) /\ b = v.output
      BY <2>1
    <3> HIDE DEF b, g
    <3>2. item.kind \notin {"text", "tool_use"}
      OBVIOUS
    <3> QED BY <3>1, <3>2, LeadsEntire
  <2>3. PICK t, h, p : /\ App(g, h, "done") /\ App(v.output, p, item) /\ Leads(d, Entire(v, item), t, p, h)
               /\ t.output = p /\ IsResp(t) /\ t.message = v.message /\ t.reasoning = v.reasoning
               /\ t.part = v.part /\ t.calls = v.calls /\ t.searches = v.searches
               /\ t.terminal = v.terminal
    BY <2>2 DEF Arrives
  <2>4. RS(p, h, v.message, v.reasoning, v.calls, v.searches, l.think, l.call, l.phase)
    <3> HIDE DEF g
    <3> QED BY <2>1, <2>3, NewWhole
  <2>5. ReachesR(l, d, Entire(v, item))
    BY <2>1, <2>3, <2>4, LeadsSees
  <2> QED BY <1>3, <2>5 DEF v
<1> HIDE DEF R!Joined
<1>8. ReachesR(l, c, R!Joined(w, R!Joined(a, e)))
  <2> DEFINE j == R!Joined(a, e)
  <2>1. \A d : SeesR(w.s, l, d) => ReachesR(l, d, j)
    BY <1>7
  <2> HIDE DEF j
  <2>2. ReachesR(l, c, R!Joined(w, j))
    BY <1>2, <2>1, ReachesJoined
  <2> QED BY <2>2 DEF j
<1> QED BY <1>6, <1>8

\* A call starts, after what was open is closed.
LEMMA CallStartSees ==
  ASSUME NEW s, NEW k, NEW c, SeesR(s, k, c), Musings(k), NEW ev, ev.k = "call_start", Fit(k, ev),
         NEW l, l = Hear(k, ev)
  PROVE  ReachesR(l, c, R!CallStart(s, ev))
<1> DEFINE item == Block("tool_use", ev.id, ev.args)
           w == R!CloseOpenItems(s)
           a == R!Add(w.s, item, item)
           u == [a.s EXCEPT !.calls = With(@, ev.index, Len(a.s.output))]
           e == R!Ok(u, <<>>)
           k1 == Hd(<<>>, k.call, k.phase)
<1>0. SameHeard(k, k1) /\ k1.think = <<>>
  BY HdIs DEF SameHeard
<1>a. /\ k.call = <<>> /\ IsSeq(ev.args)
      /\ l.call = <<[index |-> ev.index, id |-> ev.id, args |-> ev.args]>>
      /\ l.think = <<>> /\ l.phase = k.phase
  BY DEF Fit, Hear, Thought, Called
<1>b. k1.call = <<>> /\ k1.phase = k.phase
  BY <1>a, HdIs
<1>c. IsBlock(item) /\ item.kind = "tool_use" /\ item.id = ev.id /\ item.body = ev.args
  BY DEF Block, IsBlock, BlockFields
<1> HIDE DEF k1
<1>2. ReachesR(k1, c, w) /\ Lasts(w, 0, 0)
  BY <1>0, ClosesItems
<1>1. R!CallStart(s, ev) = R!Joined(R!Joined(w, a), e)
  <2> DEFINE W(z) == R!Ok([z EXCEPT !.calls = R!With(@, ev.index, Len(z.output))], <<>>)
  <2>0. R!Block("tool_use", ev.id, ev.args) = item
    BY DEF R!Block, Block
  <2>1. R!CallStart(s, ev) = R!Joined(R!Joined(w, a), W(R!Joined(w, a).s))
    <3> HIDE DEF W, item
    <3> QED BY <2>0 DEF R!CallStart, R!Then, W
  <2> HIDE DEF w, a, item
  <2>3. R!Joined(w, a).s = a.s
    BY <1>2, JoinedIs DEF Lasts
  <2>4. W(a.s) = e
    BY DEF R!With, With
  <2> HIDE DEF W
  <2> QED BY <2>1, <2>3, <2>4
<1>4. a.err = FALSE /\ IsSeq(a.out) /\ e.err = FALSE /\ IsSeq(e.out)
  BY SeqFew DEF R!Add, R!Done, R!Event, R!Ok
<1> HIDE DEF w
<1>7. ASSUME NEW d, SeesR(w.s, k1, d) PROVE ReachesR(l, d, R!Joined(a, e))
  <2> DEFINE v == w.s
             g == d.stage
             n == Len(v.output) + 1
             s0 == [v EXCEPT !.output = Append(@, item)]
             t1 == NextSeq(s0)
             p == Append(v.output, item)
             h == Append(g, "added")
  <2>0. SeesR(v, k1, d)
    BY <1>7
  <2>00. a = R!Add(v, item, item)
    OBVIOUS
  <2> HIDE DEF v, a, u, item
  <2>1. /\ Meets(v, d, v.output, g) /\ dialect = "responses" /\ v.terminal = FALSE
        /\ RS(v.output, g, v.message, v.reasoning, v.calls, v.searches, <<>>, <<>>, k.phase)
        /\ v.reasoning # 0 => v.part = TRUE
        /\ IsResp(v) /\ IsSeq(v.output) /\ IsSeq(g) /\ Len(v.output) \in Nat
    BY <1>0, <1>b, <2>0, SeesHas
  <2>2. Leads(d, a, t1, p, h)
    <3> DEFINE b == v.output
    <3>1. Meets(v, d, b, g) /\ v.output = b
      BY <2>1
    <3> HIDE DEF b, g, t1, p, h
    <3>2. Leads(d, R!Add(v, item, item), NextSeq([v EXCEPT !.output = Append(@, item)]),
               Append(b, item), Append(g, "added"))
      BY <3>1, LeadsAdd
    <3> QED BY <2>00, <3>2 DEF b, t1, p, h
  <2>3. App(v.output, p, item) /\ App(g, h, "added")
    BY <2>1, AppIs
  <2>4. /\ IsResp(s0) /\ s0.output = p /\ s0.message = v.message /\ s0.reasoning = v.reasoning
        /\ s0.part = v.part /\ s0.calls = v.calls /\ s0.searches = v.searches /\ s0.terminal = v.terminal
    <3> HIDE DEF p
    <3> QED BY <2>1 DEF IsResp, RespFields, p
  <2> HIDE DEF s0
  <2>5. SameShape(s0, t1)
    BY <2>4, NextAlike
  <2>6. a.s = t1
    BY <2>2 DEF Leads
  <2>7. IsResp(t1) /\ t1.output = p /\ Len(p) = n /\ t1.calls = v.calls
    BY <2>3, <2>4, <2>5 DEF SameShape, App
  <2> HIDE DEF t1, p, h
  <2>8. /\ IsResp(u) /\ u.output = p /\ u.message = t1.message /\ u.reasoning = t1.reasoning /\ u.part = t1.part
        /\ u.searches = t1.searches /\ u.terminal = t1.terminal /\ u.seq = t1.seq
        /\ u.calls = With(v.calls, ev.index, n)
    <3> HIDE DEF n
    <3>1. u = [t1 EXCEPT !.calls = With(v.calls, ev.index, n)]
      BY <2>6, <2>7 DEF u
    <3> QED BY <2>7, <3>1 DEF IsResp, RespFields
  <2>9. ASSUME NEW q, Holding(q, p, h, t1.seq) PROVE Leads(q, e, u, p, h)
    BY <2>8, <2>9, LeadsNone
  <2>10. Leads(d, R!Joined(a, e), u, p, h)
    <3> HIDE DEF e
    <3> QED BY <2>2, <2>9, LeadsJoined
  <2>11. /\ u.message = v.message /\ u.reasoning = v.reasoning /\ u.searches = v.searches /\ u.terminal = FALSE
         /\ u.part = v.part
    BY <2>1, <2>4, <2>5, <2>8 DEF SameShape
  <2>12. ev.index \in DOMAIN u.calls /\ u.calls[ev.index] = n
    BY <2>8 DEF With
  <2>13. l.call # <<>> /\ l.call[1].id = item.id /\ l.call[1].args = item.body /\ l.call[1].index = ev.index
    BY <1>a, <1>c
  <2>14. RS(p, h, v.message, v.reasoning, u.calls, v.searches, <<>>, l.call, k.phase)
    <3> DEFINE cl == l.call
               da == u.calls
               o == v.output
               mm == v.message
               rr == v.reasoning
               ca == v.calls
               se == v.searches
               ph == k.phase
    <3>1. /\ RS(o, g, mm, rr, ca, se, <<>>, <<>>, ph) /\ IsBlock(item) /\ item.kind = "tool_use"
          /\ App(o, p, item) /\ App(g, h, "added") /\ cl # <<>> /\ cl[1].id = item.id
          /\ cl[1].args = item.body /\ cl[1].index \in DOMAIN da /\ da[cl[1].index] = Len(o) + 1
      BY <1>c, <2>1, <2>3, <2>12, <2>13
    <3> HIDE DEF cl, da, o, mm, rr, ca, se, ph, g
    <3>2. RS(p, h, mm, rr, da, se, <<>>, cl, ph)
      BY <3>1, NewCall
    <3> QED BY <3>2 DEF cl, da, mm, rr, se, ph
  <2>15. CallOK(l)
    BY <1>a DEF CallOK, CallFields
  <2> HIDE DEF e, g
  <2>16. RS(p, h, u.message, u.reasoning, u.calls, u.searches, l.think, l.call, l.phase)
    BY <1>a, <2>11, <2>14
  <2>17. u.reasoning # 0 => u.part = TRUE
    BY <2>1, <2>11
  <2>18. u.output = p /\ IsResp(u) /\ u.terminal = FALSE /\ dialect = "responses"
    BY <2>1, <2>8, <2>11
  <2> QED BY <2>10, <2>15, <2>16, <2>17, <2>18, LeadsSees
<1> HIDE DEF a, e
<1>5. w.err = FALSE /\ IsSeq(w.out)
  BY <1>2 DEF Lasts, ReachesR
<1>6. R!CallStart(s, ev) = R!Joined(w, R!Joined(a, e))
  <2>1. Regroups(w, a, e)
    BY <1>4, <1>5, JoinAssoc
  <2> QED BY <1>1, <2>1 DEF Regroups
<1>8. ReachesR(l, c, R!Joined(w, R!Joined(a, e)))
  <2> DEFINE j == R!Joined(a, e)
  <2>1. \A d : SeesR(w.s, k1, d) => ReachesR(l, d, j)
    BY <1>7
  <2> HIDE DEF j
  <2>2. ReachesR(l, c, R!Joined(w, j))
    BY <1>2, <2>1, ReachesJoined
  <2> QED BY <2>2 DEF j
<1> QED BY <1>6, <1>8

-----------------------------------------------------------------------------
\* What SeesR says of the call that is open.
LEMMA CallHas ==
  ASSUME NEW s, NEW k, NEW c, SeesR(s, k, c), k.call # <<>>
  PROVE  LET p == k.call[1]
             pos == s.calls[p.index]
         IN  /\ p.index \in DOMAIN s.calls /\ pos \in 1..Len(s.output) /\ c.stage[pos] = "added"
             /\ IsBlock(s.output[pos]) /\ s.output[pos].kind = "tool_use" /\ s.output[pos].id = p.id
             /\ s.output[pos].body = p.args /\ IsSeq(p.args) /\ CallAt(s.calls, k.call) = pos
<1>1. RS(s.output, c.stage, s.message, s.reasoning, s.calls, s.searches, k.think, k.call, k.phase) /\ CallOK(k)
  BY SeesHas
<1>2. IsSeq(k.call[1].args)
  BY <1>1 DEF CallOK
<1>3. CallsHeld(s.output, c.stage, s.calls, k.call) /\ Items(s.output, c.stage)
  BY <1>1 DEF RS
<1> QED BY <1>2, <1>3, Zenon DEF CallsHeld, CallAt, Items

\* A call's arguments go on.
LEMMA CallArgsSees ==
  ASSUME NEW s, NEW k, NEW c, SeesR(s, k, c), NEW ev, ev.k = "call_args", Fit(k, ev),
         NEW l, l = Hear(k, ev)
  PROVE  ReachesR(l, c, R!CallArgs(s, ev))
<1> DEFINE o == s.output
           p == k.call[1]
           pos == s.calls[p.index]
           v == Append(p.args, ev.x)
           y == [o[pos] EXCEPT !.body = o[pos].body \o <<ev.x>>]
           w == R!CallArgs(s, ev)
<1>1. k.call # <<>> /\ ev.index = p.index
  BY DEF Fit
<1>2. /\ p.index \in DOMAIN s.calls /\ pos \in 1..Len(o) /\ c.stage[pos] = "added"
      /\ IsBlock(o[pos]) /\ o[pos].kind = "tool_use" /\ o[pos].id = p.id
      /\ o[pos].body = p.args /\ IsSeq(p.args) /\ CallAt(s.calls, k.call) = pos
  BY <1>1, CallHas, Zenon
<1>3. l.call = <<[index |-> p.index, id |-> p.id, args |-> v]>> /\ l.think = k.think /\ l.phase = k.phase
  BY <1>1 DEF Hear, Called, Thought
<1>4. IsSeq(v) /\ v = p.args \o <<ev.x>>
  <2> DEFINE a == p.args
             x == ev.x
  <2>1. IsSeq(a)
    BY <1>2, Zenon
  <2> HIDE DEF a, x
  <2>2. Append(a, x) = a \o <<x>> /\ IsSeq(Append(a, x))
    BY <2>1, SeqLast, SeqAdd
  <2> QED BY <2>2 DEF a, x
<1>5. w = R!Extend(s, "args", pos, <<ev.x>>)
  BY <1>1, <1>2, Zenon DEF R!CallArgs
<1> HIDE DEF w, v, p
<1>6. Changes(s, c, pos, y, w)
  <2> DEFINE x == <<ev.x>>
             at == pos
  <2>1. at \in 1..Len(s.output) /\ c.stage[at] = "added" /\ s.output[at].kind = "tool_use"
        /\ w = R!Extend(s, "args", at, x)
    BY <1>2, <1>5
  <2> HIDE DEF x, at
  <2>2. Changes(s, c, at, [s.output[at] EXCEPT !.body = s.output[at].body \o x], w)
    BY <2>1, Extends, Zenon
  <2> QED BY <2>2, Zenon DEF x, at
<1>7. IsBlock(y) /\ y.kind = "tool_use" /\ y.id = p.id /\ y.body = v
  BY <1>2, <1>4, Zenon DEF IsBlock, BlockFields
<1> HIDE DEF y
<1>8. CallOK(l) /\ l.call # <<>> /\ l.call[1].index = p.index /\ l.call[1].id = p.id /\ l.call[1].args = v
  <2> DEFINE z == [index |-> p.index, id |-> p.id, args |-> v]
  <2>1. z = [x \in CallFields |-> z[x]] /\ z.args = v /\ z.index = p.index /\ z.id = p.id
    BY DEF CallFields
  <2> HIDE DEF z
  <2>2. l.call = <<z>>
    BY <1>3 DEF z
  <2>3. IsSeq(z.args)
    BY <1>4, <2>1
  <2>4. CallOK(l)
    BY <2>1, <2>2, <2>3, Zenon DEF CallOK
  <2>5. l.call # <<>> /\ l.call[1] = z
    BY <2>2
  <2> QED BY <2>1, <2>4, <2>5
<1>9. ASSUME NEW q, Upd(o, q, pos, y)
      PROVE  RS(q, c.stage, s.message, s.reasoning, s.calls, s.searches, l.think, l.call, l.phase)
  <2> DEFINE g == c.stage
             mm == s.message
             rr == s.reasoning
             ca == s.calls
             se == s.searches
             th == k.think
             cl == k.call
             dl == l.call
             ph == k.phase
  <2>1. RS(o, g, mm, rr, ca, se, th, cl, ph)
    BY SeesHas
  <2>2. /\ cl # <<>> /\ IsBlock(y) /\ y.kind = "tool_use" /\ Upd(o, q, CallAt(ca, cl), y)
        /\ dl # <<>> /\ dl[1].index = cl[1].index /\ dl[1].id = y.id /\ dl[1].args = y.body
    <3>1. cl[1].index = p.index
      BY DEF p
    <3> QED BY <1>1, <1>2, <1>7, <1>8, <1>9, <3>1
  <2> HIDE DEF o, g, mm, rr, ca, se, th, cl, dl, ph
  <2>3. RS(q, g, mm, rr, ca, se, th, dl, ph)
    BY <2>1, <2>2, MoreArgs
  <2> QED BY <1>3, <2>3 DEF g, mm, rr, ca, se, th, dl, ph
<1>10. \A q : Upd(o, q, pos, y) =>
         RS(q, c.stage, s.message, s.reasoning, s.calls, s.searches, l.think, l.call, l.phase)
  BY <1>9
<1> HIDE DEF pos
<1> QED BY <1>6, <1>8, <1>10, ChangesSees DEF w

\* A call ends.
LEMMA CallEndSees ==
  ASSUME NEW s, NEW k, NEW c, SeesR(s, k, c), NEW ev, ev.k = "call_end", Fit(k, ev),
         NEW l, l = Hear(k, ev)
  PROVE  ReachesR(l, c, R!CallEnd(s, ev))
<1> DEFINE o == s.output
           p == k.call[1]
           pos == s.calls[p.index]
           y == [o[pos] EXCEPT !.body = ev.args, !.st = "completed"]
           t == [s EXCEPT !.output[pos].body = ev.args, !.output[pos].st = "completed"]
           r == [o EXCEPT ![pos] = y]
           w == R!CallEnd(s, ev)
           e1 == R!Event(t, "args_done", pos, ev.args)
           t1 == NextSeq(t)
           e2 == R!Done(t1, pos)
           t2 == NextSeq(t1)
           g == c.stage
           g1 == [g EXCEPT ![pos] = "closed"]
           g2 == [g1 EXCEPT ![pos] = "done"]
<1>0. k.call = <<[index |-> ev.index, id |-> ev.id, args |-> ev.args]>>
  BY DEF Fit
<1>1. k.call # <<>> /\ ev.index = p.index /\ p.args = ev.args /\ p.id = ev.id
  BY <1>0
<1>2. /\ p.index \in DOMAIN s.calls /\ pos \in 1..Len(o) /\ c.stage[pos] = "added"
      /\ IsBlock(o[pos]) /\ o[pos].kind = "tool_use" /\ o[pos].id = p.id
      /\ o[pos].body = p.args /\ IsSeq(p.args) /\ CallAt(s.calls, k.call) = pos
  BY <1>1, CallHas, Zenon
<1>3. l.call = <<>> /\ l.think = k.think /\ l.phase = k.phase
  BY DEF Hear, Called, Thought
<1>4. /\ Meets(s, c, o, g) /\ IsResp(s) /\ dialect = "responses" /\ s.terminal = FALSE
      /\ IsSeq(o) /\ IsSeq(g) /\ Len(o) \in Nat /\ Len(g) = Len(o)
      /\ RS(o, g, s.message, s.reasoning, s.calls, s.searches, k.think, k.call, k.phase)
      /\ s.reasoning # 0 => s.part = TRUE
  BY SeesHas
<1>5. t = [s EXCEPT !.output = r]
  <2>1. t = [s EXCEPT !.output = [o EXCEPT ![pos] = [[o[pos] EXCEPT !.body = ev.args] EXCEPT !.st = "completed"]]]
    BY <1>2, <1>4, Zenon DEF IsResp, RespFields, IsSeq
  <2>2. y = [[o[pos] EXCEPT !.body = ev.args] EXCEPT !.st = "completed"]
    BY <1>2, Zenon DEF IsBlock, BlockFields
  <2> HIDE DEF t, y
  <2> QED BY <2>1, <2>2
<1>6. Upd(o, r, pos, y)
  <2> HIDE DEF y
  <2> QED BY <1>2, <1>4, UpdIs, Zenon
<1>7. /\ IsBlock(y) /\ y.kind = "tool_use" /\ y.id = o[pos].id /\ y.body = o[pos].body /\ y.cites = o[pos].cites
  BY <1>1, <1>2, Zenon DEF IsBlock, BlockFields
<1> HIDE DEF r, y, t, p, pos
<1>8. Alters(s, t, r) /\ t.seq = s.seq
  BY <1>4, <1>5 DEF Alters, IsResp, RespFields
<1>9. w = R!Joined(e1, e2)
  <2>2. R!CallEnd(s, ev) = R!Then(e1, LAMBDA z : R!Done(z, pos))
    BY <1>1, <1>2 DEF R!CallEnd, t, pos
  <2>3. R!Then(e1, LAMBDA z : R!Done(z, pos)) = R!Joined(e1, R!Done(e1.s, pos))
    BY DEF R!Then
  <2>4. e1.s = t1
    BY DEF R!Event, R!Ok, NextSeq
  <2> HIDE DEF e1, t1
  <2> QED BY <2>2, <2>3, <2>4
<1>10. Upd(g, g1, pos, "closed") /\ g1[pos] = "closed" /\ Len(g1) = Len(g) /\ IsSeq(g1)
  <2>1. pos \in 1..Len(g) /\ IsSeq(g)
    BY <1>2, <1>4
  <2> HIDE DEF g
  <2>2. Upd(g, g1, pos, "closed")
    BY <2>1, UpdIs
  <2> QED BY <2>2 DEF Upd
<1> HIDE DEF g1
<1>11. Upd(g, g2, pos, "done")
  BY <1>10, UpdMore
<1> HIDE DEF g2
<1>12. IsResp(t) /\ Meets(t, c, o, g)
  BY <1>4, <1>8 DEF Alters, Meets
<1>13. Leads(c, e1, t1, o, g1)
  <2> DEFINE x == ev.args
  <2>1. x = o[pos].body /\ pos \in 1..Len(o) /\ g[pos] = "added" /\ o[pos].kind = "tool_use"
    BY <1>1, <1>2
  <2> HIDE DEF x, o, g, t1
  <2>2. Leads(c, R!Event(t, "args_done", pos, x), NextSeq(t), o, [g EXCEPT ![pos] = "closed"])
    BY <1>12, <2>1, LeadsStage
  <2> QED BY <2>2 DEF x, g1, t1
<1>14. SameShape(t, t1) /\ t1.seq = t.seq + 1 /\ SameShape(t, t2)
  BY <1>12, NextAlike
<1> HIDE DEF e1
<1>15. IsResp(t1) /\ t1.output = r /\ r[pos] = y
  BY <1>6, <1>8, <1>14 DEF SameShape, Alters, Upd
<1> HIDE DEF t1
<1>16. ASSUME NEW d, Holding(d, o, g1, t1.seq) PROVE Leads(d, e2, t2, r, g2)
  <2>1. Meets(t1, d, o, g1)
    BY <1>4, <1>15, <1>16 DEF Meets
  <2>2. Ended(o[pos], y, g1[pos])
    <3> DEFINE a == o[pos]
               b == g1[pos]
    <3>1. b = "closed" /\ y.kind = a.kind /\ y.id = a.id /\ y.body = a.body /\ y.cites = a.cites
      BY <1>2, <1>7, <1>10
    <3> HIDE DEF a, b
    <3>2. Ended(a, y, b)
      BY <3>1 DEF Ended
    <3> QED BY <3>2 DEF a, b
  <2>3. y = t1.output[pos]
    BY <1>15
  <2> HIDE DEF o, g, t2, e2
  <2>4. Leads(d, R!Done(t1, pos), NextSeq(t1), [o EXCEPT ![pos] = y], [g1 EXCEPT ![pos] = "done"])
    BY <1>2, <2>1, <2>2, <2>3, LeadsDone
  <2> QED BY <2>4 DEF t2, e2, r, g2
<1> HIDE DEF e2, t2
<1>17. Leads(c, R!Joined(e1, e2), t2, r, g2)
  BY <1>13, <1>16, LeadsJoined
<1>18. Alters(s, t2, r)
  BY <1>8, <1>14 DEF Alters, SameShape
<1>19. RS(r, g2, s.message, s.reasoning, s.calls, s.searches, k.think, <<>>, k.phase)
  <2> DEFINE mm == s.message
             rr == s.reasoning
             ca == s.calls
             se == s.searches
             th == k.think
             cl == k.call
             ph == k.phase
  <2>1. /\ RS(o, g, mm, rr, ca, se, th, cl, ph) /\ cl # <<>> /\ IsBlock(y) /\ y.kind = "tool_use"
        /\ Upd(o, r, CallAt(ca, cl), y) /\ Upd(g, g2, CallAt(ca, cl), "done")
    BY <1>1, <1>2, <1>4, <1>6, <1>7, <1>11
  <2> HIDE DEF o, g, mm, rr, ca, se, th, cl, ph
  <2>2. RS(r, g2, mm, rr, ca, se, th, <<>>, ph)
    BY <2>1, EndCall
  <2> QED BY <2>2 DEF mm, rr, ca, se, th, ph
<1>20. /\ IsResp(t2) /\ t2.output = r /\ t2.terminal = FALSE /\ (t2.reasoning # 0 => t2.part = TRUE)
       /\ RS(r, g2, t2.message, t2.reasoning, t2.calls, t2.searches, l.think, l.call, l.phase)
  BY <1>3, <1>4, <1>18, <1>19 DEF Alters
<1>21. CallOK(l)
  BY <1>3 DEF CallOK
<1>22. ReachesR(l, c, R!Joined(e1, e2))
  <2> HIDE DEF g
  <2> QED BY <1>4, <1>17, <1>20, <1>21, LeadsSees
<1> QED BY <1>9, <1>22

-----------------------------------------------------------------------------
\* A search that the client has or that is announced now.
Known(s, id) ==
  LET item == R!Block("search", id, <<>>)
  IN  IF id \in DOMAIN s.searches THEN R!Ok(s, <<>>)
      ELSE R!Then(R!Then(R!CloseOpenItems(s), LAMBDA r : R!Add(r, item, item)), LAMBDA a :
                  R!Ok([a EXCEPT !.searches = R!With(@, id, Len(a.output))], <<>>))

\* Its next phase.
Phased(r, ev) ==
  LET pos    == r.searches[ev.id]
      status == IF ev.phase = "dropped" THEN "failed" ELSE ev.phase
      ended  == [r EXCEPT !.output[pos].st = status]
  IN  CASE ev.phase = "started"   -> R!Ok(r, <<>>)
        [] ev.phase = "searching" -> R!Event(r, "searching", pos, <<>>)
        [] OTHER -> R!Then(IF ev.phase = "completed" THEN R!Event(ended, "searched", pos, <<>>)
                           ELSE R!Ok(ended, <<>>), LAMBDA q : R!Done(q, pos))

\* A search's event: the search is announced if it is new, then moves on.
LEMMA SearchIs == \A s, ev : R!Search(s, ev) = R!Joined(Known(s, ev.id), Phased(Known(s, ev.id).s, ev))
BY DEF R!Search, R!Then, Known, Phased

\* What SeesR says of a search.
LEMMA SearchHas ==
  ASSUME NEW s, NEW k, NEW c, SeesR(s, k, c)
  PROVE  /\ DOMAIN s.searches = DOMAIN k.phase
         /\ \A i \in DOMAIN s.searches :
                 /\ s.searches[i] \in 1..Len(s.output)
                 /\ IsBlock(s.output[s.searches[i]]) /\ s.output[s.searches[i]].kind = "search"
                 /\ PhaseRank(k.phase[i]) < 2 => c.stage[s.searches[i]] = "added"
<1>1. RS(s.output, c.stage, s.message, s.reasoning, s.calls, s.searches, k.think, k.call, k.phase)
  BY SeesHas
<1>2. Searches(s.output, c.stage, s.searches, k.phase) /\ Items(s.output, c.stage)
  BY <1>1 DEF RS
<1> QED BY <1>2 DEF Searches, Items

Found(w, id, ph) == w.err = FALSE /\ id \in DOMAIN w.s.searches /\ PhaseRank(ph[id]) < 2

\* A search is known afterwards.
LEMMA KnownSees ==
  ASSUME NEW s, NEW k, NEW c, SeesR(s, k, c), Musings(k), NEW id, NEW l, l.call = k.call,
         l.think = IF id \in DOMAIN k.phase THEN k.think ELSE <<>>,
         l.phase = IF id \in DOMAIN k.phase THEN k.phase ELSE With(k.phase, id, "started"),
         id \in DOMAIN k.phase => PhaseRank(k.phase[id]) < 2,
         NEW w, w = Known(s, id)
  PROVE  ReachesR(l, c, w) /\ Found(w, id, l.phase)
<1>0. DOMAIN s.searches = DOMAIN k.phase /\ CallOK(k)
  BY SearchHas, SeesHas, ZenonT(30)
<1>00. CallOK(l)
  BY <1>0, CallSame
<1>1. CASE id \in DOMAIN s.searches
  <2>1. w = R!Ok(s, <<>>)
    BY <1>1 DEF Known
  <2>2. l.think = k.think /\ SameHeard(k, l)
    BY <1>0, <1>1 DEF SameHeard
  <2>3. SeesR(s, l, c)
    BY <2>2, SeesSame
  <2>4. ReachesR(l, c, w)
    BY <2>1, <2>3, ReachesNone
  <2>5. w.s = s /\ w.err = FALSE
    BY <2>1 DEF R!Ok
  <2>6. PhaseRank(l.phase[id]) < 2
    BY <1>0, <1>1
  <2> QED BY <1>1, <2>4, <2>5, <2>6 DEF Found
<1>2. CASE id \notin DOMAIN s.searches
  <2> DEFINE item == Block("search", id, <<>>)
             v == R!CloseOpenItems(s)
             a == R!Add(v.s, item, item)
             u == [a.s EXCEPT !.searches = With(@, id, Len(a.s.output))]
             e == R!Ok(u, <<>>)
             k1 == Hd(<<>>, k.call, k.phase)
  <2>0. SameHeard(k, k1) /\ k1.think = <<>> /\ k1.call = k.call /\ k1.phase = k.phase
    BY HdIs DEF SameHeard
  <2>a. l.think = <<>> /\ l.phase = With(k.phase, id, "started") /\ l.call = k.call
    BY <1>0, <1>2
  <2>c. IsBlock(item) /\ item.kind = "search"
    BY DEF Block, IsBlock, BlockFields
  <2> HIDE DEF k1
  <2>2. ReachesR(k1, c, v) /\ Lasts(v, 0, 0)
    BY <2>0, ClosesItems
  <2>1. w = R!Joined(R!Joined(v, a), e)
    <3> DEFINE W(z) == R!Ok([z EXCEPT !.searches = R!With(@, id, Len(z.output))], <<>>)
    <3>0. R!Block("search", id, <<>>) = item
      BY DEF R!Block, Block
    <3>1. w = R!Joined(R!Joined(v, a), W(R!Joined(v, a).s))
      <4> HIDE DEF W, item
      <4> QED BY <1>2, <3>0 DEF Known, R!Then, W
    <3> HIDE DEF v, a, item
    <3>3. R!Joined(v, a).s = a.s
      BY <2>2, JoinedIs DEF Lasts
    <3>4. W(a.s) = e
      BY DEF R!With, With
    <3> HIDE DEF W
    <3> QED BY <3>1, <3>3, <3>4
  <2>4. a.err = FALSE /\ IsSeq(a.out) /\ e.err = FALSE /\ IsSeq(e.out)
    BY SeqFew DEF R!Add, R!Done, R!Event, R!Ok
  <2> HIDE DEF v
  <2>5. v.err = FALSE /\ IsSeq(v.out)
    BY <2>2 DEF Lasts, ReachesR
  <2>6. w = R!Joined(v, R!Joined(a, e))
    <3> HIDE DEF a, e
    <3>1. Regroups(v, a, e)
      BY <2>4, <2>5, JoinAssoc
    <3> QED BY <2>1, <3>1 DEF Regroups
  <2>7. ASSUME NEW d, SeesR(v.s, k1, d) PROVE ReachesR(l, d, R!Joined(a, e)) /\ id \in DOMAIN u.searches
    <3> DEFINE z == v.s
               g == d.stage
               n == Len(z.output) + 1
               s0 == [z EXCEPT !.output = Append(@, item)]
               t1 == NextSeq(s0)
               p == Append(z.output, item)
               h == Append(g, "added")
    <3>0. SeesR(z, k1, d)
      BY <2>7
    <3>00. a = R!Add(z, item, item)
      OBVIOUS
    <3> HIDE DEF z, a, u, item
    <3>1. /\ Meets(z, d, z.output, g) /\ dialect = "responses" /\ z.terminal = FALSE
          /\ RS(z.output, g, z.message, z.reasoning, z.calls, z.searches, <<>>, k.call, k.phase)
          /\ z.reasoning # 0 => z.part = TRUE
          /\ IsResp(z) /\ IsSeq(z.output) /\ IsSeq(g) /\ Len(z.output) \in Nat
      BY <2>0, <3>0, SeesHas
    <3>b. id \notin DOMAIN z.searches
      BY <1>0, <1>2, <2>0, <3>0, SearchHas
    <3>2. Leads(d, a, t1, p, h)
      <4> DEFINE b == z.output
      <4>1. Meets(z, d, b, g) /\ z.output = b
        BY <3>1
      <4> HIDE DEF b, g, t1, p, h
      <4>2. Leads(d, R!Add(z, item, item), NextSeq([z EXCEPT !.output = Append(@, item)]),
                 Append(b, item), Append(g, "added"))
        BY <4>1, LeadsAdd
      <4> QED BY <3>00, <4>2 DEF b, t1, p, h
    <3>3. App(z.output, p, item) /\ App(g, h, "added")
      BY <3>1, AppIs
    <3>4. /\ IsResp(s0) /\ s0.output = p /\ s0.message = z.message /\ s0.reasoning = z.reasoning
          /\ s0.part = z.part /\ s0.calls = z.calls /\ s0.searches = z.searches /\ s0.terminal = z.terminal
      <4> HIDE DEF p
      <4> QED BY <3>1 DEF IsResp, RespFields, p
    <3> HIDE DEF s0
    <3>5. SameShape(s0, t1)
      BY <3>4, NextAlike
    <3>6. a.s = t1
      BY <3>2 DEF Leads
    <3>7. IsResp(t1) /\ t1.output = p /\ Len(p) = n /\ t1.searches = z.searches
      BY <3>3, <3>4, <3>5 DEF SameShape, App
    <3> HIDE DEF t1, p, h
    <3>8. /\ IsResp(u) /\ u.output = p /\ u.message = t1.message /\ u.reasoning = t1.reasoning /\ u.part = t1.part
          /\ u.calls = t1.calls /\ u.terminal = t1.terminal /\ u.seq = t1.seq
          /\ u.searches = With(z.searches, id, n)
      <4> HIDE DEF n
      <4>1. u = [t1 EXCEPT !.searches = With(z.searches, id, n)]
        BY <3>6, <3>7 DEF u
      <4> QED BY <3>7, <4>1 DEF IsResp, RespFields
    <3>9. ASSUME NEW q, Holding(q, p, h, t1.seq) PROVE Leads(q, e, u, p, h)
      BY <3>8, <3>9, LeadsNone
    <3>10. Leads(d, R!Joined(a, e), u, p, h)
      <4> HIDE DEF e
      <4> QED BY <3>2, <3>9, LeadsJoined
    <3>11. /\ u.message = z.message /\ u.reasoning = z.reasoning /\ u.calls = z.calls /\ u.terminal = FALSE
           /\ u.part = z.part
      BY <3>1, <3>4, <3>5, <3>8 DEF SameShape
    <3>12. id \in DOMAIN u.searches
      BY <3>8 DEF With
    <3>14. RS(p, h, z.message, z.reasoning, z.calls, u.searches, <<>>, k.call, l.phase)
      <4> DEFINE cl == k.call
                 o == z.output
                 mm == z.message
                 rr == z.reasoning
                 ca == z.calls
                 se == z.searches
                 ph == k.phase
      <4>1. /\ RS(o, g, mm, rr, ca, se, <<>>, cl, ph) /\ IsBlock(item) /\ item.kind = "search"
            /\ App(o, p, item) /\ App(g, h, "added") /\ id \notin DOMAIN se /\ PhaseRank("started") < 2
        BY <2>c, <3>1, <3>3, <3>b DEF PhaseRank
      <4> HIDE DEF cl, o, mm, rr, ca, se, ph, g
      <4>2. RS(p, h, mm, rr, ca, With(se, id, Len(o) + 1), <<>>, cl, With(ph, id, "started"))
        BY <4>1, NewSearch
      <4> QED BY <2>a, <3>8, <4>2 DEF cl, o, mm, rr, ca, se, ph
    <3> HIDE DEF e, g
    <3>16. RS(p, h, u.message, u.reasoning, u.calls, u.searches, l.think, l.call, l.phase)
      BY <2>a, <3>11, <3>14
    <3>17. u.reasoning # 0 => u.part = TRUE
      BY <3>1, <3>11
    <3>18. u.output = p /\ IsResp(u) /\ u.terminal = FALSE /\ dialect = "responses"
      BY <3>1, <3>8, <3>11
    <3>19. ReachesR(l, d, R!Joined(a, e))
      BY <1>00, <3>10, <3>16, <3>17, <3>18, LeadsSees
    <3> QED BY <3>12, <3>19
  <2>8. e.s = u /\ e.err = FALSE
    BY DEF R!Ok
  <2> HIDE DEF a, e, u
  <2>9. ReachesR(l, c, w)
    <3> DEFINE j == R!Joined(a, e)
    <3>1. \A d : SeesR(v.s, k1, d) => ReachesR(l, d, j)
      BY <2>7
    <3> HIDE DEF j
    <3>2. ReachesR(l, c, R!Joined(v, j))
      BY <2>2, <3>1, ReachesJoined
    <3> QED BY <2>6, <3>2 DEF j
  <2>10. id \in DOMAIN u.searches
    <3> DEFINE d == Accept(dialect, c, v.out)
    <3>1. SeesR(v.s, k1, d)
      BY <2>2, <2>5, ReachIs
    <3> HIDE DEF d
    <3> QED BY <2>7, <3>1
  <2>11. w.s = u /\ w.err = FALSE
    <3> DEFINE j == R!Joined(a, e)
    <3>1. j.s = u /\ j.err = FALSE
      BY <2>4, <2>8, JoinedIs
    <3> HIDE DEF j
    <3>2. w = R!Joined(v, j)
      BY <2>6 DEF j
    <3>3. R!Joined(v, j).s = j.s /\ R!Joined(v, j).err = j.err
      BY <2>5, JoinedIs
    <3> HIDE DEF u
    <3> QED BY <3>1, <3>2, <3>3
  <2>12. PhaseRank(l.phase[id]) < 2
    <3>1. l.phase[id] = "started"
      BY <2>a DEF With
    <3> QED BY <3>1 DEF PhaseRank
  <2> QED BY <2>9, <2>10, <2>11, <2>12 DEF Found
<1> QED BY <1>1, <1>2

\* A search that is known takes its next phase.
LEMMA PhasedSees ==
  ASSUME NEW s, NEW k, NEW c, SeesR(s, k, c), NEW ev, ev.id \in DOMAIN s.searches,
         PhaseRank(k.phase[ev.id]) < 2, NEW l, l.call = k.call, l.think = k.think,
         l.phase = With(k.phase, ev.id, ev.phase), NEW w, w = Phased(s, ev)
  PROVE  ReachesR(l, c, w)
<1> DEFINE o == s.output
           g == c.stage
           id == ev.id
           pos == s.searches[id]
           status == IF ev.phase = "dropped" THEN "failed" ELSE ev.phase
           y == [o[pos] EXCEPT !.st = status]
           r == [o EXCEPT ![pos] = y]
           t == [s EXCEPT !.output[pos].st = status]
           e1 == IF ev.phase = "completed" THEN R!Event(t, "searched", pos, <<>>) ELSE R!Ok(t, <<>>)
           t1 == e1.s
           e2 == R!Done(t1, pos)
           t2 == NextSeq(t1)
           h == [g EXCEPT ![pos] = "done"]
<1>1. /\ pos \in 1..Len(o) /\ IsBlock(o[pos]) /\ o[pos].kind = "search" /\ g[pos] = "added"
  <2>1. \A i \in DOMAIN s.searches :
                 /\ s.searches[i] \in 1..Len(s.output)
                 /\ IsBlock(s.output[s.searches[i]]) /\ s.output[s.searches[i]].kind = "search"
                 /\ PhaseRank(k.phase[i]) < 2 => c.stage[s.searches[i]] = "added"
    BY SearchHas
  <2>2. id \in DOMAIN s.searches /\ PhaseRank(k.phase[id]) < 2
    OBVIOUS
  <2> HIDE DEF id
  <2>3. pos \in 1..Len(s.output) /\ IsBlock(s.output[pos]) /\ s.output[pos].kind = "search"
        /\ c.stage[pos] = "added"
    BY <2>1, <2>2
  <2> QED BY <2>3
<1>2. /\ Meets(s, c, o, g) /\ IsResp(s) /\ dialect = "responses" /\ s.terminal = FALSE
      /\ IsSeq(o) /\ IsSeq(g) /\ Len(o) \in Nat /\ Len(g) = Len(o) /\ CallOK(k)
      /\ RS(o, g, s.message, s.reasoning, s.calls, s.searches, k.think, k.call, k.phase)
      /\ s.reasoning # 0 => s.part = TRUE
  BY SeesHas
<1>3. CallOK(l)
  BY <1>2, CallSame
<1>4. CASE ev.phase \in {"started", "searching"}
  <2>1. PhaseRank(ev.phase) < 2
    BY <1>4 DEF PhaseRank
  <2>2. RS(o, g, s.message, s.reasoning, s.calls, s.searches, l.think, l.call, l.phase)
    <3> DEFINE mm == s.message
               rr == s.reasoning
               ca == s.calls
               se == s.searches
               th == k.think
               cl == k.call
               ph == k.phase
               v == ev.phase
    <3>1. RS(o, g, mm, rr, ca, se, th, cl, ph) /\ id \in DOMAIN se /\ PhaseRank(ph[id]) < 2 /\ PhaseRank(v) < 2
      BY <1>2, <2>1
    <3> HIDE DEF o, g, mm, rr, ca, se, th, cl, ph, v, id
    <3>2. RS(o, g, mm, rr, ca, se, th, cl, With(ph, id, v))
      BY <3>1, StepSearch
    <3> QED BY <3>2 DEF mm, rr, ca, se, th, cl, ph, v, id
  <2>3. CASE ev.phase = "started"
    <3>1. SeesR(s, l, c)
      BY <1>2, <1>3, <2>2 DEF SeesR
    <3>2. w = R!Ok(s, <<>>)
      BY <2>3 DEF Phased
    <3> QED BY <3>1, <3>2, ReachesNone
  <2>4. CASE ev.phase = "searching"
    <3> DEFINE u == NextSeq(s)
               x == <<>>
    <3>1. w = R!Event(s, "searching", pos, x)
      BY <2>4 DEF Phased
    <3> HIDE DEF pos, o, g, u, x
    <3>2. Leads(c, R!Event(s, "searching", pos, x), NextSeq(s), o, g)
      BY <1>1, <1>2, LeadsSearch
    <3>3. SameShape(s, u)
      BY <1>2, NextAlike DEF u
    <3>4. IsResp(u) /\ u.output = o /\ u.terminal = FALSE /\ (u.reasoning # 0 => u.part = TRUE)
          /\ RS(o, g, u.message, u.reasoning, u.calls, u.searches, l.think, l.call, l.phase)
      BY <1>2, <2>2, <3>3 DEF SameShape, o
    <3>5. Leads(c, w, u, o, g)
      BY <3>1, <3>2 DEF u
    <3> QED BY <1>2, <1>3, <3>4, <3>5, LeadsSees
  <2> QED BY <1>4, <2>3, <2>4
<1>5. CASE ev.phase \notin {"started", "searching"}
  <2>1. ~(PhaseRank(ev.phase) < 2)
    BY <1>5 DEF PhaseRank
  <2>2. t = [s EXCEPT !.output = r]
    BY <1>1, <1>2
  <2>3. Upd(o, r, pos, y)
    <3> HIDE DEF y, o, pos
    <3> QED BY <1>1, <1>2, UpdIs
  <2>4. IsBlock(y) /\ y.kind = "search" /\ y.id = o[pos].id /\ y.body = o[pos].body /\ y.cites = o[pos].cites
    <3> HIDE DEF status
    <3> QED BY <1>1, Zenon DEF IsBlock, BlockFields
  <2>5. w = R!Joined(e1, e2)
    <3>1. w = R!Then(e1, LAMBDA q : R!Done(q, pos))
      <4> HIDE DEF t
      <4> QED BY <1>5 DEF Phased, t
    <3> HIDE DEF e1
    <3>2. R!Then(e1, LAMBDA q : R!Done(q, pos)) = R!Joined(e1, R!Done(e1.s, pos))
      BY DEF R!Then
    <3> QED BY <3>1, <3>2
  <2> HIDE DEF t, r, y
  <2>6. Alters(s, t, r) /\ t.seq = s.seq
    BY <1>2, <2>2 DEF Alters, IsResp, RespFields
  <2>7. IsResp(t) /\ Meets(t, c, o, g)
    BY <1>2, <2>6 DEF Alters, Meets
  <2>8. Leads(c, e1, t1, o, g) /\ SameShape(t, t1)
    <3>1. CASE ev.phase = "completed"
      <4> DEFINE x == <<>>
      <4>1. e1 = R!Event(t, "searched", pos, x)
        BY <3>1
      <4> HIDE DEF pos, o, g, x
      <4>2. Leads(c, R!Event(t, "searched", pos, x), NextSeq(t), o, g)
        BY <1>1, <2>7, LeadsSearch
      <4> HIDE DEF e1
      <4>3. Leads(c, e1, NextSeq(t), o, g) /\ t1 = NextSeq(t)
        BY <4>1, <4>2 DEF Leads
      <4> QED BY <2>7, <4>3, NextAlike
    <3>2. CASE ev.phase # "completed"
      <4>1. e1 = R!Ok(t, <<>>)
        BY <3>2
      <4>2. t1 = t
        BY <4>1 DEF R!Ok
      <4> HIDE DEF e1, o, g
      <4>3. Leads(c, R!Ok(t, <<>>), t, o, g)
        BY <2>7, LeadsNone DEF Meets
      <4> HIDE DEF t1
      <4> QED BY <2>7, <4>1, <4>2, <4>3 DEF SameShape
    <3> QED BY <3>1, <3>2
  <2> HIDE DEF e1, t1
  <2>9. IsResp(t1) /\ t1.output = r /\ r[pos] = y
    BY <2>3, <2>6, <2>8 DEF SameShape, Alters, Upd
  <2>10. SameShape(t1, t2)
    BY <2>9, NextAlike
  <2>11. Upd(g, h, pos, "done")
    <3>1. pos \in 1..Len(g)
      BY <1>1, <1>2
    <3> HIDE DEF g, pos
    <3> QED BY <1>2, <3>1, UpdIs
  <2>12. ASSUME NEW d, Holding(d, o, g, t1.seq) PROVE Leads(d, e2, t2, r, h)
    <3>1. Meets(t1, d, o, g)
      BY <1>2, <2>9, <2>12 DEF Meets
    <3>2. Ended(o[pos], y, g[pos])
      <4> DEFINE a == o[pos]
                 b == g[pos]
      <4>1. b = "added" /\ y.kind = a.kind /\ y.id = a.id /\ y.body = a.body /\ y.cites = a.cites /\ a.kind = "search"
        BY <1>1, <2>4
      <4> HIDE DEF a, b
      <4>2. Ended(a, y, b)
        BY <4>1 DEF Ended
      <4> QED BY <4>2 DEF a, b
    <3>3. y = t1.output[pos]
      BY <2>9
    <3>4. o = s.output
      OBVIOUS
    <3> HIDE DEF o, g, t2, e2, pos
    <3>5. Leads(d, R!Done(t1, pos), NextSeq(t1), [o EXCEPT ![pos] = y], [g EXCEPT ![pos] = "done"])
      BY <1>1, <3>1, <3>2, <3>3, LeadsDone
    <3> QED BY <3>4, <3>5 DEF t2, e2, r, h, o
  <2> HIDE DEF e2, t2, h
  <2>13. Leads(c, R!Joined(e1, e2), t2, r, h)
    BY <2>8, <2>12, LeadsJoined
  <2>14. Alters(s, t2, r)
    BY <2>6, <2>8, <2>10 DEF Alters, SameShape
  <2>15. RS(r, h, s.message, s.reasoning, s.calls, s.searches, k.think, k.call, With(k.phase, id, ev.phase))
    <3> DEFINE mm == s.message
               rr == s.reasoning
               ca == s.calls
               se == s.searches
               th == k.think
               cl == k.call
               ph == k.phase
               v == ev.phase
    <3>1. /\ RS(o, g, mm, rr, ca, se, th, cl, ph) /\ id \in DOMAIN se /\ ~(PhaseRank(v) < 2)
          /\ IsBlock(y) /\ y.kind = "search" /\ Upd(o, r, se[id], y) /\ Upd(g, h, se[id], "done")
      BY <1>2, <2>1, <2>3, <2>4, <2>11
    <3> HIDE DEF o, g, mm, rr, ca, se, th, cl, ph, v, id
    <3>2. RS(r, h, mm, rr, ca, se, th, cl, With(ph, id, v))
      BY <3>1, EndSearch
    <3> QED BY <3>2 DEF mm, rr, ca, se, th, cl, ph, v, id
  <2>16. /\ IsResp(t2) /\ t2.output = r /\ t2.terminal = FALSE /\ (t2.reasoning # 0 => t2.part = TRUE)
         /\ RS(r, h, t2.message, t2.reasoning, t2.calls, t2.searches, l.think, l.call, l.phase)
    BY <1>2, <2>14, <2>15 DEF Alters
  <2> HIDE DEF g
  <2>17. ReachesR(l, c, R!Joined(e1, e2))
    BY <1>2, <1>3, <2>13, <2>16, LeadsSees
  <2> QED BY <2>5, <2>17
<1> QED BY <1>4, <1>5

\* The later value of a key replaces the earlier.
LEMMA WithTwice ==
  ASSUME NEW f, NEW i, NEW x, NEW y
  PROVE  With(With(f, i, x), i, y) = With(f, i, y)
BY DEF With

\* A search's event.
LEMMA SearchSees ==
  ASSUME NEW s, NEW k, NEW c, SeesR(s, k, c), Musings(k), NEW ev, ev.k = "hosted", Fit(k, ev),
         NEW l, l = Hear(k, ev)
  PROVE  ReachesR(l, c, R!Search(s, ev))
<1> DEFINE id == ev.id
           w == Known(s, id)
           v == Phased(w.s, ev)
           k1 == Hd(IF id \in DOMAIN k.phase THEN k.think ELSE <<>>, k.call,
                    IF id \in DOMAIN k.phase THEN k.phase ELSE With(k.phase, id, "started"))
<1>1. R!Search(s, ev) = R!Joined(w, v)
  BY SearchIs
<1>2. /\ k1.think = IF id \in DOMAIN k.phase THEN k.think ELSE <<>>
      /\ k1.call = k.call
      /\ k1.phase = IF id \in DOMAIN k.phase THEN k.phase ELSE With(k.phase, id, "started")
  BY HdIs
<1> HIDE DEF k1
<1>3. id \in DOMAIN k.phase => PhaseRank(k.phase[id]) < 2
  BY DEF Fit, Advances, PhaseRank
<1>4. /\ l.call = k.call /\ l.phase = With(k.phase, id, ev.phase)
      /\ l.think = IF id \in DOMAIN k.phase THEN k.think ELSE <<>>
  BY DEF Hear, Thought, Called
<1>5. l.phase = With(k1.phase, id, ev.phase)
  BY <1>2, <1>4, WithTwice
<1>6. ReachesR(k1, c, w) /\ Found(w, id, k1.phase)
  <2> HIDE DEF id
  <2>1. ReachesR(k1, c, Known(s, id)) /\ Found(Known(s, id), id, k1.phase)
    BY <1>2, <1>3, KnownSees
  <2> QED BY <2>1 DEF id
<1> HIDE DEF w
<1>7. ASSUME NEW d, SeesR(w.s, k1, d) PROVE ReachesR(l, d, v)
  <2> DEFINE t == w.s
  <2>1. SeesR(t, k1, d) /\ ev.id \in DOMAIN t.searches /\ PhaseRank(k1.phase[ev.id]) < 2 /\ v = Phased(t, ev)
    BY <1>6, <1>7 DEF Found
  <2>2. l.call = k1.call /\ l.think = k1.think /\ l.phase = With(k1.phase, ev.id, ev.phase)
    BY <1>2, <1>4, <1>5
  <2> HIDE DEF t, v
  <2> QED BY <2>1, <2>2, PhasedSees
<1> HIDE DEF v
<1> QED BY <1>1, <1>6, <1>7, ReachesJoined

-----------------------------------------------------------------------------
\* Reasoning that is open stays whole.
LEMMA MusingsKept ==
  ASSUME NEW k, Musings(k), NEW ev, Fit(k, ev)
  PROVE  Musings(Hear(k, ev))
<1>1. Hear(k, ev).think = Thought(k, ev)
  BY DEF Hear
<1>2. Thought(k, ev) \in {<<>>, k.think} \/ ev.k = "thinking"
  BY DEF Thought
<1>3. CASE ev.k = "thinking"
  <2>1. IsSeq(ev.x) /\ ev.x # <<>>
    BY <1>3 DEF Fit
  <2>2. CASE k.think # <<>> /\ k.think[1].item = ev.item
    <3> DEFINE a == k.think[1].text
               b == ev.x
    <3>1. IsSeq(a) /\ IsSeq(b) /\ b # <<>>
      BY <2>1, <2>2 DEF Musings
    <3>2. Thought(k, ev) = <<[item |-> ev.item, text |-> a \o b]>>
      BY <1>3, <2>2 DEF Thought
    <3> HIDE DEF a, b
    <3>3. IsSeq(a \o b) /\ Len(a \o b) = Len(a) + Len(b) /\ Len(a) \in Nat /\ Len(b) \in Nat /\ Len(b) # 0
      <4>1. IsSeq(a \o b) /\ Len(a \o b) = Len(a) + Len(b)
        BY <3>1, SeqJoin
      <4>2. Len(a) \in Nat /\ Len(b) \in Nat
        BY <3>1 DEF IsSeq
      <4>3. Len(b) # 0
        <5>1. b \in Seq(Elements(b))
          BY <3>1, SeqIn
        <5> QED BY <3>1, <5>1
      <4> QED BY <4>1, <4>2, <4>3
    <3>4. a \o b # <<>>
      BY <3>3
    <3> DEFINE e == a \o b
    <3>5. Thought(k, ev)[1].text = e
      BY <3>2
    <3> HIDE DEF e
    <3> QED BY <1>1, <3>3, <3>4, <3>5 DEF Musings, e
  <2>3. CASE ~(k.think # <<>> /\ k.think[1].item = ev.item)
    <3>1. Thought(k, ev) = <<[item |-> ev.item, text |-> ev.x]>>
      BY <1>3, <2>3 DEF Thought
    <3>2. Thought(k, ev)[1].text = ev.x
      BY <3>1
    <3> QED BY <1>1, <2>1, <3>2 DEF Musings
  <2> QED BY <2>2, <2>3
<1> QED BY <1>1, <1>2, <1>3 DEF Musings

\* An encoder that differs in what no client sees yet.
LEMMA SeesOther ==
  ASSUME NEW s, NEW k, NEW c, SeesR(s, k, c), NEW x
  PROVE  SeesR([s EXCEPT !.incomplete = x], k, c)
<1> DEFINE t == [s EXCEPT !.incomplete = x]
<1>1. IsResp(s)
  BY SeesHas
<1>2. /\ IsResp(t) /\ t.output = s.output /\ t.seq = s.seq /\ t.message = s.message /\ t.reasoning = s.reasoning
      /\ t.part = s.part /\ t.calls = s.calls /\ t.searches = s.searches /\ t.terminal = s.terminal
  BY <1>1 DEF IsResp, RespFields
<1> HIDE DEF t
<1>3. SeesR(t, k, c)
  BY <1>2 DEF SeesR, Meets
<1> QED BY <1>3 DEF t

\* Any event that fits what was heard keeps the Responses client with its encoder.
LEMMA ResponsesOne ==
  ASSUME NEW s, NEW k, NEW c, SeesR(s, k, c), Musings(k), NEW ev, Fit(k, ev)
  PROVE  ReachesR(Hear(k, ev), c, R!One(s, ev))
<1> DEFINE l == Hear(k, ev)
<1>1. CASE ev.k = "thinking"
  <2>1. R!One(s, ev) = R!Thinking(s, ev)
    BY <1>1 DEF R!One
  <2> QED BY <1>1, <2>1, ThinkingSees
<1>2. CASE ev.k = "text"
  <2>1. R!One(s, ev) = R!Text(s, ev)
    BY <1>2 DEF R!One
  <2> QED BY <1>2, <2>1, TextSees
<1>3. CASE ev.k = "reasoning"
  <2>1. R!One(s, ev) = R!CompleteReasoning(s, ev.item)
    BY <1>3 DEF R!One
  <2>2. /\ IsBlock(ev.item) /\ ev.item.kind = "reasoning" /\ ev.item.cites = <<>>
        /\ k.think # <<>> => ev.item.body = k.think[1].text
    BY <1>3 DEF Fit
  <2>3. k.think # <<>> => ev.item.body = k.think[1].text /\ ev.item.body # <<>>
    BY <2>2 DEF Musings
  <2>4. SameHeard(k, l) /\ l.think = <<>>
    BY <1>3 DEF SameHeard, Hear, Thought, Called
  <2> DEFINE x == ev.item
             w == R!One(s, ev)
  <2>5. w = R!CompleteReasoning(s, x)
    BY <2>1
  <2> HIDE DEF l, x, w
  <2>6. ReachesR(l, c, w) /\ Lasts(w, s.message, 0)
    BY <2>2, <2>3, <2>4, <2>5, CompletesReasoning DEF x
  <2> QED BY <2>6 DEF l, w
<1>4. CASE ev.k = "native_item"
  <2>1. R!One(s, ev) = R!Native(s, ev.item)
    BY <1>4 DEF R!One
  <2>2. IsBlock(ev.item) /\ ev.item.kind = "native"
    BY <1>4 DEF Fit
  <2>3. SameHeard(k, l) /\ l.think = <<>>
    BY <1>4 DEF SameHeard, Hear, Thought, Called
  <2> DEFINE x == ev.item
  <2> HIDE DEF l, x
  <2>4. ReachesR(l, c, R!Native(s, x))
    BY <2>2, <2>3, NativeSees DEF x
  <2> QED BY <2>1, <2>4 DEF l, x
<1>5. CASE ev.k = "native_block"
  <2>1. R!One(s, ev) = R!Err(s)
    BY <1>5 DEF R!One
  <2> QED BY <2>1, SeqFew DEF R!Err, ReachesR
<1>6. CASE ev.k = "call_start"
  <2>1. R!One(s, ev) = R!CallStart(s, ev)
    BY <1>6 DEF R!One
  <2> QED BY <1>6, <2>1, CallStartSees
<1>7. CASE ev.k = "call_args"
  <2>1. R!One(s, ev) = R!CallArgs(s, ev)
    BY <1>7 DEF R!One
  <2> QED BY <1>7, <2>1, CallArgsSees
<1>8. CASE ev.k = "call_end"
  <2>1. R!One(s, ev) = R!CallEnd(s, ev)
    BY <1>8 DEF R!One
  <2> QED BY <1>8, <2>1, CallEndSees
<1>9. CASE ev.k = "hosted"
  <2>1. R!One(s, ev) = R!Search(s, ev)
    BY <1>9 DEF R!One
  <2> QED BY <1>9, <2>1, SearchSees
<1>10. CASE ev.k \notin {"thinking", "reasoning", "native_item", "native_block", "text", "call_start",
                         "call_args", "call_end", "hosted"}
  <2>1. SameHeard(k, l) /\ l.think = k.think
    BY <1>10 DEF SameHeard, Hear, Thought, Called
  <2> HIDE DEF l
  <2>2. SeesR(s, l, c)
    BY <2>1, SeesSame
  <2>3. CASE ev.k = "cite"
    <3>1. R!One(s, ev) = R!Citation(s, ev)
      BY <2>3 DEF R!One
    <3> QED BY <2>2, <3>1, CitationSees DEF l
  <2>4. CASE ev.k = "finish"
    <3> DEFINE t == [s EXCEPT !.incomplete = ev.reason \in {"max_tokens", "refusal"}]
    <3>1. R!One(s, ev) = R!Ok(t, <<>>)
      BY <2>4 DEF R!One
    <3>2. SeesR(t, l, c)
      BY <2>2, SeesOther
    <3> HIDE DEF t
    <3> QED BY <3>1, <3>2, ReachesNone DEF l
  <2>5. CASE ev.k \notin {"cite", "finish"}
    <3>1. R!One(s, ev) = R!Ok(s, <<>>)
      BY <1>10, <2>5 DEF R!One
    <3> QED BY <2>2, <3>1, ReachesNone DEF l
  <2> QED BY <2>3, <2>4, <2>5
<1> QED BY <1>1, <1>2, <1>3, <1>4, <1>5, <1>6, <1>7, <1>8, <1>9, <1>10

-----------------------------------------------------------------------------
(* Of the events only a native block fails the encoder. *)
LEMMA NoneFails ==
  /\ \A s, out : R!Ok(s, out).err = FALSE
  /\ \A s, kind, pos, x : R!Event(s, kind, pos, x).err = FALSE
  /\ \A s, x, y : R!Add(s, x, y).err = FALSE
  /\ \A s, pos : R!Done(s, pos).err = FALSE
  /\ \A s, kind, pos, x : R!Extend(s, kind, pos, x).err = FALSE
  /\ \A r, w : r.err = FALSE /\ w.err = FALSE => R!Joined(r, w).err = FALSE
BY DEF R!Ok, R!Event, R!Add, R!Done, R!Extend, R!Joined

\* The operations that never fail.
LEMMA StagesFail ==
  ASSUME NEW s
  PROVE  /\ \A x : R!CompleteReasoning(s, x).err = FALSE
         /\ R!CompleteReasoningOpen(s).err = FALSE
         /\ \A id : R!EnsureReasoning(s, id).err = FALSE
         /\ R!EnsureMessage(s).err = FALSE
         /\ R!CompleteMessage(s).err = FALSE
<1>1. ASSUME NEW x PROVE R!CompleteReasoning(s, x).err = FALSE
  <2> DEFINE pos  == s.reasoning
             item == [x EXCEPT !.id = s.output[pos].id]
             kept == [s EXCEPT !.output[pos] = item]
             r1 == R!Event(kept, "text_done", pos, item.body)
             q1 == R!Joined(r1, R!Event(r1.s, "part_done", pos, item.body))
             q2 == IF s.part /\ item.body # <<>> THEN q1 ELSE R!Ok(kept, <<>>)
             q3 == R!Joined(q2, R!Done(q2.s, pos))
             q4 == R!Joined(q3, R!Ok([q3.s EXCEPT !.reasoning = 0, !.part = FALSE], <<>>))
             a1 == R!Add(s, x, x)
             a2 == R!Joined(a1, R!Done(a1.s, Len(a1.s.output)))
  <2>1. R!CompleteReasoning(s, x) = IF pos = 0 THEN a2 ELSE q4
    BY Zenon DEF R!CompleteReasoning, R!Then
  <2>2. a2.err = FALSE
    <3> HIDE DEF a1
    <3>1. a1.err = FALSE
      BY NoneFails DEF a1
    <3> QED BY <3>1, NoneFails
  <2>3. r1.err = FALSE
    BY NoneFails
  <2> HIDE DEF r1
  <2>4. q1.err = FALSE
    BY <2>3, NoneFails
  <2> HIDE DEF q1
  <2>5. q2.err = FALSE
    BY <2>4, NoneFails
  <2> HIDE DEF q2
  <2>6. q3.err = FALSE
    BY <2>5, NoneFails
  <2> HIDE DEF q3
  <2>7. q4.err = FALSE
    BY <2>6, NoneFails
  <2> HIDE DEF q4, a2
  <2> QED BY <2>1, <2>2, <2>7
<1>2. R!CompleteReasoningOpen(s).err = FALSE
  BY <1>1, NoneFails DEF R!CompleteReasoningOpen
<1>3. ASSUME NEW id PROVE R!EnsureReasoning(s, id).err = FALSE
  BY NoneFails DEF R!EnsureReasoning, R!Then
<1>4. R!EnsureMessage(s).err = FALSE
  BY NoneFails DEF R!EnsureMessage, R!Then
<1>5. R!CompleteMessage(s).err = FALSE
  <2> DEFINE pos  == s.message
             shut == [s EXCEPT !.message = 0, !.output[pos].st = "completed"]
             text == s.output[pos].body
             r1 == R!Event(shut, "text_done", pos, text)
             q1 == R!Joined(r1, R!Event(r1.s, "part_done", pos, text))
             q2 == R!Joined(q1, R!Done(q1.s, pos))
  <2>1. R!CompleteMessage(s) = IF pos = 0 THEN R!Ok(s, <<>>) ELSE q2
    BY Zenon DEF R!CompleteMessage, R!Then
  <2>2. r1.err = FALSE
    BY NoneFails
  <2> HIDE DEF r1
  <2>3. q1.err = FALSE
    BY <2>2, NoneFails
  <2> HIDE DEF q1
  <2>4. q2.err = FALSE
    BY <2>3, NoneFails
  <2> HIDE DEF q2
  <2> QED BY <2>1, <2>4, NoneFails
<1> QED BY <1>1, <1>2, <1>3, <1>4, <1>5

\* One event: it succeeds, or it is a native block that fails and sends nothing.
LEMMA OneFails ==
  ASSUME NEW s, NEW ev
  PROVE  R!One(s, ev).err = FALSE \/ (ev.k = "native_block" /\ R!One(s, ev) = R!Err(s))
<1>0. \A t : R!CloseOpenItems(t).err = FALSE
  BY StagesFail, NoneFails DEF R!CloseOpenItems, R!Then
<1>1. R!Thinking(s, ev).err = FALSE
  <2> DEFINE r1 == R!CompleteMessage(s)
             r2 == Other(r1.s, ev.item)
             q2 == R!Joined(r1, r2)
             r3 == R!EnsureReasoning(q2.s, ev.item)
             q3 == R!Joined(q2, r3)
             r4 == R!Extend(q3.s, "delta", q3.s.reasoning, ev.x)
  <2>1. R!Thinking(s, ev) = R!Joined(q3, r4)
    BY DEF R!Thinking, R!Then, Other
  <2>2. r1.err = FALSE
    BY StagesFail
  <2> HIDE DEF r1
  <2>3. r2.err = FALSE
    BY StagesFail, NoneFails DEF Other
  <2> HIDE DEF r2
  <2>4. q2.err = FALSE
    BY <2>2, <2>3, NoneFails
  <2> HIDE DEF q2
  <2>5. r3.err = FALSE
    BY StagesFail
  <2> HIDE DEF r3
  <2>6. q3.err = FALSE
    BY <2>4, <2>5, NoneFails
  <2> HIDE DEF q3
  <2>7. r4.err = FALSE
    BY NoneFails
  <2> HIDE DEF r4
  <2> QED BY <2>1, <2>6, <2>7, NoneFails
<1>2. R!Text(s, ev).err = FALSE
  BY StagesFail, NoneFails DEF R!Text, R!Then
<1>3. \A item : R!Native(s, item).err = FALSE
  BY <1>0, NoneFails DEF R!Native, R!Then
<1>4. R!CallStart(s, ev).err = FALSE
  <2> DEFINE item == R!Block("tool_use", ev.id, ev.args)
             r1 == R!CloseOpenItems(s)
             q1 == R!Joined(r1, R!Add(r1.s, item, item))
             q2 == R!Joined(q1, R!Ok([q1.s EXCEPT !.calls = R!With(@, ev.index, Len(q1.s.output))], <<>>))
  <2>1. R!CallStart(s, ev) = q2
    BY Zenon DEF R!CallStart, R!Then
  <2>2. r1.err = FALSE
    BY <1>0
  <2> HIDE DEF r1
  <2>3. q1.err = FALSE
    BY <2>2, NoneFails
  <2> HIDE DEF q1
  <2>4. q2.err = FALSE
    BY <2>3, NoneFails
  <2> QED BY <2>1, <2>4
<1>5. R!CallArgs(s, ev).err = FALSE /\ R!CallEnd(s, ev).err = FALSE /\ R!Citation(s, ev).err = FALSE
  <2>1. R!CallArgs(s, ev).err = FALSE
    BY NoneFails DEF R!CallArgs
  <2>2. R!CallEnd(s, ev).err = FALSE
    <3> DEFINE pos == s.calls[ev.index]
               end == [s EXCEPT !.output[pos].body = ev.args, !.output[pos].st = "completed"]
               r1  == R!Event(end, "args_done", pos, ev.args)
               q1  == R!Joined(r1, R!Done(r1.s, pos))
    <3>1. R!CallEnd(s, ev) = IF ev.index \notin DOMAIN s.calls THEN R!Ok(s, <<>>) ELSE q1
      BY Zenon DEF R!CallEnd, R!Then
    <3>2. r1.err = FALSE
      BY NoneFails
    <3> HIDE DEF r1
    <3>3. q1.err = FALSE
      BY <3>2, NoneFails
    <3> HIDE DEF q1
    <3> QED BY <3>1, <3>3, NoneFails
  <2>3. R!Citation(s, ev).err = FALSE
    <3> DEFINE pos == s.message
               q1  == R!Event([s EXCEPT !.output[pos].cites = Append(@, ev.x)], "cite", pos, ev.x)
    <3>1. R!Citation(s, ev) = q1 \/ R!Citation(s, ev) = R!Ok(s, <<>>)
      BY Zenon DEF R!Citation
    <3>2. q1.err = FALSE
      BY NoneFails
    <3> HIDE DEF q1
    <3> QED BY <3>1, <3>2, NoneFails
  <2> QED BY <2>1, <2>2, <2>3
<1>6. R!Search(s, ev).err = FALSE
  <2>1. ASSUME NEW t, NEW id PROVE Known(t, id).err = FALSE
    <3> DEFINE item == R!Block("search", id, <<>>)
               r1 == R!CloseOpenItems(t)
               q1 == R!Joined(r1, R!Add(r1.s, item, item))
               q2 == R!Joined(q1, R!Ok([q1.s EXCEPT !.searches = R!With(@, id, Len(q1.s.output))], <<>>))
    <3>1. Known(t, id) = IF id \in DOMAIN t.searches THEN R!Ok(t, <<>>) ELSE q2
      BY Zenon DEF Known, R!Then
    <3>2. r1.err = FALSE
      BY <1>0
    <3> HIDE DEF r1
    <3>3. q1.err = FALSE
      BY <3>2, NoneFails
    <3> HIDE DEF q1
    <3>4. q2.err = FALSE
      BY <3>3, NoneFails
    <3> HIDE DEF q2
    <3> QED BY <3>1, <3>4, NoneFails
  <2>2. ASSUME NEW t PROVE Phased(t, ev).err = FALSE
    <3> DEFINE pos    == t.searches[ev.id]
               status == IF ev.phase = "dropped" THEN "failed" ELSE ev.phase
               ended  == [t EXCEPT !.output[pos].st = status]
               r1     == IF ev.phase = "completed" THEN R!Event(ended, "searched", pos, <<>>) ELSE R!Ok(ended, <<>>)
               q1     == R!Joined(r1, R!Done(r1.s, pos))
               Goes   == CASE ev.phase = "started"   -> R!Ok(t, <<>>)
                           [] ev.phase = "searching" -> R!Event(t, "searching", pos, <<>>)
                           [] OTHER -> q1
    <3>1. Phased(t, ev) = Goes
      BY Zenon DEF Phased, R!Then
    <3>2. r1.err = FALSE
      BY NoneFails
    <3> HIDE DEF r1
    <3>3. q1.err = FALSE
      BY <3>2, NoneFails
    <3> HIDE DEF q1
    <3>4. Goes.err = FALSE
      BY <3>3, NoneFails
    <3> HIDE DEF Goes
    <3> QED BY <3>1, <3>4
  <2> QED BY <2>1, <2>2, NoneFails, SearchIs
<1>7. \A x : R!CompleteReasoning(s, x).err = FALSE
  BY StagesFail
<1> QED BY <1>1, <1>2, <1>3, <1>4, <1>5, <1>6, <1>7, NoneFails DEF R!One

-----------------------------------------------------------------------------
(***************************************************************************)
(* The body drives the encoder of its dialect over the events of one step. *)
(***************************************************************************)
Told(r) == Shows(client, r, TRUE)
StepD(r, ev) == Then(r, LAMBDA s : One(s, ev))
StepC(r, ev) == C!Then(r, LAMBDA s : C!One(s, ev))
StepR(r, ev) == R!Then(r, LAMBDA s : R!One(s, ev))
StepFold  == INSTANCE FoldFacts WITH Op <- StepD, P <- Told, Q <- EventOK
StepCFold == INSTANCE FoldFacts WITH Op <- StepC, P <- Anything, Q <- Anything
StepRFold == INSTANCE FoldFacts WITH Op <- StepR, P <- Anything, Q <- Anything

\* The body's Encode is the fold of StepD.
LEMMA EncodeIs == \A s, out : StepFold!Fold(Ok(s, <<>>), out) = Encode(s, out, One)
<1>1. \A s, out : StepFold!Fold(Ok(s, <<>>), out) = InTurn(StepD, Ok(s, <<>>), out)
  BY DEF InTurn, StepFold!Fold, MapThenFoldSet, StepFold!MapThenFoldSet, StepFold!Max
<1>2. \A s, out : InTurn(StepD, Ok(s, <<>>), out) = Encode(s, out, One)
  BY DEF StepD, Encode
<1> QED BY <1>1, <1>2

\* A client of Messages stands where the encoder's frames put it.
LEMMA EncodeTold ==
  ASSUME dialect = "messages", Good(enc, client), NEW out, AllOK(out)
  PROVE  Told(Encode(enc, out, One))
<1>1. ASSUME NEW a, NEW e, Told(a), EventOK(e) PROVE Told(StepD(a, e))
  <2>1. StepD(a, e) = Joined(a, One(a.s, e))
    BY DEF StepD, Then
  <2>2. Joined(a, One(a.s, e)) = M!Joined(a, M!One(a.s, e))
    BY DEF One, Joined, M!Joined
  <2> QED BY <1>1, <2>1, <2>2, StepShows DEF Told
<1>2. \A b, T : \A s \in Seq(T) : Told(b) /\ (\A e \in T : EventOK(e)) => Told(StepFold!Fold(b, s))
  BY <1>1, StepFold!FoldKeeps, SetInduction DEF StepFold!Induction
<1>3. Told(Ok(enc, <<>>))
  <2>1. Ok(enc, <<>>) = M!Ok(enc, <<>>)
    BY DEF Ok, M!Ok
  <2> QED BY <2>1, ShowsSame DEF Told
<1>4. out \in Seq(Elements(out)) /\ \A e \in Elements(out) : EventOK(e)
  BY SeqIn DEF AllOK, Elements
<1>5. Told(StepFold!Fold(Ok(enc, <<>>), out))
  BY <1>2, <1>3, <1>4
<1> QED BY <1>5, EncodeIs

\* A client that is not one of Messages and what it has been told.
SeesX(s, k, c) == IF dialect = "chat" THEN SeesC(s, k, c) ELSE SeesR(s, k, c)
ReachesX(k, c, r) == IsSeq(r.out) /\ (~r.err => SeesX(r.s, k, Accept(dialect, c, r.out)))

\* Any event that fits what was heard, for either dialect.
LEMMA OneX ==
  ASSUME dialect \in {"responses", "chat"}, NEW s, NEW k, NEW c, SeesX(s, k, c), Musings(k), NEW ev, Fit(k, ev)
  PROVE  ReachesX(Hear(k, ev), c, One(s, ev))
<1>1. CASE dialect = "chat"
  <2>1. ReachesC(Hear(k, ev), c, C!One(s, ev))
    BY <1>1, ChatOne DEF SeesX
  <2>2. One(s, ev) = C!One(s, ev)
    BY <1>1 DEF One
  <2> QED BY <1>1, <2>1, <2>2 DEF ReachesC, ReachesX, SeesX
<1>2. CASE dialect = "responses"
  <2>1. ReachesR(Hear(k, ev), c, R!One(s, ev))
    BY <1>2, ResponsesOne DEF SeesX
  <2>2. One(s, ev) = R!One(s, ev)
    BY <1>2 DEF One
  <2> QED BY <1>2, <2>1, <2>2 DEF ReachesR, ReachesX, SeesX
<1> QED BY <1>1, <1>2

\* One event after another, for either dialect.
LEMMA JoinedX ==
  ASSUME NEW c, NEW r, NEW l, ReachesX(l, c, r), NEW w, NEW k,
         \A d : SeesX(r.s, l, d) => ReachesX(k, d, w)
  PROVE  ReachesX(k, c, Joined(r, w))
<1> DEFINE d == Accept(dialect, c, r.out)
           j == Joined(r, w)
<1>1. CASE r.err
  BY <1>1 DEF ReachesX, Joined
<1>2. CASE ~r.err
  <2>1. SeesX(r.s, l, d) /\ IsSeq(r.out)
    BY <1>2 DEF ReachesX
  <2>2. ReachesX(k, d, w)
    BY <2>1
  <2>3. IsSeq(w.out) /\ (~w.err => SeesX(w.s, k, Accept(dialect, d, w.out)))
    BY <2>2 DEF ReachesX
  <2>4. j.s = w.s /\ j.err = w.err /\ j.out = IF w.err THEN <<>> ELSE r.out \o w.out
    BY <1>2 DEF Joined
  <2>5. IsSeq(j.out)
    BY <2>1, <2>3, <2>4, SeqJoin, SeqFew
  <2>6. ~w.err => Accept(dialect, c, j.out) = Accept(dialect, d, w.out)
    BY <2>1, <2>3, <2>4, AcceptAt
  <2> HIDE DEF j
  <2> QED BY <2>3, <2>4, <2>5, <2>6 DEF ReachesX, j
<1> QED BY <1>1, <1>2

-----------------------------------------------------------------------------
\* All events of one step are heard.
HearAll(k, out) == InTurn(Hear, k, out)
HearFold == INSTANCE FoldFacts WITH Op <- Hear, P <- Anything, Q <- Anything

\* The fold of FoldFacts over what is heard is the models' InTurn.
LEMMA HearFoldIs == \A k, out : HearFold!Fold(k, out) = HearAll(k, out)
BY DEF InTurn, HearFold!Fold, MapThenFoldSet, HearFold!MapThenFoldSet, HearFold!Max, HearAll

\* Events heard one after another.
LEMMA HearAt ==
  /\ \A k : HearAll(k, <<>>) = k
  /\ \A k, ev : HearAll(k, <<ev>>) = Hear(k, ev)
  /\ \A k, a, b : IsSeq(a) /\ IsSeq(b) => HearAll(k, a \o b) = HearAll(HearAll(k, a), b)
<1>1. \A k : HearAll(k, <<>>) = k
  BY HearFoldIs, HearFold!FoldEmpty, SetInduction DEF HearFold!Induction
<1>2. \A k, ev : HearAll(k, <<ev>>) = Hear(k, ev)
  BY HearFoldIs, HearFold!FoldOne, SetInduction DEF HearFold!Induction
<1>3. ASSUME NEW k, NEW a, NEW b, IsSeq(a), IsSeq(b)
      PROVE HearAll(k, a \o b) = HearAll(HearAll(k, a), b)
  <2>1. PICK T : a \in Seq(T) /\ b \in Seq(T)
    BY <1>3, SeqJoin
  <2> QED BY <2>1, HearFoldIs, HearFold!FoldConcat, SetInduction DEF HearFold!Induction
<1> QED BY <1>1, <1>2, <1>3

\* The states of what is heard, event by event.
HearPath(g, k, out) ==
  g[0] = k /\ (\A n \in Nat : n + 1 <= Len(out) => g[n + 1] = Hear(g[n], out[n + 1])) /\ g[Len(out)] = HearAll(k, out)

\* What is heard of a sequence of events, event by event, exists.
LEMMA HearGoes == ASSUME NEW k, NEW out, IsSeq(out) PROVE \E g : HearPath(g, k, out)
<1>1. out \in Seq(Elements(out))
  BY SeqIn
<1>2. PICK g : HearFold!IsPath(g, k, out) /\ HearFold!Fold(k, out) = g[Len(out)]
  BY <1>1, HearFold!FoldPath, SetInduction DEF HearFold!Induction
<1>3. HearPath(g, k, out)
  BY <1>2, HearFoldIs DEF HearFold!IsPath, HearPath
<1> QED BY <1>3

\* What did not fit once is not made good.
LEMMA HearFine ==
  ASSUME NEW k, NEW out, IsSeq(out), HearAll(k, out).ok = "yes"
  PROVE  k.ok = "yes"
<1>1. PICK g : HearPath(g, k, out)
  BY HearGoes
<1>2. Len(out) \in Nat
  BY DEF IsSeq
<1> DEFINE S == {n \in Nat : n <= Len(out) /\ g[n].ok = "yes" => k.ok = "yes"}
<1>3. 0 \in S
  BY <1>1 DEF HearPath
<1>4. ASSUME NEW n \in Nat, n \in S PROVE n + 1 \in S
  <2> SUFFICES ASSUME n + 1 <= Len(out), g[n + 1].ok = "yes" PROVE k.ok = "yes"
    OBVIOUS
  <2>1. g[n + 1] = Hear(g[n], out[n + 1])
    BY <1>1 DEF HearPath
  <2>2. g[n].ok = "yes"
    BY <2>1 DEF Hear
  <2>3. n <= Len(out)
    BY <1>2
  <2> QED BY <1>4, <2>2, <2>3
<1>5. Nat \subseteq S
  <2> HIDE DEF S
  <2> QED BY <1>3, <1>4, SetInduction
<1> QED BY <1>1, <1>2, <1>5 DEF HearPath

-----------------------------------------------------------------------------
\* The encoder's outcomes, event by event.
EncPath(g, s, out) ==
  /\ g[0] = Ok(s, <<>>)
  /\ \A n \in Nat : n + 1 <= Len(out) => g[n + 1] = Joined(g[n], One(g[n].s, out[n + 1]))
  /\ g[Len(out)] = Encode(s, out, One)

\* An encoder's outcomes on a sequence of events, event by event, exist.
LEMMA EncGoes == ASSUME NEW s, NEW out, IsSeq(out) PROVE \E g : EncPath(g, s, out)
<1>1. out \in Seq(Elements(out))
  BY SeqIn
<1>2. PICK g : StepFold!IsPath(g, Ok(s, <<>>), out) /\ StepFold!Fold(Ok(s, <<>>), out) = g[Len(out)]
  BY <1>1, StepFold!FoldPath, SetInduction DEF StepFold!Induction
<1>3. \A r, ev : StepD(r, ev) = Joined(r, One(r.s, ev))
  BY DEF StepD, Then
<1>4. EncPath(g, s, out)
  BY <1>2, <1>3, EncodeIs DEF StepFold!IsPath, EncPath
<1> QED BY <1>4

\* The events of one step, told to the client.
LEMMA EncodeReaches ==
  ASSUME dialect \in {"responses", "chat"}, NEW s, NEW k, NEW c, SeesX(s, k, c), Musings(k),
         NEW out, IsSeq(out), HearAll(k, out).ok = "yes"
  PROVE  ReachesX(HearAll(k, out), c, Encode(s, out, One)) /\ Musings(HearAll(k, out))
<1>1. PICK f : HearPath(f, k, out)
  BY HearGoes
<1>2. PICK g : EncPath(g, s, out)
  BY EncGoes
<1>3. Len(out) \in Nat
  BY DEF IsSeq
<1> DEFINE SoFar(n) == ReachesX(f[n], c, g[n]) /\ Musings(f[n])
           S == {n \in Nat : n <= Len(out) /\ f[n].ok = "yes" => SoFar(n)}
<1>4. 0 \in S
  <2>1. Accept(dialect, c, <<>>) = c
    BY AcceptAt
  <2>2. f[0] = k /\ g[0] = Ok(s, <<>>)
    BY <1>1, <1>2 DEF HearPath, EncPath
  <2>3. ReachesX(k, c, Ok(s, <<>>))
    BY <2>1, SeqFew DEF ReachesX, Ok
  <2> QED BY <2>2, <2>3
<1>5. ASSUME NEW n \in Nat, n \in S PROVE n + 1 \in S
  <2> SUFFICES ASSUME n + 1 <= Len(out), f[n + 1].ok = "yes" PROVE SoFar(n + 1)
    OBVIOUS
  <2> DEFINE ev == out[n + 1]
             j == f[n]
             r == g[n]
  <2>1. f[n + 1] = Hear(j, ev) /\ g[n + 1] = Joined(r, One(r.s, ev))
    BY <1>1, <1>2 DEF HearPath, EncPath
  <2>2. j.ok = "yes" /\ Fit(j, ev)
    BY <2>1 DEF Hear
  <2>3. n <= Len(out)
    BY <1>3
  <2>4. ReachesX(j, c, r) /\ Musings(j)
    BY <1>5, <2>2, <2>3
  <2> DEFINE w == One(r.s, ev)
             l == Hear(j, ev)
  <2> HIDE DEF ev, j, r
  <2>5. \A d : SeesX(r.s, j, d) => ReachesX(l, d, w)
    BY <2>2, <2>4, OneX
  <2>6. Musings(l)
    BY <2>2, <2>4, MusingsKept
  <2> HIDE DEF w, l
  <2>7. ReachesX(l, c, Joined(r, w))
    BY <2>4, <2>5, JoinedX
  <2> QED BY <2>1, <2>6, <2>7 DEF w, l
<1>6. Nat \subseteq S
  <2> HIDE DEF S
  <2> QED BY <1>4, <1>5, SetInduction
<1>7. SoFar(Len(out))
  BY <1>1, <1>3, <1>6 DEF HearPath
<1> QED BY <1>1, <1>2, <1>7 DEF HearPath, EncPath

-----------------------------------------------------------------------------
\* An outcome that a native block fails comes alone.
Neat(out) == \A i \in 1..Len(out) : out[i].k = "native_block" => Len(out) = 1
\* Nothing an encoder refuses.
Tame(out) == \A i \in 1..Len(out) : out[i].k \notin {"native_item", "native_block"}

\* An event that no encoder refuses does not fail.
LEMMA OneTame ==
  ASSUME dialect \in {"responses", "chat"}, NEW s, NEW ev, ev.k \notin {"native_item", "native_block"}
  PROVE  One(s, ev).err = FALSE
<1>1. CASE dialect = "chat"
  <2>1. One(s, ev) = C!One(s, ev)
    BY <1>1 DEF One
  <2>2. \A t, x : C!Ok(t, x).err = FALSE
    BY DEF C!Ok
  <2>3. C!CallStart(s, ev).err = FALSE /\ C!Citation(s, ev).err = FALSE
    BY <2>2 DEF C!CallStart, C!Citation
  <2> QED BY <2>1, <2>2, <2>3 DEF C!One
<1>2. CASE dialect = "responses"
  <2>1. One(s, ev) = R!One(s, ev)
    BY <1>2 DEF One
  <2> QED BY <2>1, OneFails
<1> QED BY <1>1, <1>2

\* Events an encoder does not refuse never fail it.
LEMMA TameEncodes ==
  ASSUME dialect \in {"responses", "chat"}, NEW s, NEW out, IsSeq(out),
         \A i \in 1..Len(out) : \A t : One(t, out[i]).err = FALSE
  PROVE  Encode(s, out, One).err = FALSE
<1>1. PICK g : EncPath(g, s, out)
  BY EncGoes
<1>2. Len(out) \in Nat
  BY DEF IsSeq
<1> DEFINE Sound(n) == g[n].err = FALSE
           S == {n \in Nat : n <= Len(out) => Sound(n)}
<1>3. Sound(0)
  BY <1>1 DEF EncPath, Ok
<1>4. ASSUME NEW n \in Nat, Sound(n), n + 1 <= Len(out) PROVE Sound(n + 1)
  <2>1. g[n + 1] = Joined(g[n], One(g[n].s, out[n + 1]))
    BY <1>1, <1>4 DEF EncPath
  <2>2. n + 1 \in 1..Len(out)
    BY <1>2, <1>4
  <2>3. One(g[n].s, out[n + 1]).err = FALSE
    BY <2>2
  <2> QED BY <1>4, <2>1, <2>3 DEF Joined
<1> HIDE DEF Sound
<1>5. 0 \in S /\ \A n \in Nat : n \in S => n + 1 \in S
  BY <1>2, <1>3, <1>4
<1>6. Nat \subseteq S
  <2> HIDE DEF S
  <2> QED BY <1>5, SetInduction
<1>7. Sound(Len(out))
  BY <1>2, <1>6
<1> QED BY <1>1, <1>7 DEF EncPath, Sound

\* A Responses encoder that fails is left as it was.
LEMMA EncodeFails ==
  ASSUME dialect = "responses", NEW s, NEW out, IsSeq(out), Neat(out), Encode(s, out, One).err
  PROVE  Encode(s, out, One).s = s
<1>1. CASE \E i \in 1..Len(out) : out[i].k = "native_block"
  <2>1. Len(out) = 1 /\ out[1].k = "native_block"
    BY <1>1 DEF Neat
  <2>2. PICK g : EncPath(g, s, out)
    BY EncGoes
  <2>3. g[0 + 1] = Joined(g[0], One(g[0].s, out[0 + 1])) /\ g[0] = Ok(s, <<>>)
    BY <2>1, <2>2 DEF EncPath
  <2>4. g[1] = Joined(g[0], One(g[0].s, out[1]))
    BY <2>3
  <2>5. g[0].s = s /\ g[0].err = FALSE
    BY <2>3 DEF Ok
  <2>6. One(s, out[1]) = R!Err(s)
    BY <2>1 DEF One, R!One
  <2>7. R!Err(s).s = s
    BY DEF R!Err
  <2>8. g[1].s = s
    BY <2>4, <2>5, <2>6, <2>7 DEF Joined
  <2> QED BY <2>1, <2>2, <2>8 DEF EncPath
<1>2. CASE ~ \E i \in 1..Len(out) : out[i].k = "native_block"
  <2>1. \A i \in 1..Len(out) : \A t : One(t, out[i]).err = FALSE
    BY <1>2, OneFails DEF One
  <2> QED BY <2>1, TameEncodes
<1> QED BY <1>1, <1>2

\* A failure is the last a client is told of.
LEMMA ErrorSeen ==
  ASSUME dialect \in {"responses", "chat"}, NEW s, NEW k, NEW c, SeesX(s, k, c), NEW t, dialect = "responses" => t = s
  PROVE  Accept(dialect, c, ErrorFrame(t).out \o Sentinel).phase = "failed"
<1>1. CASE dialect = "responses"
  <2> DEFINE fr == [f |-> "error", seq |-> [s EXCEPT !.terminal = TRUE].seq, pos |-> 0, x |-> <<>>]
             next == [c EXCEPT !.seq = @ + 1]
  <2>1. ErrorFrame(t).out \o Sentinel = <<fr>>
    BY <1>1 DEF ErrorFrame, Sentinel, R!Error, R!Event, R!Ok
  <2>2. IsResp(s) /\ IsClient(c) /\ c.phase = "open" /\ c.seq = s.seq
    BY <1>1 DEF SeesX, SeesR, Meets, Holding
  <2>3. fr.f = "error" /\ fr.seq = c.seq
    BY <2>2 DEF IsResp, RespFields
  <2> HIDE DEF fr
  <2>4. ResponsesAccept(c, fr) = Into(next, "failed")
    BY <2>2, <2>3 DEF ResponsesAccept
  <2>5. IsClient(next)
    BY <2>2 DEF IsClient, ClientFields
  <2> HIDE DEF next
  <2>6. Into(next, "failed").phase = "failed"
    BY <2>5 DEF Into, IsClient, ClientFields
  <2>7. Accept(dialect, c, <<fr>>) = ResponsesAccept(c, fr)
    BY <1>1, AcceptAt DEF Take
  <2> QED BY <2>1, <2>4, <2>6, <2>7
<1>2. CASE dialect = "chat"
  <2> DEFINE f1 == [f |-> "error"]
             f2 == [f |-> "[DONE]"]
             a == Into(c, "failing")
             e == Into(a, "failed")
  <2>1. ErrorFrame(t).out \o Sentinel = <<f1>> \o <<f2>>
    BY <1>2 DEF ErrorFrame, Sentinel, Ok
  <2>2. IsClient(c) /\ c.phase = "open"
    BY <1>2 DEF SeesX, SeesC, Clear
  <2>3. ChatAccept(c, f1) = a
    BY <2>2 DEF ChatAccept
  <2>4. IsClient(a) /\ a.phase = "failing"
    BY <2>2 DEF Into, IsClient, ClientFields
  <2> HIDE DEF a
  <2>5. ChatAccept(a, f2) = e
    BY <2>4 DEF ChatAccept
  <2>6. e.phase = "failed"
    BY <2>4 DEF Into, IsClient, ClientFields
  <2> HIDE DEF e
  <2>7. IsSeq(<<f1>>) /\ IsSeq(<<f2>>)
    BY SeqFew
  <2>8. Accept(dialect, c, <<f1>>) = a /\ Accept(dialect, a, <<f2>>) = e
    BY <1>2, <2>3, <2>5, AcceptAt DEF Take
  <2> HIDE DEF f1, f2
  <2>9. Accept(dialect, c, <<f1>> \o <<f2>>) = e
    BY <2>7, <2>8, AcceptAt
  <2> QED BY <2>1, <2>6, <2>9
<1> QED BY <1>1, <1>2

-----------------------------------------------------------------------------
\* The encoders drive the events as the body does.
LEMMA EncodesC ==
  ASSUME dialect = "chat", NEW s, NEW out, IsSeq(out)
  PROVE  C!Encode(s, out, C!One) = Encode(s, out, One)
<1>1. out \in Seq(Elements(out)) /\ Len(out) \in Nat
  BY SeqIn DEF IsSeq
<1>2. PICK g : EncPath(g, s, out)
  BY EncGoes
<1>3. PICK h : StepCFold!IsPath(h, C!Ok(s, <<>>), out) /\ StepCFold!Fold(C!Ok(s, <<>>), out) = h[Len(out)]
  BY <1>1, StepCFold!FoldPath, SetInduction DEF StepCFold!Induction
<1>4. StepCFold!Fold(C!Ok(s, <<>>), out) = C!InTurn(StepC, C!Ok(s, <<>>), out)
  BY DEF C!InTurn, StepCFold!Fold, C!MapThenFoldSet, StepCFold!MapThenFoldSet, StepCFold!Max
<1>5. C!InTurn(StepC, C!Ok(s, <<>>), out) = C!Encode(s, out, C!One)
  BY DEF StepC, C!Encode
<1>6. \A r, ev : StepC(r, ev) = Joined(r, One(r.s, ev))
  BY DEF StepC, C!Then, C!Joined, Joined, One
<1>7. h[0] = Ok(s, <<>>) /\ \A n \in Nat : n + 1 <= Len(out) => h[n + 1] = Joined(h[n], One(h[n].s, out[n + 1]))
  BY <1>3, <1>6 DEF StepCFold!IsPath, C!Ok, Ok
<1> DEFINE Same(n) == h[n] = g[n]
           S == {n \in Nat : n <= Len(out) => Same(n)}
<1>8. Same(0)
  BY <1>2, <1>7 DEF EncPath
<1>9. ASSUME NEW n \in Nat, Same(n), n + 1 <= Len(out) PROVE Same(n + 1)
  BY <1>2, <1>7, <1>9 DEF EncPath
<1> HIDE DEF Same
<1>10. 0 \in S /\ \A n \in Nat : n \in S => n + 1 \in S
  BY <1>1, <1>8, <1>9
<1>11. Nat \subseteq S
  <2> HIDE DEF S
  <2> QED BY <1>10, SetInduction
<1>12. Same(Len(out))
  BY <1>1, <1>11
<1> QED BY <1>2, <1>3, <1>4, <1>5, <1>12 DEF EncPath, Same

\* The fold the Responses encoder is driven by is the body's.
LEMMA EncodesR ==
  ASSUME dialect = "responses", NEW s, NEW out, IsSeq(out)
  PROVE  R!Encode(s, out, R!One) = Encode(s, out, One)
<1>1. out \in Seq(Elements(out)) /\ Len(out) \in Nat
  BY SeqIn DEF IsSeq
<1>2. PICK g : EncPath(g, s, out)
  BY EncGoes
<1>3. PICK h : StepRFold!IsPath(h, R!Ok(s, <<>>), out) /\ StepRFold!Fold(R!Ok(s, <<>>), out) = h[Len(out)]
  BY <1>1, StepRFold!FoldPath, SetInduction DEF StepRFold!Induction
<1>4. StepRFold!Fold(R!Ok(s, <<>>), out) = R!InTurn(StepR, R!Ok(s, <<>>), out)
  BY DEF R!InTurn, StepRFold!Fold, R!MapThenFoldSet, StepRFold!MapThenFoldSet, StepRFold!Max
<1>5. R!InTurn(StepR, R!Ok(s, <<>>), out) = R!Encode(s, out, R!One)
  BY DEF StepR, R!Encode
<1>6. \A r, ev : StepR(r, ev) = Joined(r, One(r.s, ev))
  <2> TAKE r, ev
  <2>1. StepR(r, ev) = R!Joined(r, R!One(r.s, ev))
    BY Zenon DEF StepR, R!Then
  <2>2. One(r.s, ev) = R!One(r.s, ev)
    BY Zenon DEF One
  <2>3. \A w : R!Joined(r, w) = Joined(r, w)
    BY Zenon DEF R!Joined, Joined
  <2> QED BY <2>1, <2>2, <2>3, Zenon
<1>7. h[0] = Ok(s, <<>>) /\ \A n \in Nat : n + 1 <= Len(out) => h[n + 1] = Joined(h[n], One(h[n].s, out[n + 1]))
  BY <1>3, <1>6 DEF StepRFold!IsPath, R!Ok, Ok
<1> DEFINE Same(n) == h[n] = g[n]
           S == {n \in Nat : n <= Len(out) => Same(n)}
<1>8. Same(0)
  BY <1>2, <1>7 DEF EncPath
<1>9. ASSUME NEW n \in Nat, Same(n), n + 1 <= Len(out) PROVE Same(n + 1)
  BY <1>2, <1>7, <1>9 DEF EncPath
<1> HIDE DEF Same
<1>10. 0 \in S /\ \A n \in Nat : n \in S => n + 1 \in S
  BY <1>1, <1>8, <1>9
<1>11. Nat \subseteq S
  <2> HIDE DEF S
  <2> QED BY <1>10, SetInduction
<1>12. Same(Len(out))
  BY <1>1, <1>11
<1> QED BY <1>2, <1>3, <1>4, <1>5, <1>12 DEF EncPath, Same

\* The answer an encoder keeps.
Answer(s) == IF dialect = "chat" THEN C!Result(s) ELSE R!Result(s)
Answered(d, s) == d.phase = "over" /\ d.blocks = Answer(s) /\ d.final = Answer(s)

\* Chat: the finish reason, the usage and the sentinel close the answer.
LEMMA EndsChat ==
  ASSUME dialect = "chat", NEW s, NEW k, NEW c, SeesC(s, k, c), k.call = <<>>, NEW used, NEW reason,
         NEW out, out = <<[f |-> "finish", reason |-> reason]>> \o IF used THEN <<[f |-> "usage"]>> ELSE <<>>
  PROVE  IsSeq(out) /\ Answered(Accept(dialect, c, out \o Sentinel), s)
<1> DEFINE f1 == [f |-> "finish", reason |-> reason]
           f2 == [f |-> "usage"]
           f3 == [f |-> "[DONE]"]
           u == IF used THEN <<f2>> ELSE <<>>
           a == Into(c, "reason")
           b == IF used THEN [a EXCEPT !.open = TRUE] ELSE a
           d == [Into(b, "over") EXCEPT !.final = b.blocks]
<1>1. IsClient(c) /\ c.phase = "open" /\ c.open = FALSE
  BY DEF SeesC, Clear
<1>2. IsClient(a) /\ a.phase = "reason" /\ a.open = FALSE /\ a.blocks = c.blocks
  BY <1>1 DEF Into, IsClient, ClientFields
<1>3. ChatAccept(c, f1) = a
  BY <1>1 DEF ChatAccept
<1> HIDE DEF a
<1>4. IsClient(b) /\ b.phase = "reason" /\ b.blocks = c.blocks
  BY <1>2 DEF IsClient, ClientFields
<1>5. used => ChatAccept(a, f2) = b
  BY <1>2 DEF ChatAccept
<1> HIDE DEF b
<1>6. ChatAccept(b, f3) = d
  BY <1>4 DEF ChatAccept
<1>7. d.phase = "over" /\ d.blocks = c.blocks /\ d.final = c.blocks
  BY <1>4 DEF Into, IsClient, ClientFields
<1> HIDE DEF d
<1>8. Sentinel = <<f3>>
  BY DEF Sentinel
<1> HIDE DEF f1, f2, f3
<1>9. IsSeq(<<f1>>) /\ IsSeq(u) /\ IsSeq(<<f3>>) /\ out = <<f1>> \o u
  BY SeqFew DEF f1, f2
<1>10. Accept(dialect, c, <<f1>>) = a /\ Accept(dialect, b, <<f3>>) = d
  BY <1>3, <1>6, AcceptAt DEF Take
<1>11. Accept(dialect, a, u) = b
  <2>1. CASE used
    BY <1>5, <2>1, AcceptAt DEF Take
  <2>2. CASE ~used
    BY <2>2, AcceptAt DEF b
  <2> QED BY <2>1, <2>2
<1> HIDE DEF u
<1>12. IsSeq(out) /\ Accept(dialect, c, out) = b
  <2>1. IsSeq(<<f1>> \o u)
    BY <1>9, SeqJoin
  <2>2. Accept(dialect, c, <<f1>> \o u) = Accept(dialect, Accept(dialect, c, <<f1>>), u)
    BY <1>9, AcceptAt
  <2> QED BY <1>9, <1>10, <1>11, <2>1, <2>2
<1>13. Accept(dialect, c, out \o <<f3>>) = d
  BY <1>9, <1>10, <1>12, AcceptAt
<1>14. c.blocks = C!Result(s)
  <2>1. Pending(k) = <<>>
    BY DEF Pending
  <2>2. Holds(c.blocks, Words(s), Musing(s), s.calls, <<>>)
    BY <2>1 DEF SeesC
  <2>3. c.blocks = <<Words(s), Musing(s)>> \o s.calls
    <3> DEFINE x == Words(s)
               y == Musing(s)
               z == c.blocks
               v == s.calls
    <3>1. Holds(z, x, y, v, <<>>)
      BY <2>2
    <3> HIDE DEF x, y, z, v
    <3>2. z = <<x, y>> \o v
      BY <3>1, HoldsMore
    <3> QED BY <3>2 DEF x, y, z, v
  <2>4. Words(s) = [C!Block("text", 0, s.content) EXCEPT !.cites = s.cites] /\ Musing(s) = C!Block("reasoning", 0, s.reasoning)
    BY DEF Words, Musing, Block, C!Block
  <2> QED BY <2>3, <2>4 DEF C!Result
<1> QED BY <1>7, <1>8, <1>12, <1>13, <1>14 DEF Answered, Answer

\* Responses: every item is done or is a search, and the answer closes.
LEMMA EndsResponses ==
  ASSUME dialect = "responses", NEW s, NEW k, NEW c, SeesR(s, k, c), k.call = <<>>, s.message = 0, s.reasoning = 0,
         NEW kind, kind \in {"completed", "incomplete"}
  PROVE  LET w == R!Event([s EXCEPT !.terminal = TRUE], kind, 0, s.output)
         IN  /\ w.err = FALSE /\ IsSeq(w.out) /\ w.s.output = s.output
             /\ Answered(Accept(dialect, c, w.out \o Sentinel), w.s)
<1> DEFINE t == [s EXCEPT !.terminal = TRUE]
           w == R!Event(t, kind, 0, s.output)
           fr == [f |-> kind, seq |-> t.seq, pos |-> 0, x |-> s.output]
           next == [c EXCEPT !.seq = @ + 1]
           d == [Into(next, "over") EXCEPT !.final = s.output]
<1>1. /\ IsResp(s) /\ IsClient(c) /\ c.phase = "open" /\ c.seq = s.seq /\ c.blocks = s.output
      /\ RS(s.output, c.stage, s.message, s.reasoning, s.calls, s.searches, k.think, k.call, k.phase)
      /\ IsSeq(s.output) /\ IsSeq(c.stage) /\ Len(c.stage) = Len(s.output)
  BY DEF SeesR, Meets, Holding, RS, Items
<1>2. IsResp(t) /\ t.seq = s.seq /\ t.output = s.output
  BY <1>1 DEF IsResp, RespFields
<1> HIDE DEF t
<1>3. w.err = FALSE /\ w.out = <<fr>> /\ w.s.output = s.output
  BY <1>2 DEF R!Event, R!Ok, IsResp, RespFields
<1>4. fr.f = kind /\ fr.seq = s.seq /\ fr.x = s.output
  BY <1>2
<1> HIDE DEF w, fr
<1>5. \A j \in DOMAIN c.stage : c.stage[j] = "done" \/ c.blocks[j].kind = "search"
  <2>1. DOMAIN c.stage = 1..Len(c.stage)
    <3>1. c.stage \in Seq(Elements(c.stage))
      BY <1>1, SeqIn
    <3> QED BY <3>1
  <2>2. \A j \in 1..Len(s.output) : c.stage[j] = "done" \/ s.output[j].kind = "search"
    BY <1>1 DEF RS, Rest
  <2> QED BY <1>1, <2>1, <2>2
<1>6. ResponsesAccept(c, fr) = d
  <2> HIDE DEF d
  <2> QED BY <1>1, <1>4, <1>5 DEF ResponsesAccept, d
<1>7. IsClient(next) /\ next.blocks = s.output
  BY <1>1 DEF IsClient, ClientFields
<1> HIDE DEF next
<1>8. d.phase = "over" /\ d.blocks = s.output /\ d.final = s.output
  BY <1>7 DEF Into, IsClient, ClientFields
<1> HIDE DEF d
<1>9. Accept(dialect, c, <<fr>>) = d
  BY <1>6, AcceptAt DEF Take
<1>10. w.out \o Sentinel = <<fr>> /\ IsSeq(w.out)
  BY <1>3, SeqFew DEF Sentinel
<1> QED BY <1>3, <1>8, <1>9, <1>10 DEF Answered, Answer, R!Result, w, t

-----------------------------------------------------------------------------
\* Three sequences joined, grouped either way.
LEMMA SeqAssoc ==
  ASSUME NEW a, NEW b, NEW c, IsSeq(a), IsSeq(b), IsSeq(c)
  PROVE  (a \o b) \o c = a \o (b \o c)
<1> DEFINE T == Elements(a) \cup Elements(b) \cup Elements(c)
<1>1. a \in Seq(T) /\ b \in Seq(T) /\ c \in Seq(T)
  BY SeqIn
<1> HIDE DEF T
<1> QED BY <1>1

\* A drained decoder's events close the answer.
LEMMA FinishSeen ==
  ASSUME dialect \in {"responses", "chat"}, NEW s, NEW k, NEW c, SeesX(s, k, c), Musings(k),
         NEW x, IsSeq(x), Tame(x), HearAll(k, x).ok = "yes", HearAll(k, x).call = <<>>
  PROVE  LET r == Finish(s, x)
         IN  r.err = FALSE /\ Answered(Accept(dialect, c, r.out \o Sentinel), r.s)
<1> DEFINE l == HearAll(k, x)
           q == Encode(s, x, One)
           a == Accept(dialect, c, q.out)
<1>1. q.err = FALSE
  BY OneTame, TameEncodes DEF Tame
<1>2. IsSeq(q.out) /\ SeesX(q.s, l, a) /\ Musings(l)
  <2>1. ReachesX(l, c, q) /\ Musings(l)
    BY EncodeReaches
  <2> HIDE DEF l, q
  <2> QED BY <1>1, <2>1 DEF ReachesX
<1>3. l.call = <<>>
  OBVIOUS
<1>4. CASE dialect = "chat"
  <2> DEFINE w == C!Ok(q.s, <<[f |-> "finish", reason |-> C!Stop(q.s)]>> \o IF q.s.usage THEN <<[f |-> "usage"]>> ELSE <<>>)
             r == C!Joined(q, w)
  <2>1. C!Encode(s, x, C!One) = q
    BY <1>4, EncodesC
  <2>2. Finish(s, x) = r
    BY <1>4, <2>1 DEF Finish, C!Finish, C!Then
  <2>3. SeesC(q.s, l, a)
    BY <1>2, <1>4 DEF SeesX
  <2> HIDE DEF l, q
  <2>4. w.s = q.s /\ w.err = FALSE
        /\ w.out = <<[f |-> "finish", reason |-> C!Stop(q.s)]>> \o IF q.s.usage THEN <<[f |-> "usage"]>> ELSE <<>>
    BY DEF C!Ok
  <2> DEFINE used == q.s.usage
             reason == C!Stop(q.s)
             t == q.s
             o == w.out
  <2>5. o = <<[f |-> "finish", reason |-> reason]>> \o IF used THEN <<[f |-> "usage"]>> ELSE <<>>
    BY <2>4
  <2>6. SeesC(t, l, a)
    BY <2>3
  <2> HIDE DEF w, a, used, reason, t, o
  <2>7. IsSeq(o) /\ Answered(Accept(dialect, a, o \o Sentinel), t)
    BY <1>3, <1>4, <2>5, <2>6, EndsChat
  <2>8. r.err = FALSE /\ r.s = t /\ r.out = q.out \o o
    BY <1>1, <2>4 DEF C!Joined, t, o
  <2> HIDE DEF r
  <2>9. IsSeq(Sentinel) /\ IsSeq(o \o Sentinel)
    BY <2>7, SeqFew, SeqJoin DEF Sentinel
  <2>10. (q.out \o o) \o Sentinel = q.out \o (o \o Sentinel)
    <3> DEFINE z == q.out
               y == Sentinel
    <3>1. IsSeq(z) /\ IsSeq(o) /\ IsSeq(y)
      BY <1>2, <2>7, <2>9
    <3> HIDE DEF z, y
    <3>2. (z \o o) \o y = z \o (o \o y)
      BY <3>1, SeqAssoc, SMTT(30)
    <3> QED BY <3>2 DEF z, y
  <2>11. Accept(dialect, c, q.out \o (o \o Sentinel)) = Accept(dialect, a, o \o Sentinel)
    BY <1>2, <2>9, AcceptAt DEF a
  <2> QED BY <2>2, <2>7, <2>8, <2>10, <2>11
<1>5. CASE dialect = "responses"
  <2> DEFINE v == R!CloseOpenItems(q.s)
             p == R!Joined(q, v)
             kind == IF p.s.incomplete THEN "incomplete" ELSE "completed"
             e == R!Event([p.s EXCEPT !.terminal = TRUE], kind, 0, p.s.output)
             w == IF p.s.terminal THEN R!Ok(p.s, <<>>) ELSE e
             r == R!Joined(p, w)
             h == [l EXCEPT !.think = <<>>]
             b == Accept(dialect, a, v.out)
  <2>1. R!Encode(s, x, R!One) = q
    BY <1>5, EncodesR
  <2>2. Finish(s, x) = r
    BY <1>5, <2>1 DEF Finish, R!Finish, R!Then
  <2>3. SeesR(q.s, l, a)
    BY <1>2, <1>5 DEF SeesX
  <2> HIDE DEF q, l, a
  <2>4. PICK m : SameHeard(l, m) /\ m.think = <<>>
    <3> DEFINE z == [call |-> l.call, phase |-> l.phase, think |-> <<>>]
    <3>1. SameHeard(l, z) /\ z.think = <<>>
      BY DEF SameHeard
    <3> QED BY <3>1
  <2>5. ReachesR(m, a, v) /\ Lasts(v, 0, 0)
    BY <1>2, <2>3, <2>4, ClosesItems
  <2> HIDE DEF v
  <2>6. v.err = FALSE /\ IsSeq(v.out) /\ SeesR(v.s, m, b) /\ v.s.message = 0 /\ v.s.reasoning = 0 /\ m.call = <<>>
    BY <1>3, <2>4, <2>5 DEF ReachesR, Lasts, SameHeard
  <2>7. p.s = v.s /\ p.err = FALSE /\ p.out = q.out \o v.out
    BY <1>1, <2>6 DEF R!Joined
  <2> HIDE DEF p, b
  <2>8. p.s.terminal = FALSE
    BY <2>6, <2>7, SeesHas
  <2>9. w = e
    BY <2>8
  <2> DEFINE t == p.s
  <2>10. SeesR(t, m, b) /\ t.message = 0 /\ t.reasoning = 0
    BY <2>6, <2>7
  <2> HIDE DEF t
  <2>11. kind \in {"completed", "incomplete"}
    OBVIOUS
  <2> HIDE DEF kind
  <2>12. /\ e.err = FALSE /\ IsSeq(e.out)
         /\ Answered(Accept(dialect, b, e.out \o Sentinel), e.s)
    <3> DEFINE f == R!Event([t EXCEPT !.terminal = TRUE], kind, 0, t.output)
    <3>1. f.err = FALSE /\ IsSeq(f.out) /\ Answered(Accept(dialect, b, f.out \o Sentinel), f.s)
      BY <1>5, <2>6, <2>10, <2>11, EndsResponses
    <3>2. f = e
      BY DEF t
    <3> HIDE DEF e, f
    <3> QED BY <3>1, <3>2
  <2> HIDE DEF e, w
  <2>13. r.err = FALSE /\ r.s = e.s /\ r.out = (q.out \o v.out) \o e.out
    BY <2>7, <2>9, <2>12 DEF R!Joined
  <2> HIDE DEF r
  <2>14. Sentinel = <<>> /\ e.out \o Sentinel = e.out
    BY <1>5, <2>12, SeqEmptyRight DEF Sentinel
  <2>15. IsSeq(q.out \o v.out) /\ Accept(dialect, c, q.out \o v.out) = b
    BY <1>2, <2>6, SeqJoin, AcceptAt DEF a, b
  <2> DEFINE g == q.out \o v.out
             j == g \o e.out
  <2>16. IsSeq(g) /\ Accept(dialect, c, g) = b
    BY <2>15
  <2> HIDE DEF g
  <2>17. IsSeq(j) /\ Accept(dialect, c, j) = Accept(dialect, b, e.out)
    BY <2>12, <2>16, SeqJoin, AcceptAt
  <2>18. r.out = j
    BY <2>13 DEF g
  <2> HIDE DEF j
  <2>19. r.out \o Sentinel = j
    BY <2>14, <2>17, <2>18, SeqEmptyRight
  <2> QED BY <2>2, <2>12, <2>13, <2>14, <2>17, <2>19
<1> QED BY <1>4, <1>5

\* The first frame shows an answer nothing was said of.
LEMMA StartSeen ==
  ASSUME dialect \in {"responses", "chat"}
  PROVE  /\ SeesX(Start(dialect).s, Unheard, Accept(dialect, Fresh, Start(dialect).out))
         /\ Musings(Unheard)
<1>1. IsClient(Fresh) /\ Fresh.phase = "start" /\ Fresh.seq = 0 /\ Fresh.blocks = <<>>
      /\ Fresh.open = FALSE /\ Fresh.stage = <<>>
  BY DEF Fresh, IsClient, ClientFields
<1>2. Unheard.call = <<>> /\ Unheard.think = <<>> /\ Unheard.phase = <<>> /\ Unheard.used = {}
  BY DEF Unheard
<1>3. Musings(Unheard)
  BY <1>2 DEF Musings
<1>4. IsSeq(<<>>) /\ Len(<<>>) = 0 /\ DOMAIN <<>> = {}
  BY SeqFew
<1>5. CASE dialect = "responses"
  <2> DEFINE fr == [f |-> "created", seq |-> 0, pos |-> 0, x |-> <<>>]
             next == [Fresh EXCEPT !.seq = @ + 1]
             c == Into(next, "open")
             s == [R!New EXCEPT !.seq = @ + 1]
  <2>1. Start(dialect).out = <<fr>> /\ Start(dialect).s = s
    BY <1>5 DEF Start, R!Start, R!Event, R!Ok, R!New
  <2>2. /\ IsResp(s) /\ s.seq = 1 /\ s.output = <<>> /\ s.message = 0 /\ s.reasoning = 0 /\ s.calls = <<>>
        /\ s.searches = <<>> /\ s.terminal = FALSE
    BY DEF R!New, IsResp, RespFields
  <2> HIDE DEF s
  <2>3. IsClient(next) /\ next.seq = 1 /\ next.blocks = <<>> /\ next.stage = <<>>
    BY <1>1 DEF IsClient, ClientFields
  <2>4. ResponsesAccept(Fresh, fr) = c
    BY <1>1 DEF ResponsesAccept
  <2> HIDE DEF next, fr
  <2>5. IsClient(c) /\ c.phase = "open" /\ c.seq = 1 /\ c.blocks = <<>> /\ c.stage = <<>>
    BY <2>3 DEF Into, IsClient, ClientFields
  <2> HIDE DEF c
  <2>6. Accept(dialect, Fresh, <<fr>>) = c
    BY <1>5, <2>4, AcceptAt DEF Take
  <2>7. Meets(s, c, s.output, c.stage)
    BY <1>4, <1>5, <2>2, <2>5 DEF Meets, Holding
  <2>8. RS(s.output, c.stage, s.message, s.reasoning, s.calls, s.searches, <<>>, <<>>, <<>>)
    BY <1>4, <2>2, <2>5 DEF RS, Items, Talking, Thinks, CallsHeld, Searches, Rest
  <2>9. SeesR(s, Unheard, c)
    BY <1>2, <2>2, <2>7, <2>8 DEF SeesR, CallOK
  <2> QED BY <1>3, <1>5, <2>1, <2>6, <2>9 DEF SeesX
<1>6. CASE dialect = "chat"
  <2> DEFINE fr == [f |-> "role"]
             t == Block("text", 0, <<>>)
             r == Block("reasoning", 0, <<>>)
             b == <<t, r>>
             c == [Into(Fresh, "open") EXCEPT !.blocks = b]
             s == C!New
  <2>1. Start(dialect).out = <<fr>> /\ Start(dialect).s = s
    BY <1>6 DEF Start, C!Start, C!Ok
  <2>2. /\ IsChunk(s) /\ s.content = <<>> /\ s.reasoning = <<>> /\ s.calls = <<>> /\ s.positions = <<>>
        /\ s.cites = <<>>
    BY DEF C!New, IsChunk, ChunkFields
  <2>3. ChatAccept(Fresh, fr) = c
    BY <1>1 DEF ChatAccept
  <2>4. Accept(dialect, Fresh, <<fr>>) = c
    <3> HIDE DEF fr, c
    <3> QED BY <1>6, <2>3, AcceptAt DEF Take
  <2>5. Words(s) = t /\ Musing(s) = r
    BY <2>2 DEF Words, Musing, Block
  <2> HIDE DEF s, t, r
  <2>6. IsSeq(b) /\ Len(b) = 2 /\ b[1] = t /\ b[2] = r
    BY SeqFew
  <2>7. Holds(b, t, r, <<>>, <<>>)
    BY <1>4, <2>6 DEF Holds
  <2> HIDE DEF b
  <2>8. IsClient(c) /\ c.phase = "open" /\ c.open = FALSE /\ c.blocks = b
    BY <1>1 DEF Into, IsClient, ClientFields
  <2> HIDE DEF c
  <2>9. SeesC(s, Unheard, c)
    <3>1. Chunked(s) /\ Clear(c) /\ CallOK(Unheard) /\ Pending(Unheard) = <<>>
      BY <1>2, <1>4, <2>2, <2>8 DEF Chunked, Clear, CallOK, Pending
    <3>2. Placed(s.positions, Unheard)
      BY <1>2, <1>4, <2>2 DEF Placed
    <3>3. Len(s.positions) = Len(s.calls) + Len(Unheard.call)
      BY <1>2, <1>4, <2>2
    <3>4. Holds(c.blocks, Words(s), Musing(s), s.calls, Pending(Unheard))
      BY <2>2, <2>5, <2>7, <2>8, <3>1
    <3> QED BY <3>1, <3>2, <3>3, <3>4 DEF SeesC
  <2> HIDE DEF fr
  <2> QED BY <1>3, <1>6, <2>1, <2>4, <2>9 DEF SeesX
<1> QED BY <1>5, <1>6
=============================================================================
