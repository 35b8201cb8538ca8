---------------------------- MODULE StreamsProofs ---------------------------
(***************************************************************************)
(* One streamed answer, proved for any number of blocks, deltas and events *)
(* held by the transport, and in every dialect: no client is sent a frame  *)
(* its dialect forbids where it stands, a client whose answer looks        *)
(* complete has one that its upstream completed, and what that client has  *)
(* put together is what a client that does not stream is given.            *)
(*                                                                         *)
(* The inductive invariant has two parts.  StreamInv says what each stage  *)
(* owes the next: the upstream's events fit the decoder (Queue), an        *)
(* upstream that failed has left a failure in the queue for as long as the *)
(* body reads it (Cause), so that the end of an answer is told only after  *)
(* a terminal event (CompleteOver), and a Messages client stands where the *)
(* encoder's frames put it (Talk).                                         *)
(*                                                                         *)
(* Chat and Responses clients need more, since their encoders trust the    *)
(* decoder: arguments must be of the call that is open, reasoning must     *)
(* close with what was thought.  HeardInv says that the client holds what  *)
(* it has been told (SeesX), and that the run of the decoder over the      *)
(* events that still wait (Run) fits what it has been told and ends where  *)
(* the upstream stands: RelA relates a Claude upstream, its decoder and    *)
(* what was told, RelX a Codex one.  So an event the upstream adds to the  *)
(* queue is one the client will understand when the body reaches it.       *)
(***************************************************************************)
EXTENDS EncoderProofs

\* A Claude decoder's record, the native block it collects, and an outcome.
ClaudeFields == {"thinking", "tid", "redacted", "native", "call", "span", "calls", "signed",
                "phase", "stop"}
IsClaude(d) == d = [x \in ClaudeFields |-> d[x]]
NativeOK(v) == v = <<>> \/ \E b : IsBlock(b) /\ b.kind = "native" /\ v = <<b>>
ClaudeOK(d) == IsClaude(d) /\ NativeOK(d.native) /\ IsFiniteSet(DOMAIN d.phase)
Claudes(r) == AllOK(r.out) /\ (~r.err => ClaudeOK(r.s))

\* Few events that decoders may let go.
LEMMA AllFew ==
  /\ AllOK(<<>>) /\ \A ev : EventOK(ev) => AllOK(<<ev>>)
  /\ \A v, w : EventOK(v) /\ EventOK(w) => AllOK(<<v, w>>)
BY DEF AllOK, IsSeq

\* Events joined to events.
LEMMA AllJoin == ASSUME NEW a, NEW b, AllOK(a), AllOK(b) PROVE AllOK(a \o b)
<1>1. /\ IsSeq(a \o b) /\ Len(a \o b) = Len(a) + Len(b)
      /\ \A i \in 1..Len(a) + Len(b) : (a \o b)[i] = IF i <= Len(a) THEN a[i] ELSE b[i - Len(a)]
  BY SeqJoin DEF AllOK
<1> QED BY <1>1 DEF AllOK, IsSeq

\* One operation after another.
LEMMA ClaudesJoined ==
  ASSUME NEW r, NEW w, Claudes(r), ~r.err => Claudes(w)
  PROVE  Claudes(CL!Joined(r, w))
<1>1. CASE r.err
  BY <1>1 DEF CL!Joined
<1>2. CASE ~r.err /\ w.err
  <2>1. CL!Joined(r, w).out = <<>> /\ CL!Joined(r, w).err
    BY <1>2 DEF CL!Joined
  <2> QED BY <2>1, AllFew DEF Claudes
<1>3. CASE ~r.err /\ ~w.err
  <2>1. CL!Joined(r, w).out = r.out \o w.out /\ CL!Joined(r, w).s = w.s
    BY <1>3 DEF CL!Joined
  <2> QED BY <1>3, <2>1, AllJoin DEF Claudes
<1> QED BY <1>1, <1>2, <1>3

\* Outcomes that succeed.
LEMMA ClaudesOk ==
  /\ \A d, out : ClaudeOK(d) /\ AllOK(out) => Claudes(CL!Ok(d, out))
  /\ \A d : ClaudeOK(d) => Claudes(CL!Ok(d, <<>>))
  /\ \A d, ev : ClaudeOK(d) /\ ev.k # "native_block" => Claudes(CL!Ok(d, <<ev>>))
BY AllFew DEF Claudes, CL!Ok, EventOK

\* Every field but the native block and the searches' phases.
LEMMA ClaudeElse ==
  ASSUME NEW d, ClaudeOK(d)
  PROVE  /\ \A x : ClaudeOK([d EXCEPT !.span = x]) /\ ClaudeOK([d EXCEPT !.call = x])
         /\ \A x, y : ClaudeOK([d EXCEPT !.thinking = x, !.tid = y])
         /\ \A x : ClaudeOK([d EXCEPT !.redacted = x]) /\ ClaudeOK([d EXCEPT !.thinking = x])
         /\ \A x : ClaudeOK([d EXCEPT !.calls = x]) /\ ClaudeOK([d EXCEPT !.signed = x])
         /\ \A x : ClaudeOK([d EXCEPT !.stop = x])
         /\ \A x, y : ClaudeOK([d EXCEPT !.redacted = x, !.signed = y])
<1>1. IsClaude(d)
  BY DEF ClaudeOK
<1>2. \A e : IsClaude(e) /\ e.native = d.native /\ e.phase = d.phase => ClaudeOK(e)
  BY DEF ClaudeOK
<1>3. \A x, y : /\ ClaudeOK([d EXCEPT !.span = x]) /\ ClaudeOK([d EXCEPT !.call = x])
                /\ ClaudeOK([d EXCEPT !.thinking = x, !.tid = y])
  BY <1>1, <1>2 DEF IsClaude, ClaudeFields
<1>4. \A x, y : /\ ClaudeOK([d EXCEPT !.redacted = x]) /\ ClaudeOK([d EXCEPT !.thinking = x])
                /\ ClaudeOK([d EXCEPT !.redacted = x, !.signed = y])
  BY <1>1, <1>2 DEF IsClaude, ClaudeFields
<1>5. \A x : /\ ClaudeOK([d EXCEPT !.calls = x]) /\ ClaudeOK([d EXCEPT !.signed = x])
             /\ ClaudeOK([d EXCEPT !.stop = x])
  BY <1>1, <1>2 DEF IsClaude, ClaudeFields
<1> QED BY <1>3, <1>4, <1>5

\* A search's phase is told.
LEMMA HostedClaude ==
  ASSUME NEW d, ClaudeOK(d), NEW id, NEW phase
  PROVE  Claudes(CL!Hosted(d, id, phase))
<1> DEFINE e == [d EXCEPT !.phase = CL!With(@, id, phase)]
           ev == [k |-> "hosted", id |-> id, phase |-> phase]
<1>1. IsClaude(d) /\ IsFiniteSet(DOMAIN d.phase)
  BY DEF ClaudeOK
<1>2. IsClaude(e) /\ e.native = d.native /\ e.phase = CL!With(d.phase, id, phase)
  BY <1>1 DEF IsClaude, ClaudeFields
<1>3. IsFiniteSet(DOMAIN e.phase)
  <2> HIDE DEF e
  <2>1. DOMAIN e.phase = DOMAIN d.phase \cup {id}
    BY <1>2 DEF CL!With
  <2> QED BY <1>1, <2>1, FS_AddElement
<1>4. ClaudeOK(e)
  <2> HIDE DEF e
  <2> QED BY <1>2, <1>3 DEF ClaudeOK
<1>5. ev.k # "native_block"
  OBVIOUS
<1> HIDE DEF e, ev
<1>6. CL!Hosted(d, id, phase) \in {CL!Ok(e, <<ev>>), CL!Ok(d, <<>>)}
  BY DEF CL!Hosted, e, ev
<1> QED BY <1>4, <1>5, <1>6, ClaudesOk

StartKinds == {"text", "native", "tool_use", "thinking", "redacted", "search", "result"}

\* A block starts.
LEMMA BlockStartClaude ==
  ASSUME NEW d, ClaudeOK(d), NEW e, e.kind \in StartKinds
  PROVE  Claudes(CL!BlockStart(d, e))
<1> DEFINE b == CL!Block("native", e.i, <<>>)
           n == [d EXCEPT !.native = <<b>>]
<1>1. ClaudeOK(n)
  <2>1. IsBlock(b) /\ b.kind = "native"
    BY DEF CL!Block, IsBlock, BlockFields
  <2>2. IsClaude(d) /\ IsFiniteSet(DOMAIN d.phase)
    BY DEF ClaudeOK
  <2> HIDE DEF b
  <2>3. IsClaude(n) /\ n.native = <<b>> /\ n.phase = d.phase
    BY <2>2 DEF IsClaude, ClaudeFields
  <2>4. NativeOK(n.native)
    BY <2>1, <2>3 DEF NativeOK
  <2> HIDE DEF n
  <2> QED BY <2>2, <2>3, <2>4 DEF ClaudeOK
<1> HIDE DEF n
<1>2. CASE e.kind = "text"
  BY <1>2, ClaudeElse, ClaudesOk DEF CL!BlockStart
<1>3. CASE e.kind = "native"
  BY <1>1, <1>3, ClaudesOk DEF CL!BlockStart, n
<1>4. CASE e.kind = "tool_use"
  BY <1>4, ClaudeElse, ClaudesOk DEF CL!BlockStart
<1>5. CASE e.kind = "thinking"
  BY <1>5, ClaudeElse, ClaudesOk DEF CL!BlockStart
<1>6. CASE e.kind = "redacted"
  BY <1>6, ClaudeElse, ClaudesOk DEF CL!BlockStart
<1>7. CASE e.kind \in {"search", "result"}
  BY <1>7, HostedClaude DEF CL!BlockStart
<1> QED BY <1>2, <1>3, <1>4, <1>5, <1>6, <1>7 DEF StartKinds

\* A block grows.
LEMMA DeltaClaude ==
  ASSUME NEW d, ClaudeOK(d), NEW e
  PROVE  Claudes(CL!Delta(d, e))
<1> DEFINE sign == [d EXCEPT !.thinking[1].sig = <<e.x>>]
           think == [d EXCEPT !.thinking[1].text = Append(@, e.x)]
           native == [d EXCEPT !.native[1].body = Append(@, e.x)]
           args == [d EXCEPT !.call[1].args = Append(@, e.x)]
<1>0. IsClaude(d) /\ NativeOK(d.native) /\ IsFiniteSet(DOMAIN d.phase)
  BY DEF ClaudeOK
<1>1. ClaudeOK(sign) /\ ClaudeOK(think) /\ ClaudeOK(args)
  BY <1>0 DEF ClaudeOK, IsClaude, ClaudeFields
<1>2. d.native # <<>> => ClaudeOK(native)
  <2> SUFFICES ASSUME d.native # <<>> PROVE ClaudeOK(native)
    OBVIOUS
  <2>1. PICK b : IsBlock(b) /\ b.kind = "native" /\ d.native = <<b>>
    BY <1>0 DEF NativeOK
  <2> DEFINE w == [b EXCEPT !.body = Append(@, e.x)]
             v == [d.native EXCEPT ![1] = w]
  <2>2. IsBlock(w) /\ w.kind = "native"
    BY <2>1 DEF IsBlock, BlockFields
  <2>3. IsClaude(native) /\ native.native = v /\ native.phase = d.phase
    <3>1. d.native[1] = b
      BY <2>1
    <3> QED BY <1>0, <3>1 DEF IsClaude, ClaudeFields
  <2> HIDE DEF w, native
  <2>5. v = <<w>>
    BY <2>1
  <2> HIDE DEF v
  <2>4. NativeOK(native.native)
    BY <2>2, <2>3, <2>5 DEF NativeOK
  <2> QED BY <1>0, <2>3, <2>4 DEF ClaudeOK
<1> HIDE DEF sign, think, native, args
<1>3. CASE e.d = "text"
  BY <1>3, ClaudesOk DEF CL!Delta
<1>4. CASE e.d = "cite"
  BY <1>4, ClaudesOk DEF CL!Delta
<1>5. CASE e.d = "thinking"
  BY <1>1, <1>5, ClaudesOk DEF CL!Delta, think
<1>6. CASE e.d = "signature"
  BY <1>1, <1>6, ClaudesOk DEF CL!Delta, sign
<1>7. CASE e.d = "json" /\ d.native # <<>>
  BY <1>2, <1>7, ClaudesOk DEF CL!Delta, native
<1>8. CASE e.d = "json" /\ d.native = <<>> /\ d.call # <<>>
  BY <1>1, <1>8, ClaudesOk DEF CL!Delta, args
<1>9. CASE /\ e.d \notin {"text", "cite", "thinking", "signature"}
           /\ ~(e.d = "json" /\ d.native # <<>>)
           /\ ~(e.d = "json" /\ d.native = <<>> /\ d.call # <<>>)
  BY <1>9, ClaudesOk DEF CL!Delta
<1> QED BY <1>3, <1>4, <1>5, <1>6, <1>7, <1>8, <1>9

\* The blocks that a stop closes, each alone.
LEMMA CloseClaude ==
  ASSUME NEW d, ClaudeOK(d)
  PROVE  /\ Claudes(CL!CloseThinking(d)) /\ \A fresh : Claudes(CL!CloseRedacted(d, fresh))
         /\ Claudes(CL!CloseNative(d)) /\ Claudes(CL!CloseCall(d))
<1>0. IsClaude(d) /\ NativeOK(d.native) /\ IsFiniteSet(DOMAIN d.phase)
  BY DEF ClaudeOK
<1>1. Claudes(CL!CloseThinking(d))
  <2> DEFINE open == d.thinking[1]
             closed == [d EXCEPT !.thinking = <<>>]
             whole == [closed EXCEPT !.signed = Append(@, open)]
             v == [k |-> "signature", sig |-> open.sig[1]]
             w == CL!Envelope(d, d.tid, open.text, open.sig[1])
  <2>1. ClaudeOK(closed)
    BY ClaudeElse
  <2>2. ClaudeOK(whole)
    <3> HIDE DEF closed
    <3> QED BY <2>1, ClaudeElse
  <2>3. EventOK(v) /\ EventOK(w)
    BY DEF EventOK, CL!Envelope
  <2> HIDE DEF whole, closed, v, w
  <2>4. Claudes(CL!Ok(whole, <<v, w>>)) /\ Claudes(CL!Ok(closed, <<>>)) /\ Claudes(CL!Ok(d, <<>>))
    BY <2>1, <2>2, <2>3, ClaudesOk, AllFew
  <2> QED BY <2>4 DEF CL!CloseThinking, whole, closed, v, w
<1>2. ASSUME NEW fresh PROVE Claudes(CL!CloseRedacted(d, fresh))
  <2> DEFINE closed == [d EXCEPT !.redacted = <<>>,
                                 !.signed = Append(@, [text |-> <<>>, sig |-> d.redacted])]
             w == CL!Envelope(d, fresh, <<>>, d.redacted[1])
  <2>1. ClaudeOK(closed)
    BY <1>0 DEF ClaudeOK, IsClaude, ClaudeFields
  <2>2. w.k # "native_block"
    BY DEF CL!Envelope
  <2> HIDE DEF closed, w
  <2>3. Claudes(CL!Ok(closed, <<w>>)) /\ Claudes(CL!Ok(d, <<>>))
    BY <2>1, <2>2, ClaudesOk
  <2> QED BY <2>3 DEF CL!CloseRedacted, closed, w
<1>3. Claudes(CL!CloseNative(d))
  <2> DEFINE closed == [d EXCEPT !.native = <<>>]
             out == [j \in 1..Len(d.native) |-> [k |-> "native_block", block |-> d.native[j]]]
  <2>1. IsClaude(closed) /\ closed.native = <<>> /\ closed.phase = d.phase
    BY <1>0 DEF IsClaude, ClaudeFields
  <2>2. ClaudeOK(closed)
    <3> HIDE DEF closed
    <3> QED BY <1>0, <2>1 DEF ClaudeOK, NativeOK
  <2>3. AllOK(out)
    <3>1. CASE d.native = <<>>
      <4>1. out = <<>>
        BY <3>1
      <4> QED BY <4>1, AllFew
    <3>2. CASE \E b : IsBlock(b) /\ b.kind = "native" /\ d.native = <<b>>
      <4>1. PICK b : IsBlock(b) /\ b.kind = "native" /\ d.native = <<b>>
        BY <3>2
      <4> DEFINE ev == [k |-> "native_block", block |-> b]
      <4>2. out = <<ev>>
        BY <4>1
      <4>3. EventOK(ev)
        BY <4>1 DEF EventOK
      <4> HIDE DEF ev
      <4> QED BY <4>2, <4>3, AllFew
    <3> QED BY <1>0, <3>1, <3>2 DEF NativeOK
  <2> HIDE DEF closed, out
  <2>4. Claudes(CL!Ok(closed, out))
    BY <2>2, <2>3, ClaudesOk
  <2> QED BY <2>4 DEF CL!CloseNative, closed, out
<1>4. Claudes(CL!CloseCall(d))
  <2> DEFINE call == d.call[1]
             closed == [d EXCEPT !.call = <<>>]
             empty  == call.args = <<>>
             args   == IF empty THEN <<"{}">> ELSE call.args
             taken == [closed EXCEPT !.calls = Append(@, call.id)]
             v == [k |-> "call_args", index |-> call.index, x |-> "{}"]
             w == [k |-> "call_end", index |-> call.index, id |-> call.id, args |-> args]
             out == (IF empty THEN <<v>> ELSE <<>>) \o <<w>>
  <2>1. ClaudeOK(closed)
    BY ClaudeElse
  <2>2. ClaudeOK(taken)
    <3> HIDE DEF closed
    <3> QED BY <2>1, ClaudeElse
  <2>3. EventOK(v) /\ EventOK(w)
    BY DEF EventOK
  <2>4. AllOK(out)
    <3> HIDE DEF v, w
    <3>1. AllOK(IF empty THEN <<v>> ELSE <<>>) /\ AllOK(<<w>>)
      BY <2>3, AllFew
    <3> QED BY <3>1, AllJoin
  <2> HIDE DEF closed, taken, out
  <2>5. Claudes(CL!Ok(taken, out)) /\ Claudes(CL!Ok(closed, <<>>)) /\ Claudes(CL!Ok(d, <<>>))
    BY <2>1, <2>2, <2>4, ClaudesOk
  <2> QED BY <2>5 DEF CL!CloseCall, closed, taken, out
<1> QED BY <1>1, <1>2, <1>3, <1>4

\* A block stops.
LEMMA BlockStopClaude ==
  ASSUME NEW d, ClaudeOK(d), NEW e
  PROVE  Claudes(CL!BlockStop(d, e))
<1> DEFINE e1 == CL!CloseThinking(d)
           e2 == CL!Joined(e1, CL!CloseRedacted(e1.s, e.i))
           e3 == CL!Joined(e2, CL!CloseNative(e2.s))
           e4 == CL!Joined(e3, CL!CloseCall(e3.s))
<1>1. CL!BlockStop(d, e) = e4
  BY DEF CL!BlockStop, CL!Then
<1>2. Claudes(e1)
  BY CloseClaude
<1> HIDE DEF e1
<1>3. Claudes(e2)
  BY <1>2, CloseClaude, ClaudesJoined DEF Claudes
<1> HIDE DEF e2
<1>4. Claudes(e3)
  BY <1>3, CloseClaude, ClaudesJoined DEF Claudes
<1> HIDE DEF e3
<1>5. Claudes(e4)
  BY <1>4, CloseClaude, ClaudesJoined DEF Claudes
<1> QED BY <1>1, <1>5

\* Any event; an error event is an error.
LEMMA DecodeClaude ==
  ASSUME NEW d, ClaudeOK(d), NEW e, e.t = "start" => e.kind \in StartKinds
  PROVE  Claudes(CL!Decode(d, e)) /\ (e.t = "error" => CL!Decode(d, e).err)
<1>1. CASE e.t = "start"
  BY <1>1, BlockStartClaude DEF CL!Decode
<1>2. CASE e.t = "delta"
  BY <1>2, DeltaClaude DEF CL!Decode
<1>3. CASE e.t = "stop"
  BY <1>3, BlockStopClaude DEF CL!Decode
<1>4. CASE e.t = "message_delta"
  BY <1>4, ClaudeElse, ClaudesOk DEF CL!Decode
<1>5. CASE e.t = "error"
  <2>1. CL!Decode(d, e) = CL!Err(d)
    BY <1>5 DEF CL!Decode
  <2> QED BY <2>1, AllFew DEF CL!Err, Claudes
<1>6. CASE e.t \notin {"start", "delta", "stop", "message_delta", "error"}
  BY <1>6, ClaudesOk DEF CL!Decode
<1> QED BY <1>1, <1>2, <1>3, <1>4, <1>5, <1>6

\* The open searches, in the order of their ids.
LEMMA SortedSeq ==
  ASSUME NEW S, Cardinality(S) \in Nat
  PROVE  IsSeq(CL!Sorted(S))
<1> DEFINE At(n) == CHOOSE id \in S : CL!Cardinality({x \in S : x < id}) = n - 1
           a == [n \in 1..CL!Cardinality(S) |-> At(n)]
<1>1. CL!Sorted(S) = a
  BY Zenon DEF CL!Sorted
<1>2. CL!Cardinality(S) = Cardinality(S)
  BY DEF CL!Cardinality, Cardinality
<1> HIDE DEF At
<1>3. IsSeq(a)
  BY <1>2 DEF IsSeq
<1> QED BY <1>1, <1>3

\* The fold over the searches that never ended, and what it keeps.
DropStep(r, id) == CL!Then(r, LAMBDA s : CL!Hosted(s, id, "dropped"))
DropFold == INSTANCE FoldFacts WITH Op <- DropStep, P <- Claudes, Q <- Anything

\* The end of a stream, open searches dropped.
LEMMA FinishClaude ==
  ASSUME NEW d, ClaudeOK(d)
  PROVE  Claudes(CL!Finish(d))
<1> DEFINE reason == IF d.stop # "" THEN d.stop
                     ELSE IF d.calls = <<>> THEN "end_turn" ELSE "tool_use"
           open    == {id \in DOMAIN d.phase : reason = "tool_use" /\ CL!PhaseRank(d.phase[id]) < 2}
           ids == CL!Sorted(open)
           dropped == CL!InTurn(DropStep, CL!Ok(d, <<>>), ids)
           v == [k |-> "finish", reason |-> reason]
           w == [k |-> "usage"]
<1>1. CL!Finish(d) = CL!Joined(dropped, CL!Ok(dropped.s, <<v, w>>))
  BY DEF CL!Finish, CL!Then, DropStep
<1>2. IsSeq(ids)
  <2>1. IsFiniteSet(open)
    BY FS_Subset DEF ClaudeOK
  <2>2. Cardinality(open) \in Nat
    BY <2>1, FS_CardinalityType
  <2> HIDE DEF open
  <2> QED BY <2>2, SortedSeq
<1> HIDE DEF ids
<1>3. Claudes(dropped)
  <2>1. \A r, id : Claudes(r) /\ Anything(id) => Claudes(DropStep(r, id))
    BY HostedClaude, ClaudesJoined DEF DropStep, CL!Then, Claudes
  <2>2. \A b, T : \A s \in Seq(T) : Claudes(b) /\ (\A e \in T : Anything(e))
        => Claudes(DropFold!Fold(b, s))
    BY <2>1, DropFold!FoldKeeps, SetInduction DEF DropFold!Induction
  <2>3. ids \in Seq(Elements(ids)) /\ \A e \in Elements(ids) : Anything(e)
    BY <1>2, SeqIn DEF Anything
  <2>4. Claudes(CL!Ok(d, <<>>))
    BY ClaudesOk
  <2>5. DropFold!Fold(CL!Ok(d, <<>>), ids) = dropped
    BY DEF CL!InTurn, DropFold!Fold, CL!MapThenFoldSet, DropFold!MapThenFoldSet, DropFold!Max
  <2> HIDE DEF dropped
  <2> QED BY <2>2, <2>3, <2>4, <2>5
<1>4. EventOK(v) /\ EventOK(w)
  BY DEF EventOK
<1> HIDE DEF dropped, v, w
<1>5. ~dropped.err => Claudes(CL!Ok(dropped.s, <<v, w>>))
  BY <1>3, <1>4, AllFew, ClaudesOk DEF Claudes
<1> QED BY <1>1, <1>3, <1>5, ClaudesJoined

\* A Codex item's citations are a sequence.
ItemOK(item) == Len(item.cites) \in Nat
Codexes(r) == AllOK(r.out)

\* One operation after another.
LEMMA CodexesJoined ==
  ASSUME NEW r, NEW w, Codexes(r), ~r.err => Codexes(w)
  PROVE  Codexes(CX!Joined(r, w))
<1>1. CASE r.err
  BY <1>1 DEF CX!Joined
<1>2. CASE ~r.err /\ w.err
  <2>1. CX!Joined(r, w).out = <<>>
    BY <1>2 DEF CX!Joined
  <2> QED BY <2>1, AllFew DEF Codexes
<1>3. CASE ~r.err /\ ~w.err
  <2>1. CX!Joined(r, w).out = r.out \o w.out
    BY <1>3 DEF CX!Joined
  <2> QED BY <1>3, <2>1, AllJoin DEF Codexes
<1> QED BY <1>1, <1>2, <1>3

\* Outcomes that succeed or fail with little to say.
LEMMA CodexesOk ==
  /\ \A d : Codexes(CL!Ok(d, <<>>)) /\ Codexes(CX!Ok(d, <<>>)) /\ Codexes(CX!Err(d))
  /\ \A d, ev : ev.k # "native_block" => Codexes(CX!Ok(d, <<ev>>))
  /\ \A d, v, w : v.k # "native_block" /\ w.k # "native_block" => Codexes(CX!Ok(d, <<v, w>>))
  /\ \A d, out : AllOK(out) => Codexes(CX!Ok(d, out))
BY AllFew DEF Codexes, CX!Ok, CL!Ok, CX!Err, EventOK

\* A search's phase is told.
LEMMA HostedCodex ==
  ASSUME NEW d, NEW id, NEW phase
  PROVE  Codexes(CX!Hosted(d, id, phase))
BY CodexesOk DEF CX!Hosted

\* An item's search is told.
LEMMA WebSearchCodex ==
  ASSUME NEW d, NEW item, NEW phase
  PROVE  Codexes(CX!WebSearch(d, item, phase))
BY CodexesOk, HostedCodex DEF CX!WebSearch

\* An item's citations are told.
LEMMA AnnotationsCodex ==
  ASSUME NEW d, NEW item, ItemOK(item)
  PROVE  Codexes(CX!Annotations(d, item))
<1> DEFINE out == [j \in 1..Len(item.cites) |->
                     [k |-> "cite", x |-> item.cites[j], url |-> TRUE, span |-> 0]]
           e == [d EXCEPT !.cited = IF item.kind = "text" THEN @ \cup {item.id} ELSE @]
<1>1. AllOK(out)
  BY DEF AllOK, IsSeq, EventOK, ItemOK
<1> HIDE DEF out, e
<1>2. Codexes(CX!Ok(e, out)) /\ Codexes(CX!Ok(e, <<>>))
  BY <1>1, CodexesOk
<1> QED BY <1>2 DEF CX!Annotations, out, e

\* An item's reasoning is told.
LEMMA ReasoningCodex == ASSUME NEW d, NEW item PROVE Codexes(CX!Reasoning(d, item))
<1> DEFINE kept    == [item EXCEPT !.cites = <<>>]
           forget  == [d EXCEPT !.thinking = <<>>]
           unshown == item.body # <<>> /\ d.thinking = <<>>
           shown   == IF unshown THEN item.body ELSE d.thinking
           taken   == [forget EXCEPT !.items = Append(@, kept)]
           u == [k |-> "thinking", x |-> item.body, item |-> item.id]
           v == [k |-> "reasoning", item |-> kept]
           w == [k |-> "signature", sig |-> [item.sig[1] EXCEPT !.over = shown]]
           out == (IF unshown THEN <<u>> ELSE <<>>) \o <<v, w>>
<1>1. EventOK(u) /\ EventOK(v) /\ EventOK(w)
  BY DEF EventOK
<1>2. AllOK(out)
  <2> HIDE DEF u, v, w, unshown
  <2>1. AllOK(IF unshown THEN <<u>> ELSE <<>>) /\ AllOK(<<v, w>>)
    BY <1>1, AllFew
  <2> QED BY <2>1, AllJoin
<1> HIDE DEF out, taken, forget
<1>3. Codexes(CX!Ok(taken, out)) /\ Codexes(CX!Ok(forget, <<>>))
  BY <1>2, CodexesOk
<1> QED BY <1>3 DEF CX!Reasoning, out, taken, forget

\* An item's call is told.
LEMMA FunctionCallCodex ==
  ASSUME NEW d, NEW item
  PROVE  Codexes(CX!FunctionCall(d, item))
BY CodexesOk DEF CX!FunctionCall

\* An item's native block is told.
LEMMA NativeCodex == ASSUME NEW d, NEW item PROVE Codexes(CX!Native(d, item))
BY CodexesOk DEF CX!Native

\* An item is told, whatever it is.
LEMMA ItemCodex ==
  ASSUME NEW d, NEW item, ItemOK(item)
  PROVE  Codexes(CX!Item(d, item))
<1> DEFINE e1 == CX!WebSearch(d, item, item.st)
           e2 == CX!Joined(e1, CX!Annotations(e1.s, item))
           own(s) == CASE item.kind = "reasoning" -> CX!Reasoning(s, item)
                       [] item.kind = "tool_use"  -> CX!FunctionCall(s, item)
                       [] item.kind = "native"    -> CX!Native(s, item)
                       [] OTHER                   -> CX!Ok(s, <<>>)
<1>1. CX!Item(d, item) = CX!Joined(e2, own(e2.s))
  BY DEF CX!Item, CX!Then
<1>2. Codexes(e2)
  BY WebSearchCodex, AnnotationsCodex, CodexesJoined
<1> HIDE DEF e2
<1>3. Codexes(own(e2.s))
  BY ReasoningCodex, FunctionCallCodex, NativeCodex, CodexesOk
<1> HIDE DEF own
<1> QED BY <1>1, <1>2, <1>3, CodexesJoined

\* The fold over the items a terminal event lists, and what it keeps.
ItemStep(r, item) == CX!Then(r, LAMBDA s : CX!Item(s, item))
ItemFold == INSTANCE FoldFacts WITH Op <- ItemStep, P <- Codexes, Q <- ItemOK

ItemsOK(items) == IsSeq(items) /\ \A j \in 1..Len(items) : ItemOK(items[j])

\* The items listed at the end, for those never streamed.
LEMMA TerminalCodex ==
  ASSUME NEW d, NEW e, ItemsOK(e.output)
  PROVE  Codexes(CX!TerminalResponse(d, e))
<1> DEFINE listed == CX!InTurn(ItemStep, CX!Ok(d, <<>>), e.output)
           last(s) == CX!Ok(IF e.t = "incomplete" THEN [s EXCEPT !.stop = e.reason] ELSE s, <<>>)
<1>1. CX!TerminalResponse(d, e) = CX!Joined(listed, last(listed.s))
  BY DEF CX!TerminalResponse, CX!Then, ItemStep
<1>2. Codexes(listed)
  <2>1. \A r, item : Codexes(r) /\ ItemOK(item) => Codexes(ItemStep(r, item))
    BY ItemCodex, CodexesJoined DEF ItemStep, CX!Then
  <2>2. \A b, T : \A s \in Seq(T) : Codexes(b) /\ (\A x \in T : ItemOK(x))
        => Codexes(ItemFold!Fold(b, s))
    BY <2>1, ItemFold!FoldKeeps, SetInduction DEF ItemFold!Induction
  <2>3. e.output \in Seq(Elements(e.output)) /\ \A x \in Elements(e.output) : ItemOK(x)
    BY SeqIn DEF ItemsOK, Elements
  <2>4. Codexes(CX!Ok(d, <<>>))
    BY CodexesOk
  <2>5. ItemFold!Fold(CX!Ok(d, <<>>), e.output) = listed
    BY DEF CX!InTurn, ItemFold!Fold, CX!MapThenFoldSet, ItemFold!MapThenFoldSet, ItemFold!Max
  <2> HIDE DEF listed
  <2> QED BY <2>2, <2>3, <2>4, <2>5
<1>3. \A s : Codexes(last(s))
  BY CodexesOk
<1> HIDE DEF listed, last
<1> QED BY <1>1, <1>2, <1>3, CodexesJoined

\* Any event; a failure event is an error.
LEMMA DecodeCodex ==
  ASSUME NEW d, NEW e, e.t = "done" => ItemOK(e.item),
         e.t \in {"completed", "incomplete"} => ItemsOK(e.output)
  PROVE  Codexes(CX!Decode(d, e)) /\ (e.t \in {"failed", "error"} => CX!Decode(d, e).err)
<1>1. CASE e.t \in {"text", "thinking", "cite"}
  BY <1>1, CodexesOk DEF CX!Decode
<1>2. CASE e.t \in {"added", "search"}
  BY <1>2, WebSearchCodex, HostedCodex DEF CX!Decode
<1>3. CASE e.t = "done"
  BY <1>3, ItemCodex DEF CX!Decode
<1>4. CASE e.t \in {"completed", "incomplete"}
  BY <1>4, TerminalCodex DEF CX!Decode
<1>5. CASE e.t \in {"failed", "error"}
  <2>1. CX!Decode(d, e) = CX!Err(d)
    BY <1>5 DEF CX!Decode
  <2> QED BY <1>5, <2>1, CodexesOk DEF CX!Err
<1>6. CASE e.t \notin {"text", "thinking", "cite", "added", "search", "done", "completed",
           "incomplete", "failed", "error"}
  BY <1>6, CodexesOk DEF CX!Decode
<1> QED BY <1>1, <1>2, <1>3, <1>4, <1>5, <1>6

\* The end of a stream.
LEMMA FinishCodex == ASSUME NEW d PROVE Codexes(CX!Finish(d))
BY CodexesOk DEF CX!Finish

\* An upstream's record, the block it streams, and what holds of them.
UpFields == {"who", "phase", "n", "left", "block", "search", "cut", "signs", "items", "texts",
             "calls", "signed", "cites"}
PartFields == {"kind", "i", "k", "x", "sig", "cites"}
IsUp(u) == u = [x \in UpFields |-> u[x]]
IsPart(b) == b = [x \in PartFields |-> b[x]]
BlockOK(block) == block = <<>> \/ \E b : IsPart(b) /\ IsSeq(b.cites) /\ block = <<b>>
UpOK(u) ==
  /\ IsUp(u) /\ u.phase \in {"open", "reason", "over", "failed"} /\ u.who \in {"claude", "codex"}
  /\ u.who = "codex" => ItemsOK(u.items) /\ BlockOK(u.block)

\* An event a decoder can read.
EventFits(who, e) ==
  IF who = "claude" THEN e.t = "start" => e.kind \in StartKinds
  ELSE /\ e.t = "done" => ItemOK(e.item)
       /\ e.t \in {"completed", "incomplete"} => ItemsOK(e.output)

\* The events that end a stream, and those of them that fail it.
EndsOf(who) == IF who = "claude" THEN {"message_stop", "error"}
             ELSE {"completed", "incomplete", "failed", "error"}
FailsOf(who) == IF who = "claude" THEN {"error"} ELSE {"failed", "error"}

\* An upstream that ends a stream says so, and one that fails it fails aloud.
SayOK(who, say) ==
  /\ UpOK(say.u) /\ say.u.who = who /\ EventFits(who, say.e)
  /\ say.e.t \in EndsOf(who) => say.u.phase \in {"over", "failed"}
  /\ say.u.phase = "failed" => say.e.t \in FailsOf(who)

\* The same upstream, still in the same phase
Alike(u, v) == IsUp(v) /\ v.who = u.who /\ v.phase = u.phase

\* Claude says something that ends nothing.
LEMMA MidSay ==
  ASSUME NEW u, NEW v, NEW e, u.who = "claude", u.phase = "open", Alike(u, v),
         e.t \in {"start", "delta", "stop", "message_delta"}, e.t = "start" => e.kind \in StartKinds
  PROVE  SayOK("claude", Says(v, e))
BY DEF SayOK, Says, UpOK, Alike, EventFits, EndsOf, FailsOf

\* A Claude block starts.
LEMMA ClaudeStartsOK ==
  ASSUME NEW u, UpOK(u), u.who = "claude", u.phase = "open", NEW say \in ClaudeStarts(u)
  PROVE  SayOK("claude", say)
<1> DEFINE b(kind) == Begin(u, kind)
           i(kind) == b(kind).n
           at(kind) == CASE kind = "search"   -> [b(kind) EXCEPT !.search = i(kind)]
                         [] kind = "result"   -> [b(kind) EXCEPT !.search = 0]
                         [] kind = "redacted" ->
                                [b(kind) EXCEPT !.signed = Append(@, Sig(i(kind), <<>>))]
                         [] OTHER             -> b(kind)
           e(kind, phase) == [t |-> "start", kind |-> kind, i |-> i(kind),
                             data |-> Sig(i(kind), <<>>),
                              phase |-> phase, id |-> IF kind = "result" THEN u.search ELSE i(kind)]
<1>1. \A kind : Alike(u, b(kind))
  BY DEF UpOK, Begin, Alike, IsUp, UpFields
<1>2. ASSUME NEW kind PROVE Alike(u, at(kind))
  <2>1. Alike(u, b(kind))
    BY <1>1
  <2> DEFINE c == b(kind)
             d == i(kind)
  <2>2. Alike(u, c)
    BY <2>1
  <2> HIDE DEF b, c, d
  <2>3. Alike(u, [c EXCEPT !.search = d]) /\ Alike(u, [c EXCEPT !.search = 0])
        /\ Alike(u, [c EXCEPT !.signed = Append(@, Sig(d, <<>>))])
    BY <2>2 DEF Alike, IsUp, UpFields
  <2> QED BY <2>2, <2>3 DEF c, d
<1>3. \A kind, phase : e(kind, phase).t = "start" /\ e(kind, phase).kind = kind
  OBVIOUS
<1>4. PICK kind \in ClaudeKinds(u) : \E phase : say = ClaudeStart(u, kind, phase)
  BY DEF ClaudeStarts
<1>7. PICK phase : say = ClaudeStart(u, kind, phase)
  BY <1>4
<1>5. kind \in StartKinds
  BY DEF ClaudeKinds, StartKinds
<1>6. ClaudeStart(u, kind, phase) = Says(at(kind), e(kind, phase))
  BY DEF ClaudeStart
<1> HIDE DEF at, e
<1> QED BY <1>2, <1>3, <1>5, <1>6, <1>7, MidSay

\* A Claude block grows.
LEMMA ClaudeDeltaOK ==
  ASSUME NEW u, UpOK(u), u.who = "claude", u.phase = "open", NEW say \in ClaudeDelta(u)
  PROVE  SayOK("claude", say)
<1>1. ASSUME NEW v, NEW e, Alike(u, v), e.t = "delta" PROVE SayOK("claude", Says(v, e))
  BY <1>1, MidSay
<1>2. SayOK("claude", say)
  <2> DEFINE b == u.block[1]
             tok == Token(b)
             w == Wider(u, tok)
             s == Spent(u)
             plain(d) == [t |-> "delta", d |-> d, x |-> tok]
             json(x) == [t |-> "delta", d |-> "json", x |-> x]
             cite(url) == [t |-> "delta", d |-> "cite", x |-> tok, url |-> url]
             sig == [t |-> "delta", d |-> "signature", x |-> Sig(b.i, b.x)]
             longer(x) == [u EXCEPT !.block[1].x = Append(@, x)]
             texted == [w EXCEPT !.texts = Append(@, tok)]
             cited(url) == [s EXCEPT !.cites = Append(@, [x |-> tok, url |-> url])]
             sealed == [u EXCEPT !.block[1].sig = <<Sig(b.i, b.x)>>,
                                    !.signed = IF b.x = <<>> THEN @ ELSE Append(@, Sig(b.i, b.x))]
  <2>1. Alike(u, s)
    BY DEF UpOK, Spent, Alike, IsUp, UpFields
  <2>2. Alike(u, w)
    <3> HIDE DEF s
    <3>1. w = [s EXCEPT !.block[1].x = Append(@, tok)]
      BY DEF Wider, s
    <3> HIDE DEF w
    <3> QED BY <2>1, <3>1 DEF Alike, IsUp, UpFields
  <2>3. \A x : Alike(u, longer(x))
    BY DEF UpOK, Alike, IsUp, UpFields
  <2>4. Alike(u, sealed)
    BY DEF UpOK, Alike, IsUp, UpFields
  <2> HIDE DEF s, w
  <2>5. Alike(u, texted) /\ \A url : Alike(u, cited(url))
    BY <2>1, <2>2 DEF Alike, IsUp, UpFields
  <2>6. [Says(w, plain("text")) EXCEPT !.u.texts = Append(@, tok)] = Says(texted, plain("text"))
    BY SMTT(30) DEF Says
  <2> DEFINE all == {Says(texted, plain("text")), Says(w, plain("thinking")),
                     Says(w, plain("json")), Says(sealed, sig), Says(longer("whole"), json("whole")),
                     Says(longer("half"), json("half")),
                     Says(longer("rest"), json("rest"))}
                    \cup {Says(cited(url), cite(url)) : url \in BOOLEAN}
  <2>7. say \in all
    <3> HIDE DEF texted, cited, sealed, longer, plain, json, cite, sig
    <3> QED BY <2>6, Zenon DEF ClaudeDelta, w, s, texted, cited, sealed, longer, plain, json, cite, sig
  <2>8. \A d, x, url : plain(d).t = "delta" /\ json(x).t = "delta" /\ cite(url).t = "delta"
        /\ sig.t = "delta"
    OBVIOUS
  <2> HIDE DEF texted, cited, sealed, longer, plain, json, cite, sig
  <2>9. SayOK("claude", Says(texted, plain("text")))
        /\ \A url : SayOK("claude", Says(cited(url), cite(url)))
    BY <1>1, <2>5, <2>8
  <2>10. /\ SayOK("claude", Says(w, plain("thinking"))) /\ SayOK("claude", Says(w, plain("json")))
         /\ SayOK("claude", Says(sealed, sig)) /\ \A x : SayOK("claude", Says(longer(x), json(x)))
    BY <1>1, <2>2, <2>3, <2>4, <2>8
  <2> QED BY <2>7, <2>9, <2>10
<1> QED BY <1>2

\* A Claude block stops.
LEMMA ClaudeStopOK ==
  ASSUME NEW u, UpOK(u), u.who = "claude", u.phase = "open", NEW say \in ClaudeStop(u)
  PROVE  SayOK("claude", say)
<1> DEFINE b   == u.block[1]
           cut == b.kind = "tool_use" /\ b.x = <<"half">>
           end == [u EXCEPT !.block = <<>>, !.cut = cut]
           called == [end EXCEPT !.calls =
                        Append(@, [id |-> b.i, args |-> IF b.x = <<>> THEN <<"{}">> ELSE b.x])]
           e == [t |-> "stop", i |-> b.i]
<1>1. Alike(u, end)
  BY DEF UpOK, Alike, IsUp, UpFields
<1>2. Alike(u, called)
  <2> HIDE DEF end
  <2> QED BY <1>1 DEF Alike, IsUp, UpFields
<1>3. say \in {Says(called, e), Says(end, e)}
  <2> HIDE DEF called, end, e
  <2> QED BY DEF ClaudeStop, called, end, e
<1>4. e.t = "stop"
  OBVIOUS
<1> HIDE DEF called, end, e
<1> QED BY <1>1, <1>2, <1>3, <1>4, MidSay

\* Whatever Claude says.
LEMMA ClaudeSaysOK ==
  ASSUME NEW u, UpOK(u), u.who = "claude", NEW say \in ClaudeSays(u)
  PROVE  SayOK("claude", say) /\ u.phase \in {"open", "reason"}
<1> DEFINE fail == Says([u EXCEPT !.phase = "failed"], [t |-> "error"])
           reasoned(r) == Says([u EXCEPT !.phase = "reason"], [t |-> "message_delta", reason |-> r])
           stop == Says([u EXCEPT !.phase = "over"], [t |-> "message_stop"])
<1>1. SayOK("claude", fail)
  BY DEF SayOK, Says, UpOK, IsUp, UpFields, EventFits, EndsOf, FailsOf
<1>2. SayOK("claude", stop)
  BY DEF SayOK, Says, UpOK, IsUp, UpFields, EventFits, EndsOf, FailsOf
<1>3. \A r : SayOK("claude", reasoned(r))
  BY DEF SayOK, Says, UpOK, IsUp, UpFields, EventFits, EndsOf, FailsOf
<1> HIDE DEF fail, stop, reasoned
<1>4. CASE u.phase = "open" /\ u.block = <<>>
  <2>1. say \in ClaudeStarts(u) \/ say = fail \/ \E r : say = reasoned(r)
    BY <1>4 DEF ClaudeSays, fail, reasoned
  <2> QED BY <1>1, <1>3, <1>4, <2>1, ClaudeStartsOK
<1>5. CASE u.phase = "open" /\ u.block # <<>>
  <2>1. say \in ClaudeDelta(u) \/ say \in ClaudeStop(u) \/ say = fail
    BY <1>5 DEF ClaudeSays, fail
  <2> QED BY <1>1, <1>5, <2>1, ClaudeDeltaOK, ClaudeStopOK
<1>6. CASE u.phase = "reason"
  <2>1. say = stop
    BY <1>6 DEF ClaudeSays, stop
  <2> QED BY <1>2, <1>6, <2>1
<1>7. CASE u.phase \notin {"open", "reason"}
  BY <1>7 DEF ClaudeSays
<1> QED BY <1>4, <1>5, <1>6, <1>7

\* The same Codex response, whose open item may have changed
Going(u, v) == Alike(u, v) /\ v.items = u.items /\ BlockOK(v.block)

\* Codex says something that ends nothing.
LEMMA GoingSay ==
  ASSUME NEW u, UpOK(u), u.who = "codex", u.phase = "open", NEW v, NEW e, Going(u, v),
         e.t \in {"added", "text", "thinking", "cite", "search"}
  PROVE  SayOK("codex", Says(v, e))
BY DEF SayOK, Says, UpOK, Going, Alike, EventFits, EndsOf, FailsOf

\* A Codex item starts.
LEMMA CodexStartsOK ==
  ASSUME NEW u, UpOK(u), u.who = "codex", u.phase = "open", NEW say \in CodexStarts(u)
  PROVE  SayOK("codex", say)
<1> DEFINE b(kind) == Begin(u, kind)
           e(kind) == [t |-> "added", item |-> CodexItem(b(kind).block[1], <<>>, "in_progress")]
<1>1. ASSUME NEW kind PROVE Going(u, b(kind))
  <2> DEFINE p == [kind |-> kind, i |-> u.n + 1, k |-> 0, x |-> <<>>, sig |-> <<>>, cites |-> <<>>]
             v == b(kind)
  <2>1. IsPart(p) /\ IsSeq(p.cites)
    BY SeqFew DEF IsPart, PartFields
  <2>2. v = [u EXCEPT !.n = @ + 1, !.block = <<p>>]
    BY DEF Begin
  <2> HIDE DEF b, p, v
  <2>3. Alike(u, v) /\ v.items = u.items /\ v.block = <<p>>
    BY <2>2 DEF UpOK, Alike, IsUp, UpFields
  <2>4. BlockOK(v.block)
    BY <2>1, <2>3 DEF BlockOK
  <2> QED BY <2>3, <2>4 DEF Going, v
<1>2. PICK kind : say = Says(b(kind), e(kind))
  BY DEF CodexStarts
<1>3. e(kind).t = "added"
  OBVIOUS
<1> HIDE DEF b, e
<1> QED BY <1>1, <1>2, <1>3, GoingSay

\* A sequence with an element appended.
LEMMA SeqAppend == ASSUME NEW a, IsSeq(a), NEW x PROVE IsSeq(Append(a, x))
<1>1. Append(a, x) = a \o <<x>> /\ IsSeq(a \o <<x>>)
  BY SeqLast
<1> QED BY <1>1, Zenon

\* A Codex item grows.
LEMMA CodexDeltaOK ==
  ASSUME NEW u, UpOK(u), u.who = "codex", u.phase = "open", u.block # <<>>,
         NEW say \in CodexDelta(u)
  PROVE  SayOK("codex", say)
<1>1. ASSUME NEW v, NEW e, Going(u, v), e.t \in {"text", "thinking", "cite", "search"}
      PROVE SayOK("codex", Says(v, e))
  BY <1>1, GoingSay
<1> DEFINE b == u.block[1]
           tok == Token(b)
           s == Spent(u)
           w == Wider(u, tok)
           texted == [w EXCEPT !.texts = Append(@, tok)]
           cited == [s EXCEPT !.block[1].cites = Append(@, tok),
                              !.cites = Append(@, [x |-> tok, url |-> TRUE])]
           text == [t |-> "text", x |-> tok]
           cite == [t |-> "cite", x |-> tok]
           think == [t |-> "thinking", x |-> tok, id |-> b.i]
           search == [t |-> "search", id |-> b.i,
                      phase |-> IF b.k = 0 THEN "searching" ELSE "completed"]
<1>2. IsUp(u) /\ IsPart(b) /\ IsSeq(b.cites) /\ u.block = <<b>>
  BY DEF UpOK, BlockOK
<1>3. ASSUME NEW v, Going(u, v), NEW c, v.block = <<c>>, NEW d, IsPart(d), IsSeq(d.cites)
      PROVE Going(u, [v EXCEPT !.block = <<d>>])
  <2> DEFINE z == [v EXCEPT !.block = <<d>>]
  <2>1. Alike(u, z) /\ z.items = u.items /\ z.block = <<d>>
    BY <1>3 DEF Going, Alike, IsUp, UpFields
  <2> HIDE DEF z
  <2>2. BlockOK(z.block)
    BY <1>3, <2>1 DEF BlockOK
  <2> QED BY <2>1, <2>2 DEF Going, z
<1> DEFINE bs == [b EXCEPT !.k = @ + 1]
           bw == [bs EXCEPT !.x = Append(@, tok)]
           bc == [bs EXCEPT !.cites = Append(@, tok)]
<1>4. IsPart(bs) /\ bs.cites = b.cites
  BY <1>2 DEF IsPart, PartFields
<1>5. IsPart(bw) /\ IsPart(bc) /\ bw.cites = b.cites /\ bc.cites = Append(b.cites, tok)
  <2> HIDE DEF bs, tok
  <2> QED BY <1>4 DEF IsPart, PartFields
<1>6. IsSeq(bs.cites) /\ IsSeq(bw.cites) /\ IsSeq(bc.cites)
  <2> HIDE DEF bs, bw, bc, tok
  <2>1. IsSeq(Append(b.cites, tok))
    BY <1>2, SeqAppend
  <2> QED BY <1>2, <1>4, <1>5, <2>1
<1>7. Alike(u, s) /\ s.items = u.items /\ s.block = [u.block EXCEPT ![1] = bs] /\ s.texts = u.texts
  BY DEF UpOK, Spent, Alike, IsUp, UpFields
<1>8. s.block = <<bs>>
  <2> HIDE DEF bs, s
  <2> QED BY <1>2, <1>7
<1>9. Going(u, s)
  <2> HIDE DEF bs, s
  <2> QED BY <1>4, <1>6, <1>7, <1>8 DEF Going, BlockOK
<1>10. Alike(u, w) /\ w.items = u.items /\ w.block = [s.block EXCEPT ![1] = bw]
  <2>1. w = [s EXCEPT !.block[1].x = Append(@, tok)]
    BY DEF Wider
  <2>2. s.block[1] = bs
    BY <1>8
  <2> HIDE DEF bs, s, w, tok
  <2> QED BY <1>7, <2>1, <2>2 DEF Alike, IsUp, UpFields, bw
<1>11. Going(u, w)
  <2> HIDE DEF bs, bw, s, w
  <2>1. w.block = <<bw>>
    BY <1>8, <1>10
  <2> QED BY <1>5, <1>6, <1>10, <2>1 DEF Going, BlockOK
<1>12. Going(u, cited)
  <2>2. s.block[1] = bs
    BY <1>8
  <2> HIDE DEF bs, s, tok
  <2>3. Alike(u, cited) /\ cited.items = u.items /\ cited.block = [s.block EXCEPT ![1] = bc]
    BY <1>7, <2>2 DEF Alike, IsUp, UpFields, bc
  <2> HIDE DEF cited, bc
  <2>4. cited.block = <<bc>>
    BY <1>8, <2>3
  <2> QED BY <1>5, <1>6, <2>3, <2>4 DEF Going, BlockOK
<1>13. Going(u, texted)
  <2> HIDE DEF w, tok
  <2> QED BY <1>11 DEF Going, Alike, IsUp, UpFields
<1>14. [Says(w, text) EXCEPT !.u.texts = Append(@, tok)] = Says(texted, text)
  BY SMTT(30) DEF Says
<1>15. text.t = "text" /\ cite.t = "cite" /\ think.t = "thinking" /\ search.t = "search"
  OBVIOUS
<1> HIDE DEF texted, cited, text, cite, think, search
<1>16. say \in {Says(texted, text), Says(cited, cite), Says(w, think), Says(s, search)}
  BY <1>14 DEF CodexDelta, text, cite, think, search, cited
<1> HIDE DEF s, w
<1>17. /\ SayOK("codex", Says(texted, text)) /\ SayOK("codex", Says(cited, cite))
       /\ SayOK("codex", Says(w, think)) /\ SayOK("codex", Says(s, search))
  BY <1>1, <1>9, <1>11, <1>12, <1>13, <1>15
<1> QED BY <1>16, <1>17

\* The item Codex lists has a sequence of citations.
LEMMA CodexItemOK ==
  ASSUME NEW b, IsSeq(b.cites)
  PROVE  \A x, st : ItemOK(CodexItem(b, x, st))
         /\ \A sig : ItemOK([CodexItem(b, x, st) EXCEPT !.sig = sig])
BY DEF ItemOK, CodexItem, Block, IsSeq

\* A response lists one more item.
LEMMA ItemsLonger ==
  ASSUME NEW items, ItemsOK(items), NEW item, ItemOK(item)
  PROVE  ItemsOK(Append(items, item))
<1>1. /\ IsSeq(items \o <<item>>) /\ Len(items \o <<item>>) = Len(items) + Len(<<item>>)
      /\ \A i \in 1..Len(items) + Len(<<item>>) : (items \o <<item>>)[i] =
           IF i <= Len(items) THEN items[i] ELSE <<item>>[i - Len(items)]
  BY SeqJoin, SeqFew DEF ItemsOK
<1>2. Append(items, item) = items \o <<item>> /\ Len(items) \in Nat
  BY SeqLast DEF ItemsOK, IsSeq
<1> QED BY <1>1, <1>2 DEF ItemsOK

\* A Codex item is done.
LEMMA CodexDoneOK ==
  ASSUME NEW u, UpOK(u), u.who = "codex", u.phase = "open", u.block # <<>>, NEW say \in CodexDone(u)
  PROVE  SayOK("codex", say)
<1> DEFINE b == u.block[1]
           end(item) == [u EXCEPT !.block = <<>>, !.items = Append(@, item),
                                 !.cut = item.kind = "tool_use" /\ item.body = <<"half">>]
           at(item) == CASE item.kind = "tool_use" ->
                            [end(item) EXCEPT !.calls = Append(@, [id |-> b.i, args |-> item.body])]
                       [] item.sig # <<>> -> [end(item) EXCEPT !.signed = Append(@, item.sig[1])]
                       [] OTHER -> end(item)
           e(item) == [t |-> "done", item |-> item]
<1>1. IsSeq(b.cites)
  BY DEF UpOK, BlockOK
<1>2. \E item : ItemOK(item) /\ say = Says(at(item), e(item))
  <2> DEFINE F(item) == Says(at(item), e(item))
             S(x) == [CodexItem(b, x, "completed") EXCEPT
                        !.sig = IF u.signs THEN <<Sig(b.i, x)>> ELSE <<>>]
  <2> HIDE DEF at, e, F
  <2>1. CASE b.kind = "reasoning"
    <3>1. \E x : say = F(S(x))
      <4> HIDE DEF S
      <4> QED BY <2>1, Zenon DEF CodexDone, F, at, e, S
    <3> QED BY <1>1, <3>1, CodexItemOK, Zenon DEF F
  <2>2. CASE b.kind # "reasoning"
    <3>1. \E x, st : say = F(CodexItem(b, x, st))
      BY <2>2, Zenon DEF CodexDone, F, at, e
    <3> QED BY <1>1, <3>1, CodexItemOK, SMTT(30) DEF F
  <2> QED BY <2>1, <2>2
<1>3. PICK item : ItemOK(item) /\ say = Says(at(item), e(item))
  BY <1>2
<1> DEFINE d == end(item)
<1>4. IsUp(d) /\ d.who = "codex" /\ d.phase = "open" /\ d.items = Append(u.items, item)
      /\ d.block = <<>>
  BY DEF UpOK, IsUp, UpFields
<1>5. ItemsOK(u.items)
  BY DEF UpOK
<1> HIDE DEF end, d
<1>6. UpOK(d)
  <2>1. ItemsOK(d.items)
    BY <1>3, <1>4, <1>5, ItemsLonger
  <2> QED BY <1>4, <2>1 DEF UpOK, BlockOK
<1>7. UpOK(at(item)) /\ at(item).who = "codex" /\ at(item).phase = "open"
  <2>1. \A x : LET f == [d EXCEPT !.calls = x] IN UpOK(f) /\ f.who = "codex" /\ f.phase = "open"
    BY <1>4, <1>6 DEF UpOK, IsUp, UpFields
  <2>2. \A x : LET f == [d EXCEPT !.signed = x] IN UpOK(f) /\ f.who = "codex" /\ f.phase = "open"
    BY <1>4, <1>6 DEF UpOK, IsUp, UpFields
  <2> QED BY <1>4, <1>6, <2>1, <2>2 DEF d
<1> HIDE DEF at
<1> QED BY <1>3, <1>7 DEF SayOK, Says, EventFits, EndsOf, FailsOf

\* Whatever Codex says.
LEMMA CodexSaysOK ==
  ASSUME NEW u, UpOK(u), u.who = "codex", NEW say \in CodexSays(u)
  PROVE  SayOK("codex", say) /\ u.phase = "open"
<1> DEFINE over == [u EXCEPT !.phase = "over"]
           failed == [u EXCEPT !.phase = "failed"]
           done(output) == [t |-> "completed", output |-> output]
           short(reason) == [t |-> "incomplete", output |-> u.items, reason |-> reason]
<1>1. u.phase = "open"
  BY DEF CodexSays
<1>2. ItemsOK(u.items) /\ ItemsOK(<<>>)
  BY SeqFew DEF UpOK, ItemsOK
<1>3. UpOK(over) /\ over.who = "codex" /\ over.phase = "over"
  BY DEF UpOK, IsUp, UpFields
<1>4. UpOK(failed) /\ failed.who = "codex" /\ failed.phase = "failed"
  BY DEF UpOK, IsUp, UpFields
<1> HIDE DEF over, failed
<1>5. SayOK("codex", Says(over, done(<<>>))) /\ SayOK("codex", Says(over, done(u.items)))
  BY <1>2, <1>3 DEF SayOK, Says, EventFits, EndsOf, FailsOf
<1>6. \A reason : SayOK("codex", Says(over, short(reason)))
  BY <1>2, <1>3 DEF SayOK, Says, EventFits, EndsOf, FailsOf
<1>7. SayOK("codex", Says(failed, [t |-> "failed"]))
  BY <1>4 DEF SayOK, Says, EventFits, EndsOf, FailsOf
<1> HIDE DEF done, short
<1>8. \/ u.block # <<>> /\ (say \in CodexDelta(u) \/ say \in CodexDone(u))
      \/ say \in CodexStarts(u)
      \/ say = Says(over, done(<<>>)) \/ say = Says(over, done(u.items))
      \/ \E reason : say = Says(over, short(reason))
      \/ say = Says(failed, [t |-> "failed"])
  BY <1>1 DEF CodexSays, over, failed, done, short
<1> QED BY <1>1, <1>5, <1>6, <1>7, <1>8, CodexStartsOK, CodexDeltaOK, CodexDoneOK

\* A Claude decoder that has just begun.
LEMMA InitClaude == ClaudeOK(CL!New)
<1>1. IsClaude(CL!New) /\ CL!New.native = <<>> /\ CL!New.phase = <<>>
  BY DEF CL!New, IsClaude, ClaudeFields
<1>2. DOMAIN <<>> = {}
  OBVIOUS
<1> QED BY <1>1, <1>2, FS_EmptySet DEF ClaudeOK, NativeOK

\* A sequence without its first element.
LEMMA TailIs ==
  ASSUME NEW a, IsSeq(a), a # <<>>
  PROVE  /\ IsSeq(Tail(a)) /\ Len(Tail(a)) = Len(a) - 1 /\ Head(a) = a[1] /\ Len(a) \in Nat \ {0}
         /\ \A j \in 1..Len(a) - 1 : Tail(a)[j] = a[j + 1]
<1>1. a \in Seq(Elements(a))
  BY SeqIn
<1>2. Tail(a) \in Seq(Elements(a))
  BY <1>1
<1>3. IsSeq(Tail(a))
  BY <1>2, SeqIs
<1>4. Len(a) \in Nat \ {0} /\ Len(Tail(a)) = Len(a) - 1 /\ Head(a) = a[1]
  BY <1>1
<1>5. \A j \in 1..Len(a) - 1 : Tail(a)[j] = a[j + 1]
  BY <1>1
<1> QED BY <1>3, <1>4, <1>5

\* A sequence with an element joined to its end.
LEMMA SeqSnoc ==
  ASSUME NEW a, IsSeq(a), NEW x
  PROVE  /\ IsSeq(a \o <<x>>) /\ Len(a) \in Nat /\ Len(a \o <<x>>) = Len(a) + 1
         /\ Append(a, x) = a \o <<x>>
         /\ \A j \in 1..Len(a) + 1 : (a \o <<x>>)[j] = IF j = Len(a) + 1 THEN x ELSE a[j]
<1>1. /\ IsSeq(a \o <<x>>) /\ Len(a \o <<x>>) = Len(a) + Len(<<x>>)
      /\ \A i \in 1..Len(a) + Len(<<x>>) : (a \o <<x>>)[i] = IF i <= Len(a) THEN a[i]
           ELSE <<x>>[i - Len(a)]
  BY SeqJoin, SeqFew
<1>2. Append(a, x) = a \o <<x>> /\ Len(a) \in Nat
  BY SeqLast DEF IsSeq
<1> QED BY <1>1, <1>2

-----------------------------------------------------------------------------
\* The events that wait, told one after another: a failure ends it.
FeedBy(who, d, e) == IF who = "claude" THEN CL!Decode(d, e) ELSE CX!Decode(d, e)
Begun(who, d, k) == [who |-> who, d |-> d, k |-> k, alive |-> "yes", fit |-> "yes"]
Tells(k, out) == Neat(out) /\ HearAll(k, out).ok = "yes"
StepQ(q, e) ==
  IF q.alive # "yes" THEN q
  ELSE IF e = Failure \/ FeedBy(q.who, q.d, e).err THEN [q EXCEPT !.alive = "no"]
  ELSE [who |-> q.who, d |-> FeedBy(q.who, q.d, e).s, k |-> HearAll(q.k, FeedBy(q.who, q.d, e).out), alive |-> "yes",
        fit |-> IF q.fit = "yes" /\ Tells(q.k, FeedBy(q.who, q.d, e).out) THEN "yes" ELSE "no"]
Run(q, es) == InTurn(StepQ, q, es)
IsRun(q) == q = [x \in {"who", "d", "k", "alive", "fit"} |-> q[x]]
RunFold == INSTANCE FoldFacts WITH Op <- StepQ, P <- Anything, Q <- Anything

\* The fold of FoldFacts over a queue is the models' InTurn.
LEMMA RunFoldIs == \A q, es : RunFold!Fold(q, es) = Run(q, es)
BY DEF InTurn, RunFold!Fold, MapThenFoldSet, RunFold!MapThenFoldSet, RunFold!Max, Run

\* The run of a queue told in parts.
LEMMA RunAt ==
  /\ \A q : Run(q, <<>>) = q
  /\ \A q, e : Run(q, <<e>>) = StepQ(q, e)
  /\ \A q, a, b : IsSeq(a) /\ IsSeq(b) => Run(q, a \o b) = Run(Run(q, a), b)
<1>1. \A q : Run(q, <<>>) = q
  BY RunFoldIs, RunFold!FoldEmpty, SetInduction DEF RunFold!Induction
<1>2. \A q, e : Run(q, <<e>>) = StepQ(q, e)
  BY RunFoldIs, RunFold!FoldOne, SetInduction DEF RunFold!Induction
<1>3. ASSUME NEW q, NEW a, NEW b, IsSeq(a), IsSeq(b)
      PROVE Run(q, a \o b) = Run(Run(q, a), b)
  <2>1. PICK T : a \in Seq(T) /\ b \in Seq(T)
    BY <1>3, SeqJoin
  <2> QED BY <2>1, RunFoldIs, RunFold!FoldConcat, SetInduction DEF RunFold!Induction
<1> QED BY <1>1, <1>2, <1>3

\* What the run of a queue keeps.
Sure(p, q) == /\ IsRun(q) /\ q.who = p.who /\ (q.fit = "yes" => p.fit = "yes")
              /\ p.alive # "yes" => q = p
\* One event more.
LEMMA StepSure == ASSUME NEW p, NEW q, NEW e, Sure(p, q) PROVE Sure(p, StepQ(q, e))
<1> DEFINE r == [q EXCEPT !.alive = "no"]
           f == FeedBy(q.who, q.d, e)
           s == [who |-> q.who, d |-> f.s, k |-> HearAll(q.k, f.out), alive |-> "yes",
                 fit |-> IF q.fit = "yes" /\ Tells(q.k, f.out) THEN "yes" ELSE "no"]
<1>1. StepQ(q, e) = IF q.alive # "yes" THEN q ELSE IF e = Failure \/ f.err THEN r ELSE s
  BY DEF StepQ
<1>2. q.alive = "yes" => p.alive = "yes"
  BY DEF Sure
<1>3. IsRun(r) /\ r.who = q.who /\ r.fit = q.fit
  BY DEF Sure, IsRun
<1>4. IsRun(s) /\ s.who = q.who /\ (s.fit = "yes" => q.fit = "yes")
  BY DEF IsRun
<1> HIDE DEF r, s
<1> QED BY <1>1, <1>2, <1>3, <1>4 DEF Sure

\* Any events more: what did not fit stays unfit, the run stays a run.
LEMMA RunSure == ASSUME NEW p, IsRun(p), NEW es, IsSeq(es) PROVE Sure(p, Run(p, es))
<1>1. es \in Seq(Elements(es)) /\ Len(es) \in Nat
  BY SeqIn DEF IsSeq
<1>2. PICK g : RunFold!IsPath(g, p, es) /\ RunFold!Fold(p, es) = g[Len(es)]
  BY <1>1, RunFold!FoldPath, SetInduction DEF RunFold!Induction
<1> DEFINE SoFar(n) == Sure(p, g[n])
           S == {n \in Nat : n <= Len(es) => SoFar(n)}
<1>3. SoFar(0)
  BY <1>2 DEF RunFold!IsPath, Sure
<1>4. ASSUME NEW n \in Nat, SoFar(n), n + 1 <= Len(es) PROVE SoFar(n + 1)
  BY <1>2, <1>4, StepSure DEF RunFold!IsPath
<1> HIDE DEF SoFar
<1>5. 0 \in S /\ \A n \in Nat : n \in S => n + 1 \in S
  BY <1>1, <1>3, <1>4
<1>6. Nat \subseteq S
  <2> HIDE DEF S
  <2> QED BY <1>5, SetInduction
<1>7. SoFar(Len(es))
  BY <1>1, <1>6
<1> QED BY <1>2, <1>7, RunFoldIs DEF SoFar

\* One event, and two.
LEMMA HearTwo ==
  ASSUME NEW k, NEW e, NEW f
  PROVE  HearAll(k, <<e, f>>) = Hear(Hear(k, e), f)
<1> DEFINE a == <<e>>
           b == <<f>>
           p == <<e, f>>
           q == a \o b
<1>2. IsSeq(a) /\ IsSeq(b) /\ IsSeq(p) /\ Len(p) = 2 /\ p[1] = e /\ p[2] = f
      /\ Len(a) = 1 /\ Len(b) = 1 /\ a[1] = e /\ b[1] = f
  BY SeqFew
<1>4. HearAll(k, a) = Hear(k, e) /\ \A l : HearAll(l, b) = Hear(l, f)
  BY HearAt
<1> HIDE DEF a, b, p
<1>3. IsSeq(q) /\ Len(q) = 2 /\ q[1] = e /\ q[2] = f
  BY <1>2, SeqJoin
<1>5. HearAll(k, q) = HearAll(HearAll(k, a), b)
  BY <1>2, HearAt
<1> HIDE DEF q
<1>6. p = [i \in 1..2 |-> p[i]] /\ q = [i \in 1..2 |-> q[i]]
  BY <1>2, <1>3 DEF IsSeq
<1>7. \A i \in 1..2 : p[i] = q[i]
  BY <1>2, <1>3
<1>1. p = q
  BY <1>6, <1>7
<1> QED BY <1>1, <1>4, <1>5 DEF p

\* What is heard, field by field.
LEMMA HearIs ==
  ASSUME NEW k, NEW ev
  PROVE  /\ Hear(k, ev).ok = (IF k.ok = "yes" /\ Fit(k, ev) THEN "yes" ELSE "no")
         /\ Hear(k, ev).call = Called(k, ev) /\ Hear(k, ev).think = Thought(k, ev)
         /\ Hear(k, ev).used = (IF ev.k = "call_start" THEN k.used \cup {ev.index} ELSE k.used)
         /\ Hear(k, ev).phase = (IF ev.k = "hosted" THEN With(k.phase, ev.id, ev.phase) ELSE k.phase)
BY DEF Hear

-----------------------------------------------------------------------------
\* What Claude does between two events.
OpensA(u, say) ==
  LET c == say.u.block[1]
  IN  /\ u.phase = "open" /\ u.block = <<>> /\ say.u.phase = "open" /\ say.u.n = u.n + 1
      /\ say.u.block = <<c>> /\ IsPart(c) /\ c.i = u.n + 1 /\ c.x = <<>> /\ c.sig = <<>> /\ c.kind \in StartKinds
      /\ say.e.t = "start" /\ say.e.kind = c.kind /\ say.e.i = u.n + 1
GrowsA(u, say) ==
  LET b == u.block[1]
      c == say.u.block[1]
      e == say.e
  IN  /\ u.phase = "open" /\ u.block = <<b>> /\ say.u.phase = "open" /\ say.u.n = u.n
      /\ say.u.block = <<c>> /\ IsPart(c) /\ c.i = b.i /\ c.kind = b.kind
      /\ e.t = "delta"
      /\ \/ b.kind = "text" /\ e.d \in {"text", "cite"}
         \/ b.kind = "thinking" /\ b.sig = <<>> /\ c.sig = <<>> /\ e.d = "thinking" /\ c.x = Append(b.x, e.x)
         \/ b.kind = "thinking" /\ b.sig = <<>> /\ c.sig = <<e.x>> /\ e.d = "signature" /\ c.x = b.x
         \/ b.kind = "tool_use" /\ e.d = "json" /\ c.x = Append(b.x, e.x)
         \/ b.kind = "native" /\ e.d = "json"
StopsA(u, say) ==
  /\ u.phase = "open" /\ u.block # <<>> /\ say.u.phase = "open" /\ say.u.n = u.n /\ say.u.block = <<>>
  /\ say.e.t = "stop" /\ (u.block[1].kind = "thinking" => u.block[1].sig # <<>>)
EndsA(u, say) ==
  \/ say.e.t = "error"
  \/ /\ u.block = <<>> \/ u.phase = "reason"
     /\ say.u.n = u.n /\ say.u.block = u.block
     /\ say.e.t \in {"message_delta", "message_stop"}

\* The open block of a Claude response.
PartA(u) == u.block = <<>> \/ \E b : IsPart(b) /\ u.block = <<b>>

\* Claude opens a block.
LEMMA OpensClaude ==
  ASSUME NEW u, IsUp(u), u.phase = "open", u.block = <<>>, u.n \in Nat, NEW say \in ClaudeStarts(u)
  PROVE  OpensA(u, say)
<1> DEFINE p(kind) == [kind |-> kind, i |-> u.n + 1, k |-> 0, x |-> <<>>, sig |-> <<>>, cites |-> <<>>]
           b(kind) == Begin(u, kind)
           i(kind) == b(kind).n
           at(kind) == CASE kind = "search"   -> [b(kind) EXCEPT !.search = i(kind)]
                         [] kind = "result"   -> [b(kind) EXCEPT !.search = 0]
                         [] kind = "redacted" ->
                                [b(kind) EXCEPT !.signed = Append(@, Sig(i(kind), <<>>))]
                         [] OTHER             -> b(kind)
           e(kind, phase) == [t |-> "start", kind |-> kind, i |-> i(kind),
                             data |-> Sig(i(kind), <<>>),
                              phase |-> phase, id |-> IF kind = "result" THEN u.search ELSE i(kind)]
           OpenedAs(v, kind) == IsUp(v) /\ v.phase = "open" /\ v.n = u.n + 1 /\ v.block = <<p(kind)>>
<1>1. \A kind : OpenedAs(b(kind), kind)
  BY DEF Begin, IsUp, UpFields
<1>2. ASSUME NEW kind PROVE OpenedAs(at(kind), kind)
  <2> DEFINE c == b(kind)
             d == i(kind)
  <2>2. OpenedAs(c, kind)
    BY <1>1
  <2> HIDE DEF b, c, d, p
  <2>3. OpenedAs([c EXCEPT !.search = d], kind) /\ OpenedAs([c EXCEPT !.search = 0], kind)
        /\ OpenedAs([c EXCEPT !.signed = Append(@, Sig(d, <<>>))], kind)
    BY <2>2 DEF IsUp, UpFields
  <2> QED BY <2>2, <2>3 DEF c, d
<1>3. \A kind, phase : e(kind, phase).t = "start" /\ e(kind, phase).kind = kind /\ e(kind, phase).i = i(kind)
  OBVIOUS
<1>8. \A kind : i(kind) = u.n + 1 
  BY <1>1
<1>9. \A kind : IsPart(p(kind)) /\ p(kind).i = u.n + 1 /\ p(kind).x = <<>> /\ p(kind).sig = <<>> /\ p(kind).kind = kind
  BY DEF IsPart, PartFields
<1>4. PICK kind \in ClaudeKinds(u) : \E phase : say = ClaudeStart(u, kind, phase)
  BY DEF ClaudeStarts
<1>7. PICK phase : say = ClaudeStart(u, kind, phase)
  BY <1>4
<1>5. kind \in StartKinds
  BY DEF ClaudeKinds, StartKinds
<1>6. ClaudeStart(u, kind, phase) = Says(at(kind), e(kind, phase))
  BY DEF ClaudeStart
<1>10. say.u = at(kind) /\ say.e = e(kind, phase)
  BY <1>6, <1>7 DEF Says
<1>11. \A v : OpenedAs(v, kind) => v.block[1] = p(kind)
  OBVIOUS
<1>12. OpenedAs(at(kind), kind) /\ at(kind).block[1] = p(kind)
  BY <1>2, <1>11
<1> HIDE DEF at, e, p, i
<1> QED BY <1>12, <1>3, <1>5, <1>10, <1>8, <1>9 DEF OpensA

\* Claude's block grows.
LEMMA GrowsClaude ==
  ASSUME NEW u, IsUp(u), u.phase = "open", u.block # <<>>, PartA(u), u.n \in Nat, NEW say \in ClaudeDelta(u)
  PROVE  GrowsA(u, say)
<1> DEFINE b == u.block[1]
           tok == Token(b)
           w == Wider(u, tok)
           s == Spent(u)
           plain(d) == [t |-> "delta", d |-> d, x |-> tok]
           json(x) == [t |-> "delta", d |-> "json", x |-> x]
           cite(url) == [t |-> "delta", d |-> "cite", x |-> tok, url |-> url]
           sig == [t |-> "delta", d |-> "signature", x |-> Sig(b.i, b.x)]
           longer(x) == [u EXCEPT !.block[1].x = Append(@, x)]
           texted == [w EXCEPT !.texts = Append(@, tok)]
           cited(url) == [s EXCEPT !.cites = Append(@, [x |-> tok, url |-> url])]
           sealed == [u EXCEPT !.block[1].sig = <<Sig(b.i, b.x)>>,
                                  !.signed = IF b.x = <<>> THEN @ ELSE Append(@, Sig(b.i, b.x))]
           Same(v) == IsUp(v) /\ v.phase = "open" /\ v.n = u.n
           NextPart(v, c) == Same(v) /\ v.block = <<c>> /\ IsPart(c) /\ c.i = b.i /\ c.kind = b.kind
           bs == [b EXCEPT !.k = @ + 1]
           bw == [bs EXCEPT !.x = Append(@, tok)]
           bl(x) == [b EXCEPT !.x = Append(@, x)]
           bg == [b EXCEPT !.sig = <<Sig(b.i, b.x)>>]
<1>0. IsPart(b) /\ u.block = <<b>>
  BY DEF PartA
<1>1. NextPart(u, b)
  BY <1>0
<1>2. IsPart(bs) /\ bs.i = b.i /\ bs.kind = b.kind /\ bs.x = b.x /\ bs.sig = b.sig
  BY <1>0 DEF IsPart, PartFields
<1>3. \A x : IsPart(bl(x)) /\ bl(x).i = b.i /\ bl(x).kind = b.kind /\ bl(x).x = Append(b.x, x) /\ bl(x).sig = b.sig
  BY <1>0 DEF IsPart, PartFields
<1>4. IsPart(bg) /\ bg.i = b.i /\ bg.kind = b.kind /\ bg.x = b.x /\ bg.sig = <<Sig(b.i, b.x)>>
  BY <1>0 DEF IsPart, PartFields
<1>5. NextPart(s, bs)
  <2>1. Same(s) /\ s.block = [u.block EXCEPT ![1].k = @ + 1]
    BY DEF Spent, IsUp, UpFields
  <2>2. [u.block EXCEPT ![1].k = @ + 1] = <<bs>>
    BY <1>0
  <2> HIDE DEF bs
  <2> QED BY <2>1, <2>2, <1>2
<1>6. IsPart(bw) /\ bw.i = b.i /\ bw.kind = b.kind /\ bw.x = Append(b.x, tok) /\ bw.sig = b.sig
  <2> HIDE DEF bs, tok
  <2> QED BY <1>2 DEF IsPart, PartFields
<1>7. NextPart(w, bw)
  <2>3. w = [s EXCEPT !.block[1].x = Append(@, tok)]
    BY DEF Wider, s
  <2> HIDE DEF s, bs, w, tok
  <2>1. Same(w) /\ w.block = [s.block EXCEPT ![1].x = Append(@, tok)]
    BY <1>5, <2>3 DEF IsUp, UpFields
  <2>2. [s.block EXCEPT ![1].x = Append(@, tok)] = <<bw>>
    BY <1>5
  <2> HIDE DEF bw
  <2> QED BY <2>1, <2>2, <1>6
<1>8. \A x : NextPart(longer(x), bl(x))
  <2> TAKE x
  <2>1. Same(longer(x)) /\ longer(x).block = [u.block EXCEPT ![1].x = Append(@, x)]
    BY DEF IsUp, UpFields
  <2>2. [u.block EXCEPT ![1].x = Append(@, x)] = <<bl(x)>>
    <3> HIDE DEF b
    <3> QED BY <1>0, SMTT(30)
  <2> HIDE DEF bl, longer
  <2> QED BY <2>1, <2>2, <1>3
<1>9. NextPart(sealed, bg)
  <2>1. Same(sealed) /\ sealed.block = [u.block EXCEPT ![1].sig = <<Sig(b.i, b.x)>>]
    BY DEF IsUp, UpFields
  <2>2. [u.block EXCEPT ![1].sig = <<Sig(b.i, b.x)>>] = <<bg>>
    BY <1>0
  <2> HIDE DEF bg, sealed
  <2> QED BY <2>1, <2>2, <1>4
<1>10. NextPart(texted, bw)
  <2> HIDE DEF w, bw
  <2> QED BY <1>7 DEF IsUp, UpFields
<1>11. \A url : NextPart(cited(url), bs)
  <2> HIDE DEF s, bs
  <2> QED BY <1>5 DEF IsUp, UpFields
<1>12. [Says(w, plain("text")) EXCEPT !.u.texts = Append(@, tok)] = Says(texted, plain("text"))
  BY SMTT(30) DEF Says
<1>13. \A x : Says(longer(x), json(x)) = Says([u EXCEPT !.block[1].x = Append(@, x)], json(x))
  OBVIOUS
<1>14. \/ b.kind = "text" /\ say = Says(texted, plain("text"))
       \/ b.kind = "text" /\ \E url : say = Says(cited(url), cite(url))
       \/ b.kind = "thinking" /\ b.sig = <<>> /\ say = Says(w, plain("thinking"))
       \/ b.kind = "thinking" /\ b.sig = <<>> /\ say = Says(sealed, sig)
       \/ b.kind = "tool_use" /\ \E x : say = Says(longer(x), json(x))
       \/ b.kind = "native" /\ say = Says(w, plain("json"))
  <2> DEFINE all == {"text", "thinking", "tool_use", "native"}
  <2> HIDE DEF texted, cited, sealed, longer, plain, json, cite, sig
  <2>1. CASE b.kind = "text"
    BY <2>1, <1>12 DEF ClaudeDelta, w, s, texted, cited, plain, cite
  <2>2. CASE b.kind = "thinking"
    BY <2>2 DEF ClaudeDelta, w, sealed, plain, sig
  <2>3. CASE b.kind = "tool_use"
    BY <2>3 DEF ClaudeDelta, longer, json
  <2>4. CASE b.kind = "native"
    BY <2>4 DEF ClaudeDelta, w, plain
  <2>5. CASE b.kind \notin all
    BY <2>5 DEF ClaudeDelta
  <2> QED BY <2>1, <2>2, <2>3, <2>4, <2>5, SMTT(30)
<1>15. /\ \A d : plain(d).t = "delta" /\ plain(d).d = d /\ plain(d).x = tok
       /\ \A x : json(x).t = "delta" /\ json(x).d = "json" /\ json(x).x = x
       /\ \A url : cite(url).t = "delta" /\ cite(url).d = "cite"
       /\ sig.t = "delta" /\ sig.d = "signature" /\ sig.x = Sig(b.i, b.x)
  OBVIOUS
<1>16. \A v, c : NextPart(v, c) => v.block[1] = c
  OBVIOUS
<1>17. \A v, e : Says(v, e).u = v /\ Says(v, e).e = e
  BY DEF Says
<1> HIDE DEF texted, cited, sealed, longer, plain, json, cite, sig, w, s, bs, bw, bl, bg, tok
<1>24. ASSUME NEW v, NEW c, NextPart(v, c), NEW e, say = Says(v, e), e.t = "delta",
              \/ b.kind = "text" /\ e.d \in {"text", "cite"}
              \/ b.kind = "thinking" /\ b.sig = <<>> /\ c.sig = <<>> /\ e.d = "thinking" /\ c.x = Append(b.x, e.x)
              \/ b.kind = "thinking" /\ b.sig = <<>> /\ c.sig = <<e.x>> /\ e.d = "signature" /\ c.x = b.x
              \/ b.kind = "tool_use" /\ e.d = "json" /\ c.x = Append(b.x, e.x)
              \/ b.kind = "native" /\ e.d = "json"
       PROVE  GrowsA(u, say)
  <2>1. say.u = v /\ say.e = e /\ v.block[1] = c
    BY <1>16, <1>17, <1>24
  <2>2. v.phase = "open" /\ v.n = u.n /\ v.block = <<c>> /\ IsPart(c) /\ c.i = b.i /\ c.kind = b.kind
    BY <1>24
  <2> QED BY <1>0, <1>24, <2>1, <2>2, Zenon DEF GrowsA, b
<1>18. CASE b.kind = "text" /\ say = Says(texted, plain("text"))
  <2> HIDE DEF NextPart
  <2> QED BY <1>10, <1>15, <1>18, <1>24
<1>19. CASE b.kind = "text" /\ \E url : say = Says(cited(url), cite(url))
  <2> HIDE DEF NextPart
  <2> QED BY <1>11, <1>15, <1>19, <1>24
<1>20. CASE b.kind = "thinking" /\ b.sig = <<>> /\ say = Says(w, plain("thinking"))
  <2> HIDE DEF NextPart
  <2> QED BY <1>6, <1>7, <1>15, <1>20, <1>24
<1>21. CASE b.kind = "thinking" /\ b.sig = <<>> /\ say = Says(sealed, sig)
  <2> HIDE DEF NextPart
  <2> QED BY <1>4, <1>9, <1>15, <1>21, <1>24
<1>22. CASE b.kind = "tool_use" /\ \E x : say = Says(longer(x), json(x))
  <2> HIDE DEF NextPart
  <2> QED BY <1>3, <1>8, <1>15, <1>22, <1>24
<1>23. CASE b.kind = "native" /\ say = Says(w, plain("json"))
  <2> HIDE DEF NextPart
  <2> QED BY <1>7, <1>15, <1>23, <1>24
<1> QED BY <1>14, <1>18, <1>19, <1>20, <1>21, <1>22, <1>23

\* Claude's block stops.
LEMMA StopsClaude ==
  ASSUME NEW u, IsUp(u), u.phase = "open", u.block # <<>>, NEW say \in ClaudeStop(u)
  PROVE  StopsA(u, say)
<1> DEFINE b   == u.block[1]
           cut == b.kind = "tool_use" /\ b.x = <<"half">>
           end == [u EXCEPT !.block = <<>>, !.cut = cut]
           called == [end EXCEPT !.calls =
                        Append(@, [id |-> b.i, args |-> IF b.x = <<>> THEN <<"{}">> ELSE b.x])]
           e == [t |-> "stop", i |-> b.i]
           After(v) == IsUp(v) /\ v.phase = "open" /\ v.n = u.n /\ v.block = <<>>
<1>1. After(end)
  BY DEF IsUp, UpFields
<1>2. After(called)
  <2> HIDE DEF end
  <2> QED BY <1>1 DEF IsUp, UpFields
<1>3. say \in {Says(called, e), Says(end, e)} /\ (b.kind = "thinking" => b.sig # <<>>)
  <2> HIDE DEF called, end, e
  <2> QED BY DEF ClaudeStop, called, end, e
<1>4. e.t = "stop"
  OBVIOUS
<1> HIDE DEF called, end, e
<1> QED BY <1>1, <1>2, <1>3, <1>4 DEF StopsA, Says

\* All that Claude may say.
LEMMA SaysClaude ==
  ASSUME NEW u, IsUp(u), PartA(u), u.n \in Nat, NEW say \in ClaudeSays(u)
  PROVE  OpensA(u, say) \/ GrowsA(u, say) \/ StopsA(u, say) \/ EndsA(u, say)
<1> DEFINE fail == Says([u EXCEPT !.phase = "failed"], [t |-> "error"])
           reasoned(r) == Says([u EXCEPT !.phase = "reason"], [t |-> "message_delta", reason |-> r])
           stop == Says([u EXCEPT !.phase = "over"], [t |-> "message_stop"])
<1>1. EndsA(u, fail) /\ (u.phase = "reason" => EndsA(u, stop))
  BY DEF EndsA, Says, IsUp, UpFields
<1>3. u.block = <<>> => \A r : EndsA(u, reasoned(r))
  BY DEF EndsA, Says, IsUp, UpFields
<1> HIDE DEF fail, stop, reasoned
<1>4. CASE u.phase = "open" /\ u.block = <<>>
  <2>1. say \in ClaudeStarts(u) \/ say = fail \/ \E r : say = reasoned(r)
    BY <1>4 DEF ClaudeSays, fail, reasoned
  <2> QED BY <1>1, <1>3, <1>4, <2>1, OpensClaude
<1>5. CASE u.phase = "open" /\ u.block # <<>>
  <2>1. say \in ClaudeDelta(u) \/ say \in ClaudeStop(u) \/ say = fail
    BY <1>5 DEF ClaudeSays, fail
  <2> QED BY <1>1, <1>5, <2>1, GrowsClaude, StopsClaude
<1>6. CASE u.phase = "reason"
  <2>1. say = stop
    BY <1>6 DEF ClaudeSays, stop
  <2> QED BY <1>1, <1>6, <2>1
<1>7. CASE u.phase \notin {"open", "reason"}
  BY <1>7 DEF ClaudeSays
<1> QED BY <1>4, <1>5, <1>6, <1>7

-----------------------------------------------------------------------------
\* What is short is neat.
LEMMA NeatFew ==
  /\ Neat(<<>>) /\ \A e : Neat(<<e>>)
  /\ \A e, f : e.k # "native_block" /\ f.k # "native_block" => Neat(<<e, f>>)
BY DEF Neat

\* Short outcomes that no encoder refuses, and outcomes joined.
LEMMA TameFew ==
  /\ Tame(<<>>) /\ \A e : e.k \notin {"native_item", "native_block"} => Tame(<<e>>)
  /\ \A e, f : e.k \notin {"native_item", "native_block"} /\ f.k \notin {"native_item", "native_block"} => Tame(<<e, f>>)
  /\ \A a, b : IsSeq(a) /\ IsSeq(b) /\ Tame(a) /\ Tame(b) => Tame(a \o b)
<1>1. /\ Tame(<<>>) /\ \A e : e.k \notin {"native_item", "native_block"} => Tame(<<e>>)
      /\ \A e, f : e.k \notin {"native_item", "native_block"} /\ f.k \notin {"native_item", "native_block"} => Tame(<<e, f>>)
  BY DEF Tame
<1>2. ASSUME NEW a, NEW b, IsSeq(a), IsSeq(b), Tame(a), Tame(b) PROVE Tame(a \o b)
  <2>1. /\ Len(a \o b) = Len(a) + Len(b)
        /\ \A i \in 1..Len(a) + Len(b) : (a \o b)[i] = IF i <= Len(a) THEN a[i] ELSE b[i - Len(a)]
    BY <1>2, SeqJoin
  <2>2. Len(a) \in Nat /\ Len(b) \in Nat
    BY <1>2 DEF IsSeq
  <2>3. ASSUME NEW i \in 1..Len(a) + Len(b) PROVE (a \o b)[i].k \notin {"native_item", "native_block"}
    <3>1. CASE i <= Len(a)
      <4>1. i \in 1..Len(a)
        BY <2>2, <3>1
      <4> QED BY <1>2, <2>1, <3>1, <4>1 DEF Tame
    <3>2. CASE ~(i <= Len(a))
      <4>1. i - Len(a) \in 1..Len(b)
        BY <2>2, <3>2
      <4>2. (a \o b)[i] = b[i - Len(a)]
        BY <2>1, <3>2
      <4> QED BY <1>2, <4>1, <4>2 DEF Tame
    <3> QED BY <3>1, <3>2
  <2> QED BY <2>1, <2>3 DEF Tame
<1> QED BY <1>1, <1>2

\* A Claude decoder, what has been told of its response and the upstream.
CoreA(u, d, k) ==
  /\ k.ok = "yes" /\ IsClaude(d) /\ k.phase = d.phase /\ u.n \in Nat
  /\ IsSeq(d.calls) /\ (\A j \in 1..Len(d.calls) : d.calls[j] \in 1..u.n) /\ k.used \subseteq 1..u.n
\* Nothing is open, in the decoder or for the client.
Quiet(d, k) ==
  d.thinking = <<>> /\ d.native = <<>> /\ d.call = <<>> /\ d.redacted = <<>> /\ k.call = <<>> /\ k.think = <<>>
\* What was thought of a block so far.
Mused(b) == IF b.x = <<>> THEN <<>> ELSE <<[item |-> b.i, text |-> b.x]>>
\* The decoder collects the upstream's open block, and the client has its deltas.
PartialA(b, d, k) ==
  \/ b.kind \in {"text", "search", "result"} /\ Quiet(d, k)
  \/ /\ b.kind = "thinking" /\ d.tid = b.i /\ d.thinking = <<[text |-> b.x, sig |-> b.sig]>> /\ k.think = Mused(b)
     /\ d.native = <<>> /\ d.call = <<>> /\ d.redacted = <<>> /\ k.call = <<>>
  \/ /\ b.kind = "redacted" /\ (\E g : d.redacted = <<g>>)
     /\ d.thinking = <<>> /\ d.native = <<>> /\ d.call = <<>> /\ k.call = <<>> /\ k.think = <<>>
  \/ /\ b.kind = "native" /\ NativeOK(d.native) /\ d.native # <<>>
     /\ d.thinking = <<>> /\ d.call = <<>> /\ d.redacted = <<>> /\ k.call = <<>> /\ k.think = <<>>
  \/ /\ b.kind = "tool_use" /\ d.call = <<[index |-> b.i, id |-> b.i, args |-> b.x]>>
     /\ k.call = <<[index |-> b.i, id |-> b.i, args |-> b.x]>> /\ (\A j \in 1..Len(d.calls) : d.calls[j] # b.i)
     /\ d.thinking = <<>> /\ d.native = <<>> /\ d.redacted = <<>> /\ k.think = <<>>
OpenA(u, d, k) ==
  LET b == u.block[1]
  IN  /\ u.phase = "open" /\ u.block = <<b>> /\ IsPart(b) /\ b.i = u.n /\ b.i # 0
      /\ (b.kind \in {"thinking", "tool_use"} => IsSeq(b.x)) /\ PartialA(b, d, k)
RelA(u, d, k) == CoreA(u, d, k) /\ (OpenA(u, d, k) \/ (u.block = <<>> /\ Quiet(d, k)))
FeedsA(v, k, r) == r.err = FALSE /\ IsSeq(r.out) /\ Neat(r.out) /\ RelA(v, r.s, HearAll(k, r.out))

\* A step between blocks.
StaysA(v, d, k, r) ==
  /\ r.err = FALSE /\ IsSeq(r.out) /\ Neat(r.out) /\ Tame(r.out) /\ r.s.calls = d.calls
  /\ CoreA(v, r.s, HearAll(k, r.out)) /\ Quiet(r.s, HearAll(k, r.out))

\* A search's phase.
LEMMA HostedA ==
  ASSUME NEW v, NEW d, NEW k, CoreA(v, d, k), Quiet(d, k), NEW id, NEW phase
  PROVE  StaysA(v, d, k, CL!Hosted(d, id, phase))
<1> DEFINE f == [d EXCEPT !.phase = CL!With(@, id, phase)]
           ev == [k |-> "hosted", id |-> id, phase |-> phase]
           l == Hear(k, ev)
           r == CL!Hosted(d, id, phase)
<1>1. CASE CL!Advances(d.phase, id, phase)
  <2>1. r = CL!Ok(f, <<ev>>)
    BY <1>1 DEF CL!Hosted
  <2>2. r.err = FALSE /\ r.s = f /\ r.out = <<ev>>
    BY <2>1 DEF CL!Ok
  <2>3. Advances(k.phase, id, phase)
    BY <1>1 DEF CoreA, Advances, CL!Advances, PhaseRank, CL!PhaseRank
  <2>4. Fit(k, ev) /\ Called(k, ev) = k.call /\ Thought(k, ev) = <<>>
    BY <2>3 DEF Fit, Called, Thought, Quiet
  <2>5. ev.k = "hosted" /\ ev.id = id /\ ev.phase = phase
    OBVIOUS
  <2>6. IsClaude(f) /\ f.phase = CL!With(d.phase, id, phase) /\ f.calls = d.calls /\ f.thinking = d.thinking
        /\ f.native = d.native /\ f.call = d.call /\ f.redacted = d.redacted
    BY DEF CoreA, IsClaude, ClaudeFields
  <2> HIDE DEF ev, l, f, r
  <2>7. l.ok = "yes" /\ l.call = k.call /\ l.think = <<>> /\ l.used = k.used /\ l.phase = With(k.phase, id, phase)
    BY <2>4, <2>5, HearIs DEF CoreA, l
  <2>8. l.phase = f.phase
    BY <2>6, <2>7 DEF CoreA, With, CL!With
  <2>9. CoreA(v, f, l) /\ Quiet(f, l)
    BY <2>6, <2>7, <2>8 DEF CoreA, Quiet
  <2>10. HearAll(k, <<ev>>) = l
    BY HearAt DEF l
  <2>20. Tame(<<ev>>)
    BY <2>5, TameFew
  <2> QED BY <2>2, <2>6, <2>9, <2>10, <2>20, NeatFew, SeqFew DEF r, StaysA
<1>2. CASE ~CL!Advances(d.phase, id, phase)
  <2>1. r.err = FALSE /\ r.s = d /\ r.out = <<>>
    BY <1>2 DEF CL!Hosted, CL!Ok
  <2>2. HearAll(k, <<>>) = k
    BY HearAt
  <2> HIDE DEF r
  <2> QED BY <2>1, <2>2, TameFew, NeatFew, SeqFew DEF r, StaysA
<1> QED BY <1>1, <1>2

\* A block begins.
LEMMA StartsA ==
  ASSUME NEW u, NEW d, NEW k, RelA(u, d, k), NEW say, OpensA(u, say)
  PROVE  FeedsA(say.u, k, CL!BlockStart(d, say.e))
<1> DEFINE v == say.u
           e == say.e
           b == v.block[1]
           r == CL!BlockStart(d, e)
<1>1. CoreA(u, d, k) /\ Quiet(d, k)
  BY DEF RelA, OpensA, OpenA
<1>2. /\ v.phase = "open" /\ v.n = u.n + 1 /\ v.block = <<b>> /\ IsPart(b) /\ b.i = v.n /\ b.x = <<>> /\ b.sig = <<>>
      /\ b.kind \in StartKinds /\ e.kind = b.kind /\ e.i = b.i /\ IsSeq(b.x) /\ u.n \in Nat
  BY <1>1, SeqFew DEF OpensA, CoreA
<1>3. CoreA(v, d, k)
  BY <1>1, <1>2 DEF CoreA
<1>4. b.i # 0 /\ b.i \notin k.used /\ \A j \in 1..Len(d.calls) : d.calls[j] # b.i
  BY <1>1, <1>2 DEF CoreA
<1>5. HearAll(k, <<>>) = k /\ IsClaude(d)
  BY <1>1, HearAt DEF CoreA
<1>13. SUFFICES FeedsA(v, k, r)
  OBVIOUS
<1> HIDE DEF v, e, b, r
<1>6. ASSUME NEW f, IsClaude(f), f.phase = d.phase, f.calls = d.calls, PartialA(b, f, k), r = CL!Ok(f, <<>>)
      PROVE  FeedsA(v, k, r)
  <2>1. r.err = FALSE /\ r.s = f /\ r.out = <<>>
    BY <1>6 DEF CL!Ok
  <2>2. CoreA(v, f, k)
    BY <1>3, <1>6 DEF CoreA
  <2>3. OpenA(v, f, k)
    BY <1>2, <1>4, <1>6 DEF OpenA, b
  <2> QED BY <2>1, <2>2, <2>3, <1>5, NeatFew, SeqFew DEF FeedsA, RelA
<1>7. CASE b.kind = "text"
  <2> DEFINE f == [d EXCEPT !.span = e.i]
  <2>1. r = CL!Ok(f, <<>>)
    BY <1>2, <1>7 DEF r, CL!BlockStart
  <2>2. IsClaude(f) /\ f.phase = d.phase /\ f.calls = d.calls /\ PartialA(b, f, k)
    BY <1>1, <1>5, <1>7 DEF IsClaude, ClaudeFields, PartialA, Quiet
  <2> HIDE DEF f
  <2> QED BY <2>1, <2>2, <1>6
<1>8. CASE b.kind = "native"
  <2> DEFINE n == CL!Block("native", e.i, <<>>)
             f == [d EXCEPT !.native = <<n>>]
  <2>1. r = CL!Ok(f, <<>>)
    BY <1>2, <1>8 DEF r, CL!BlockStart
  <2>3. IsBlock(n) /\ n.kind = "native"
    BY SeqFew DEF CL!Block, IsBlock, BlockFields
  <2> HIDE DEF n
  <2>4. NativeOK(<<n>>) /\ <<n>> # <<>>
    BY <2>3 DEF NativeOK
  <2>2. IsClaude(f) /\ f.phase = d.phase /\ f.calls = d.calls /\ PartialA(b, f, k)
    BY <1>1, <1>5, <1>8, <2>4 DEF IsClaude, ClaudeFields, PartialA, Quiet
  <2> HIDE DEF f
  <2> QED BY <2>1, <2>2, <1>6
<1>9. CASE b.kind = "thinking"
  <2> DEFINE f == [d EXCEPT !.thinking = <<[text |-> <<>>, sig |-> <<>>]>>, !.tid = e.i]
  <2>1. r = CL!Ok(f, <<>>)
    BY <1>2, <1>9 DEF r, CL!BlockStart
  <2>3. Mused(b) = <<>>
    BY <1>2 DEF Mused
  <2>4. IsClaude(f) /\ f.phase = d.phase /\ f.calls = d.calls /\ f.tid = b.i
        /\ f.thinking = <<[text |-> <<>>, sig |-> <<>>]>> /\ f.native = d.native /\ f.call = d.call
        /\ f.redacted = d.redacted
    BY <1>2, <1>5 DEF IsClaude, ClaudeFields
  <2> HIDE DEF f
  <2>2. PartialA(b, f, k)
    BY <1>1, <1>2, <1>9, <2>3, <2>4 DEF PartialA, Quiet
  <2> QED BY <2>1, <2>2, <2>4, <1>6
<1>10. CASE b.kind = "redacted"
  <2> DEFINE f == [d EXCEPT !.redacted = <<e.data>>]
             ev == [k |-> "redacted", data |-> e.data]
             l == Hear(k, ev)
  <2>1. r = CL!Ok(f, <<ev>>)
    BY <1>2, <1>10 DEF r, CL!BlockStart
  <2>2. IsClaude(f) /\ f.phase = d.phase /\ f.calls = d.calls /\ f.redacted = <<e.data>> /\ f.thinking = d.thinking
        /\ f.native = d.native /\ f.call = d.call
    BY <1>5 DEF IsClaude, ClaudeFields
  <2>3. Fit(k, ev) /\ Called(k, ev) = k.call /\ Thought(k, ev) = k.think /\ ev.k = "redacted"
    BY DEF Fit, Called, Thought
  <2> HIDE DEF f, ev
  <2>4. l.ok = "yes" /\ l.call = k.call /\ l.think = k.think /\ l.used = k.used /\ l.phase = k.phase
    BY <2>3, HearIs, <1>1 DEF CoreA
  <2>5. HearAll(k, <<ev>>) = l
    BY HearAt
  <2> HIDE DEF l
  <2>6. CoreA(v, f, l)
    BY <1>3, <2>2, <2>4 DEF CoreA
  <2>7. PartialA(b, f, l)
    BY <1>1, <1>10, <2>2, <2>4 DEF PartialA, Quiet
  <2>8. OpenA(v, f, l)
    BY <1>2, <1>4, <2>7 DEF OpenA, b
  <2>9. r.err = FALSE /\ r.s = f /\ r.out = <<ev>>
    BY <2>1 DEF CL!Ok
  <2> QED BY <2>5, <2>6, <2>8, <2>9, NeatFew, SeqFew DEF FeedsA, RelA
<1>11. CASE b.kind = "tool_use"
  <2> DEFINE call == [index |-> e.i, id |-> e.i, args |-> <<>>]
             f == [d EXCEPT !.call = <<call>>]
             ev == [k |-> "call_start", index |-> e.i, id |-> e.i, args |-> <<>>]
             l == Hear(k, ev)
  <2>1. r = CL!Ok(f, <<ev>>)
    BY <1>2, <1>11 DEF r, CL!BlockStart
  <2>2. IsClaude(f) /\ f.phase = d.phase /\ f.calls = d.calls /\ f.redacted = d.redacted /\ f.thinking = d.thinking
        /\ f.native = d.native /\ f.call = <<call>>
    BY <1>5 DEF IsClaude, ClaudeFields
  <2>3. Fit(k, ev) /\ Called(k, ev) = <<call>> /\ Thought(k, ev) = <<>> /\ ev.k = "call_start" /\ ev.index = e.i
    BY <1>1, <1>2, <1>4, SeqFew DEF Fit, Called, Thought, Quiet
  <2>10. call = [index |-> b.i, id |-> b.i, args |-> b.x]
    BY <1>2
  <2> HIDE DEF f, ev, call
  <2>4. l.ok = "yes" /\ l.call = <<call>> /\ l.think = <<>> /\ l.used = k.used \cup {b.i} /\ l.phase = k.phase
    BY <2>3, HearIs, <1>1, <1>2 DEF CoreA
  <2>5. HearAll(k, <<ev>>) = l
    BY HearAt
  <2> HIDE DEF l
  <2>6. CoreA(v, f, l)
    BY <1>2, <1>3, <1>4, <2>2, <2>4 DEF CoreA
  <2>7. PartialA(b, f, l)
    BY <1>1, <1>4, <1>11, <2>2, <2>4, <2>10 DEF PartialA, Quiet
  <2>8. OpenA(v, f, l)
    BY <1>2, <1>4, <2>7 DEF OpenA, b
  <2>9. r.err = FALSE /\ r.s = f /\ r.out = <<ev>>
    BY <2>1 DEF CL!Ok
  <2> QED BY <2>5, <2>6, <2>8, <2>9, NeatFew, SeqFew DEF FeedsA, RelA
<1>12. CASE b.kind \in {"search", "result"}
  <2>1. PICK id, phase : r = CL!Hosted(d, id, phase)
    BY <1>2, <1>12 DEF r, CL!BlockStart
  <2>4. StaysA(v, d, k, r)
    BY <1>1, <1>3, <2>1, HostedA
  <2>2. /\ r.err = FALSE /\ IsSeq(r.out) /\ Neat(r.out)
        /\ CoreA(v, r.s, HearAll(k, r.out)) /\ Quiet(r.s, HearAll(k, r.out))
    BY <2>4 DEF StaysA
  <2>3. OpenA(v, r.s, HearAll(k, r.out))
    BY <1>2, <1>4, <1>12, <2>2 DEF OpenA, b, PartialA
  <2> QED BY <2>2, <2>3 DEF FeedsA, RelA
<1> QED BY <1>2, <1>7, <1>8, <1>9, <1>10, <1>11, <1>12 DEF StartKinds

-----------------------------------------------------------------------------
\* A block grows.
LEMMA GrowsDelta ==
  ASSUME NEW u, NEW d, NEW k, RelA(u, d, k), NEW say, GrowsA(u, say)
  PROVE  FeedsA(say.u, k, CL!Delta(d, say.e))
<1> DEFINE v == say.u
           e == say.e
           b == u.block[1]
           c == v.block[1]
           r == CL!Delta(d, e)
<1>1. CoreA(u, d, k) /\ OpenA(u, d, k)
  <2> HIDE DEF v, e, b, c, r
  <2>1. \E x : u.block = <<x>>
    BY Zenon DEF GrowsA
  <2>2. u.block # <<>>
    BY <2>1
  <2> QED BY <2>2, Zenon DEF RelA
<1>2. /\ v.phase = "open" /\ v.n = u.n /\ v.block = <<c>> /\ IsPart(c) /\ c.i = b.i /\ c.kind = b.kind /\ c.i = v.n /\ c.i # 0
      /\ PartialA(b, d, k) /\ e.t = "delta" /\ (b.kind \in {"thinking", "tool_use"} => IsSeq(b.x))
      /\ \/ b.kind = "text" /\ e.d \in {"text", "cite"}
         \/ b.kind = "thinking" /\ b.sig = <<>> /\ c.sig = <<>> /\ e.d = "thinking" /\ c.x = Append(b.x, e.x)
         \/ b.kind = "thinking" /\ b.sig = <<>> /\ c.sig = <<e.x>> /\ e.d = "signature" /\ c.x = b.x
         \/ b.kind = "tool_use" /\ e.d = "json" /\ c.x = Append(b.x, e.x)
         \/ b.kind = "native" /\ e.d = "json"
  BY <1>1, Zenon DEF GrowsA, OpenA
<1>3. CoreA(v, d, k)
  BY <1>1, <1>2, Zenon DEF CoreA
<1>4. HearAll(k, <<>>) = k /\ IsClaude(d) /\ k.ok = "yes"
  BY <1>1, HearAt DEF CoreA
<1>5. SUFFICES FeedsA(v, k, r)
  OBVIOUS
<1> HIDE DEF v, e, b, c, r
<1>6. ASSUME NEW f, IsClaude(f), f.phase = d.phase, f.calls = d.calls, NEW out, IsSeq(out), Neat(out),
             NEW l, l = HearAll(k, out), l.ok = "yes", l.used = k.used, l.phase = k.phase,
             PartialA(c, f, l), c.kind \in {"thinking", "tool_use"} => IsSeq(c.x), r = CL!Ok(f, out)
      PROVE  FeedsA(v, k, r)
  <2>1. r.err = FALSE /\ r.s = f /\ r.out = out
    BY <1>6 DEF CL!Ok
  <2>2. CoreA(v, f, l)
    BY <1>3, <1>6 DEF CoreA
  <2>3. OpenA(v, f, l)
    BY <1>2, <1>6 DEF OpenA, c
  <2> QED BY <2>1, <2>2, <2>3, <1>6 DEF FeedsA, RelA
<1>7. CASE b.kind = "text"
  <2> DEFINE t1 == [k |-> "text", x |-> e.x, span |-> d.span]
             t2 == [k |-> "cite", x |-> e.x, url |-> e.url, span |-> d.span]
  <2>1. r = CL!Ok(d, <<t1>>) \/ r = CL!Ok(d, <<t2>>)
    BY <1>2, <1>7 DEF r, CL!Delta
  <2>2. t1.k \in {"text", "cite"} /\ t2.k \in {"text", "cite"}
    OBVIOUS
  <2> HIDE DEF t1, t2
  <2>3. PICK ev : ev.k \in {"text", "cite"} /\ r = CL!Ok(d, <<ev>>)
    BY <2>1, <2>2
  <2>4. Quiet(d, k)
    BY <1>2, <1>7 DEF PartialA
  <2> DEFINE l == Hear(k, ev)
  <2>5. Fit(k, ev) /\ Called(k, ev) = k.call /\ Thought(k, ev) = <<>> /\ ev.k # "call_start" /\ ev.k # "hosted"
    BY <2>3, <2>4 DEF Fit, Called, Thought, Quiet
  <2>6. l.ok = "yes" /\ l.call = k.call /\ l.think = <<>> /\ l.used = k.used /\ l.phase = k.phase
    BY <2>5, <1>4, HearIs
  <2>7. HearAll(k, <<ev>>) = l
    BY HearAt
  <2> HIDE DEF l
  <2>8. PartialA(c, d, l)
    BY <1>2, <1>7, <2>4, <2>6 DEF PartialA, Quiet
  <2>9. c.kind \notin {"thinking", "tool_use"}
    BY <1>2, <1>7
  <2> QED BY <1>4, <1>6, <2>3, <2>6, <2>7, <2>8, <2>9, NeatFew, SeqFew
<1>8. CASE b.kind = "thinking" /\ e.d = "thinking"
  <2> DEFINE g == [text |-> c.x, sig |-> <<>>]
             h == [text |-> b.x, sig |-> b.sig]
             w == [h EXCEPT !.text = Append(@, e.x)]
             f == [d EXCEPT !.thinking[1].text = Append(@, e.x)]
             y == <<e.x>>
             ev == [k |-> "thinking", x |-> y, item |-> d.tid]
             l == Hear(k, ev)
  <2>0. /\ d.tid = b.i /\ d.thinking = <<[text |-> b.x, sig |-> b.sig]>> /\ k.think = Mused(b) /\ d.native = <<>>
        /\ d.call = <<>> /\ d.redacted = <<>> /\ k.call = <<>> /\ b.sig = <<>> /\ c.sig = <<>> /\ c.x = Append(b.x, e.x)
        /\ IsSeq(b.x)
    BY <1>2, <1>8 DEF PartialA
  <2>1. d.thinking # <<>>
    BY <2>0
  <2>2. r = CL!Ok(f, <<ev>>)
    BY <1>8, <2>1 DEF r, CL!Delta
  <2>3. IsClaude(f) /\ f.phase = d.phase /\ f.calls = d.calls /\ f.redacted = d.redacted /\ f.native = d.native
        /\ f.call = d.call /\ f.tid = d.tid /\ f.thinking = [d.thinking EXCEPT ![1] = w]
    <3>1. d.thinking[1] = h
      BY <2>0
    <3> QED BY <1>4, <3>1 DEF IsClaude, ClaudeFields
  <2>4. f.thinking = <<g>>
    <3>1. w = g
      <4>1. \A z : [h EXCEPT !.text = z] = [text |-> z, sig |-> b.sig]
        OBVIOUS
      <4>2. h.text = b.x
        OBVIOUS
      <4> HIDE DEF h
      <4> QED BY <2>0, <4>1, <4>2
    <3> HIDE DEF w, g, h
    <3> QED BY <2>0, <2>3, <3>1 DEF h
  <2>5. IsSeq(y) /\ y # <<>>
    BY SeqFew
  <2>6. c.x = b.x \o y /\ IsSeq(c.x) /\ c.x # <<>>
    <3>1. Append(b.x, e.x) = b.x \o y /\ IsSeq(b.x \o y) /\ Len(b.x \o y) = Len(b.x) + 1
      BY <2>0, SeqLast
    <3>2. Len(c.x) # 0
      BY <2>0, <3>1 DEF IsSeq
    <3> QED BY <2>0, <3>1, <3>2
  <2>7. b.x = <<>> => c.x = y
    <3>1. ASSUME b.x = <<>> PROVE <<>> \o y = y
      BY <2>5
    <3> QED BY <2>6, <3>1
  <2> HIDE DEF f, y, g, h, w
  <2>8. ev.k = "thinking" /\ ev.x = y /\ ev.item = b.i
    BY <2>0
  <2> HIDE DEF ev
  <2>9. Fit(k, ev) /\ Called(k, ev) = k.call
    BY <2>5, <2>8 DEF Fit, Called
  <2>10. Thought(k, ev) = <<[item |-> b.i, text |-> c.x]>>
    <3>1. CASE b.x = <<>>
      <4>1. k.think = <<>>
        BY <2>0, <3>1 DEF Mused
      <4> QED BY <2>7, <2>8, <3>1, <4>1 DEF Thought
    <3>2. CASE b.x # <<>>
      <4>1. k.think # <<>> /\ k.think[1].item = b.i /\ k.think[1].text = b.x
        BY <2>0, <3>2 DEF Mused
      <4> QED BY <2>6, <2>8, <4>1 DEF Thought
    <3> QED BY <3>1, <3>2
  <2>11. l.ok = "yes" /\ l.call = k.call /\ l.think = Mused(c) /\ l.used = k.used /\ l.phase = k.phase
    BY <1>2, <1>4, <2>6, <2>8, <2>9, <2>10, HearIs DEF Mused
  <2>12. HearAll(k, <<ev>>) = l
    BY HearAt
  <2> HIDE DEF l
  <2>13. PartialA(c, f, l)
    BY <1>2, <1>8, <2>0, <2>3, <2>4, <2>11 DEF PartialA, g
  <2> QED BY <1>6, <2>2, <2>3, <2>6, <2>11, <2>12, <2>13, NeatFew, SeqFew
<1>9. CASE b.kind = "thinking" /\ e.d = "signature"
  <2> DEFINE g == [text |-> c.x, sig |-> c.sig]
             f == [d EXCEPT !.thinking[1].sig = <<e.x>>]
  <2>0. /\ d.tid = b.i /\ d.thinking = <<[text |-> b.x, sig |-> b.sig]>> /\ k.think = Mused(b) /\ d.native = <<>>
        /\ d.call = <<>> /\ d.redacted = <<>> /\ k.call = <<>> /\ c.sig = <<e.x>> /\ c.x = b.x
        /\ IsSeq(b.x)
    BY <1>2, <1>9 DEF PartialA
  <2>1. d.thinking # <<>>
    BY <2>0
  <2>2. r = CL!Ok(f, <<>>)
    BY <1>9, <2>1 DEF r, CL!Delta
  <2>3. IsClaude(f) /\ f.phase = d.phase /\ f.calls = d.calls /\ f.redacted = d.redacted /\ f.native = d.native
        /\ f.call = d.call /\ f.tid = d.tid /\ f.thinking = [d.thinking EXCEPT ![1].sig = <<e.x>>]
    BY <1>4 DEF IsClaude, ClaudeFields
  <2>4. f.thinking = <<g>>
    BY <2>0, <2>3
  <2> HIDE DEF f, g
  <2>5. Mused(c) = Mused(b)
    BY <1>2, <2>0 DEF Mused
  <2>13. PartialA(c, f, k)
    BY <1>2, <1>9, <2>0, <2>3, <2>4, <2>5 DEF PartialA, g
  <2> QED BY <1>4, <1>6, <2>0, <2>2, <2>3, <2>13, NeatFew, SeqFew
<1>10. CASE b.kind = "native"
  <2>0. NativeOK(d.native) /\ d.native # <<>> /\ d.thinking = <<>> /\ d.call = <<>> /\ d.redacted = <<>> /\ k.call = <<>>
        /\ k.think = <<>>
    BY <1>2, <1>10 DEF PartialA
  <2>1. PICK n : IsBlock(n) /\ n.kind = "native" /\ d.native = <<n>>
    BY <2>0 DEF NativeOK
  <2> DEFINE f == [d EXCEPT !.native[1].body = Append(@, e.x)]
             w == [n EXCEPT !.body = Append(@, e.x)]
             q == [d.native EXCEPT ![1] = w]
  <2>2. r = CL!Ok(f, <<>>)
    BY <1>2, <1>10, <2>0 DEF r, CL!Delta
  <2>3. IsBlock(w) /\ w.kind = "native"
    BY <2>1 DEF IsBlock, BlockFields
  <2>4. IsClaude(f) /\ f.phase = d.phase /\ f.calls = d.calls /\ f.redacted = d.redacted /\ f.native = q
        /\ f.call = d.call /\ f.thinking = d.thinking
    <3>1. d.native[1] = n
      BY <2>1
    <3> QED BY <1>4, <3>1 DEF IsClaude, ClaudeFields
  <2> HIDE DEF w, f
  <2>5. q = <<w>>
    BY <2>1
  <2> HIDE DEF q
  <2>6. NativeOK(f.native) /\ f.native # <<>>
    BY <2>3, <2>4, <2>5 DEF NativeOK
  <2>7. PartialA(c, f, k)
    BY <1>2, <1>10, <2>0, <2>4, <2>6 DEF PartialA
  <2>8. c.kind \notin {"thinking", "tool_use"}
    BY <1>2, <1>10
  <2> QED BY <1>4, <1>6, <2>2, <2>4, <2>7, <2>8, NeatFew, SeqFew
<1>11. CASE b.kind = "tool_use"
  <2> DEFINE call == [index |-> b.i, id |-> b.i, args |-> b.x]
             more == [index |-> c.i, id |-> c.i, args |-> c.x]
             w == [call EXCEPT !.args = Append(@, e.x)]
             f == [d EXCEPT !.call[1].args = Append(@, e.x)]
             ev == [k |-> "call_args", index |-> d.call[1].index, x |-> e.x]
             l == Hear(k, ev)
  <2>0. /\ d.thinking = <<>> /\ d.native = <<>> /\ d.redacted = <<>> /\ k.think = <<>> /\ d.call = <<call>> /\ k.call = <<call>>
        /\ IsSeq(b.x) /\ c.x = Append(b.x, e.x) /\ e.d = "json" /\ \A j \in 1..Len(d.calls) : d.calls[j] # b.i
    BY <1>2, <1>11 DEF PartialA
  <2>1. d.call # <<>>
    BY <2>0
  <2>2. r = CL!Ok(f, <<ev>>)
    BY <2>0, <2>1 DEF r, CL!Delta
  <2>3. IsClaude(f) /\ f.phase = d.phase /\ f.calls = d.calls /\ f.redacted = d.redacted /\ f.native = d.native
        /\ f.thinking = d.thinking /\ f.call = [d.call EXCEPT ![1] = w]
    <3>1. d.call[1] = call
      BY <2>0
    <3> QED BY <1>4, <3>1 DEF IsClaude, ClaudeFields
  <2>4. f.call = <<more>>
    <3>1. w = more
      BY <1>2, <2>0, SMTT(30)
    <3> HIDE DEF w, more, call
    <3> QED BY <2>0, <2>3, <3>1 DEF call
  <2>5. ev.k = "call_args" /\ ev.index = b.i /\ ev.x = e.x
    BY <2>0
  <2>6. IsSeq(c.x)
    <3>1. Append(b.x, e.x) = b.x \o <<e.x>> /\ IsSeq(b.x \o <<e.x>>)
      BY <2>0, SeqLast
    <3> QED BY <2>0, <3>1
  <2>7. k.call # <<>> /\ k.call[1].index = b.i /\ k.call[1].id = b.i /\ k.call[1].args = b.x
    BY <2>0
  <2> HIDE DEF f, ev
  <2>8. Fit(k, ev) /\ Called(k, ev) = <<more>> /\ Thought(k, ev) = k.think
    BY <1>2, <2>0, <2>5, <2>7 DEF Fit, Called, Thought
  <2>9. l.ok = "yes" /\ l.call = <<more>> /\ l.think = k.think /\ l.used = k.used /\ l.phase = k.phase
    BY <1>4, <2>5, <2>8, HearIs
  <2>10. HearAll(k, <<ev>>) = l
    BY HearAt
  <2> HIDE DEF l
  <2> HIDE DEF w, call
  <2>11. PartialA(c, f, l)
    <3>1. f.call = <<[index |-> c.i, id |-> c.i, args |-> c.x]>> /\ l.call = <<[index |-> c.i, id |-> c.i, args |-> c.x]>>
      BY <2>4, <2>9
    <3>2. c.kind = "tool_use" /\ \A j \in 1..Len(f.calls) : f.calls[j] # c.i
      BY <1>2, <1>11, <2>0, <2>3
    <3>3. f.thinking = <<>> /\ f.native = <<>> /\ f.redacted = <<>> /\ l.think = <<>>
      BY <2>0, <2>3, <2>9
    <3> QED BY <3>1, <3>2, <3>3 DEF PartialA
  <2> QED BY <1>6, <2>2, <2>3, <2>6, <2>9, <2>10, <2>11, NeatFew, SeqFew
<1> QED BY <1>2, <1>7, <1>8, <1>9, <1>10, <1>11, SMTT(30)

-----------------------------------------------------------------------------
\* An outcome that stands for another.
SameOut(r, q) == r.err = FALSE /\ r.s = q.s /\ r.out = q.out

\* An operation that does nothing, before or after another.
LEMMA JoinsClaude ==
  /\ \A r : r.err = FALSE /\ IsSeq(r.out) => SameOut(CL!Joined(r, CL!Ok(r.s, <<>>)), r)
  /\ \A r, q, w : SameOut(r, q) /\ SameOut(w, CL!Ok(q.s, <<>>)) /\ IsSeq(q.out) => SameOut(CL!Joined(r, w), q)
  /\ \A r, d, w, q : SameOut(r, CL!Ok(d, <<>>)) /\ SameOut(w, q) /\ IsSeq(q.out) => SameOut(CL!Joined(r, w), q)
<1>1. ASSUME NEW r, NEW q, NEW w, SameOut(r, q), SameOut(w, CL!Ok(q.s, <<>>)), IsSeq(q.out)
      PROVE  SameOut(CL!Joined(r, w), q)
  <2>1. w.err = FALSE /\ w.s = q.s /\ w.out = <<>> /\ r.err = FALSE /\ r.out = q.out
    BY <1>1 DEF SameOut, CL!Ok
  <2>2. q.out \o <<>> = q.out
    BY <1>1, SeqEmptyRight
  <2> QED BY <2>1, <2>2 DEF SameOut, CL!Joined
<1>2. ASSUME NEW r, NEW d, NEW w, NEW q, SameOut(r, CL!Ok(d, <<>>)), SameOut(w, q), IsSeq(q.out)
      PROVE  SameOut(CL!Joined(r, w), q)
  <2>1. r.err = FALSE /\ r.out = <<>> /\ w.err = FALSE /\ w.s = q.s /\ w.out = q.out
    BY <1>2 DEF SameOut, CL!Ok
  <2>2. <<>> \o q.out = q.out
    <3>1. q.out \in Seq(Elements(q.out))
      BY <1>2, SeqIn
    <3> QED BY <3>1
  <2> QED BY <2>1, <2>2 DEF SameOut, CL!Joined
<1>3. ASSUME NEW r, r.err = FALSE, IsSeq(r.out) PROVE SameOut(CL!Joined(r, CL!Ok(r.s, <<>>)), r)
  <2>1. SameOut(r, r) /\ SameOut(CL!Ok(r.s, <<>>), CL!Ok(r.s, <<>>))
    BY <1>3 DEF SameOut, CL!Ok
  <2> QED BY <1>1, <1>3, <2>1
<1> QED BY <1>1, <1>2, <1>3

\* What is not open closes to nothing.
LEMMA ClosesNothing ==
  ASSUME NEW d, IsClaude(d)
  PROVE  /\ d.thinking = <<>> => SameOut(CL!CloseThinking(d), CL!Ok(d, <<>>))
         /\ d.redacted = <<>> => \A i : SameOut(CL!CloseRedacted(d, i), CL!Ok(d, <<>>))
         /\ d.native = <<>> => SameOut(CL!CloseNative(d), CL!Ok(d, <<>>))
         /\ d.call = <<>> => SameOut(CL!CloseCall(d), CL!Ok(d, <<>>))
<1>1. d.thinking = <<>> => SameOut(CL!CloseThinking(d), CL!Ok(d, <<>>))
  BY DEF CL!CloseThinking, SameOut, CL!Ok
<1>2. d.redacted = <<>> => \A i : SameOut(CL!CloseRedacted(d, i), CL!Ok(d, <<>>))
  BY DEF CL!CloseRedacted, SameOut, CL!Ok
<1>3. d.call = <<>> => SameOut(CL!CloseCall(d), CL!Ok(d, <<>>))
  BY DEF CL!CloseCall, SameOut, CL!Ok
<1>4. ASSUME d.native = <<>> PROVE SameOut(CL!CloseNative(d), CL!Ok(d, <<>>))
  <2> DEFINE f == [d EXCEPT !.native = <<>>]
             out == [j \in 1..Len(d.native) |-> [k |-> "native_block", block |-> d.native[j]]]
  <2>1. f = d
    BY <1>4 DEF IsClaude, ClaudeFields
  <2>2. out = <<>>
    BY <1>4
  <2>3. CL!CloseNative(d) = CL!Ok(f, out)
    BY DEF CL!CloseNative
  <2> HIDE DEF f, out
  <2> QED BY <2>1, <2>2, <2>3 DEF SameOut, CL!Ok
<1> QED BY <1>1, <1>2, <1>3, <1>4

\* One block at most is open: a stop closes that.
LEMMA StopIs ==
  ASSUME NEW d, IsClaude(d), NEW e
  PROVE  /\ d.redacted = <<>> /\ d.native = <<>> /\ d.call = <<>> =>
              LET x == CL!CloseThinking(d)
              IN  IsClaude(x.s) /\ x.s.redacted = <<>> /\ x.s.native = <<>> /\ x.s.call = <<>> /\ IsSeq(x.out) /\ x.err = FALSE
                  => SameOut(CL!BlockStop(d, e), x)
         /\ d.thinking = <<>> /\ d.native = <<>> /\ d.call = <<>> =>
              LET x == CL!CloseRedacted(d, e.i)
              IN  IsClaude(x.s) /\ x.s.native = <<>> /\ x.s.call = <<>> /\ IsSeq(x.out) /\ x.err = FALSE
                  => SameOut(CL!BlockStop(d, e), x)
         /\ d.thinking = <<>> /\ d.redacted = <<>> /\ d.call = <<>> =>
              LET x == CL!CloseNative(d)
              IN  IsClaude(x.s) /\ x.s.call = <<>> /\ IsSeq(x.out) /\ x.err = FALSE
                  => SameOut(CL!BlockStop(d, e), x)
         /\ d.thinking = <<>> /\ d.redacted = <<>> /\ d.native = <<>> =>
              LET x == CL!CloseCall(d)
              IN  IsSeq(x.out) /\ x.err = FALSE => SameOut(CL!BlockStop(d, e), x)
<1> DEFINE e1 == CL!CloseThinking(d)
           e2 == CL!Joined(e1, CL!CloseRedacted(e1.s, e.i))
           e3 == CL!Joined(e2, CL!CloseNative(e2.s))
           e4 == CL!Joined(e3, CL!CloseCall(e3.s))
           N(s) == CL!Ok(s, <<>>)
<1>1. CL!BlockStop(d, e) = e4
  BY DEF CL!BlockStop, CL!Then
<1>2. \A s : N(s).s = s /\ N(s).out = <<>> /\ IsSeq(N(s).out)
  BY SeqFew DEF CL!Ok
<1>3. \A r, q, w : SameOut(r, q) /\ SameOut(w, N(q.s)) /\ IsSeq(q.out) => SameOut(CL!Joined(r, w), q)
  BY JoinsClaude
<1>4. \A r, s, w, q : SameOut(r, N(s)) /\ SameOut(w, q) /\ IsSeq(q.out) => SameOut(CL!Joined(r, w), q)
  BY JoinsClaude
<1>5. \A r, q : SameOut(r, q) => r.s = q.s
  BY DEF SameOut
<1>6. \A r : r.err = FALSE => SameOut(r, r)
  BY DEF SameOut
<1>7. \A s : IsClaude(s) =>
        /\ s.thinking = <<>> => SameOut(CL!CloseThinking(s), N(s))
        /\ s.redacted = <<>> => \A i : SameOut(CL!CloseRedacted(s, i), N(s))
        /\ s.native = <<>> => SameOut(CL!CloseNative(s), N(s))
        /\ s.call = <<>> => SameOut(CL!CloseCall(s), N(s))
  BY ClosesNothing
<1> HIDE DEF N
<1>8. ASSUME d.redacted = <<>>, d.native = <<>>, d.call = <<>>, NEW x, x = CL!CloseThinking(d),
             IsClaude(x.s), x.s.redacted = <<>>, x.s.native = <<>>, x.s.call = <<>>, IsSeq(x.out), x.err = FALSE
      PROVE  SameOut(e4, x)
  <2>1. SameOut(e1, x)
    BY <1>6, <1>8
  <2> HIDE DEF e1
  <2>2. SameOut(e2, x)
    BY <1>3, <1>5, <1>7, <1>8, <2>1
  <2> HIDE DEF e2
  <2>3. SameOut(e3, x)
    BY <1>3, <1>5, <1>7, <1>8, <2>2
  <2> HIDE DEF e3
  <2> QED BY <1>3, <1>5, <1>7, <1>8, <2>3
<1>9. ASSUME d.thinking = <<>>, d.native = <<>>, d.call = <<>>, NEW x, x = CL!CloseRedacted(d, e.i),
             IsClaude(x.s), x.s.native = <<>>, x.s.call = <<>>, IsSeq(x.out), x.err = FALSE
      PROVE  SameOut(e4, x)
  <2>1. SameOut(e1, N(d)) /\ e1.s = d
    BY <1>2, <1>5, <1>7, <1>9
  <2> HIDE DEF e1
  <2>2. SameOut(e2, x)
    BY <1>4, <1>6, <1>9, <2>1
  <2> HIDE DEF e2
  <2>3. SameOut(e3, x)
    BY <1>3, <1>5, <1>7, <1>9, <2>2
  <2> HIDE DEF e3
  <2> QED BY <1>3, <1>5, <1>7, <1>9, <2>3
<1>10. ASSUME d.thinking = <<>>, d.redacted = <<>>
       PROVE  SameOut(e2, N(d)) /\ e2.s = d
  <2>1. SameOut(e1, N(d)) /\ e1.s = d
    BY <1>2, <1>5, <1>7, <1>10
  <2> HIDE DEF e1
  <2>2. SameOut(CL!CloseRedacted(d, e.i), N(d))
    BY <1>7, <1>10
  <2>3. SameOut(e2, N(d))
    BY <1>2, <1>4, <2>1, <2>2
  <2> QED BY <1>2, <1>5, <2>3
<1>11. ASSUME d.thinking = <<>>, d.redacted = <<>>, d.call = <<>>, NEW x, x = CL!CloseNative(d),
             IsClaude(x.s), x.s.call = <<>>, IsSeq(x.out), x.err = FALSE
      PROVE  SameOut(e4, x)
  <2>1. SameOut(e2, N(d)) /\ e2.s = d
    BY <1>10, <1>11
  <2> HIDE DEF e2
  <2>3. SameOut(e3, x)
    BY <1>4, <1>6, <1>11, <2>1
  <2> HIDE DEF e3
  <2> QED BY <1>3, <1>5, <1>7, <1>11, <2>3
<1>12. ASSUME d.thinking = <<>>, d.redacted = <<>>, d.native = <<>>, NEW x, x = CL!CloseCall(d), IsSeq(x.out), x.err = FALSE
      PROVE  SameOut(e4, x)
  <2>1. SameOut(e2, N(d)) /\ e2.s = d
    BY <1>10, <1>12
  <2> HIDE DEF e2
  <2>2. SameOut(CL!CloseNative(d), N(d))
    BY <1>7, <1>12
  <2>3. SameOut(e3, N(d)) /\ e3.s = d
    BY <1>2, <1>4, <1>5, <2>1, <2>2
  <2> HIDE DEF e3
  <2> QED BY <1>4, <1>6, <1>12, <2>3
<1> HIDE DEF e4
<1> QED BY <1>1, <1>8, <1>9, <1>11, <1>12

-----------------------------------------------------------------------------
\* A block ends.
LEMMA StopsFeed ==
  ASSUME NEW u, NEW d, NEW k, RelA(u, d, k), NEW say, StopsA(u, say)
  PROVE  FeedsA(say.u, k, CL!BlockStop(d, say.e))
<1> DEFINE v == say.u
           e == say.e
           b == u.block[1]
           r == CL!BlockStop(d, e)
<1>1. CoreA(u, d, k) /\ OpenA(u, d, k)
  BY DEF RelA, StopsA
<1>2. /\ v.n = u.n /\ v.block = <<>> /\ b.i = v.n /\ b.i # 0 /\ b.i \in Nat
      /\ PartialA(b, d, k) /\ (b.kind \in {"thinking", "tool_use"} => IsSeq(b.x)) /\ (b.kind = "thinking" => b.sig # <<>>)
  BY <1>1 DEF StopsA, OpenA, CoreA
<1>3. CoreA(v, d, k)
  BY <1>1, <1>2 DEF CoreA
<1>4. HearAll(k, <<>>) = k /\ IsClaude(d) /\ k.ok = "yes"
  BY <1>1, HearAt DEF CoreA
<1>5. SUFFICES FeedsA(v, k, r)
  OBVIOUS
<1> HIDE DEF v, e, b, r
<1>6. ASSUME NEW x, SameOut(r, x), NEW out, x.out = out, IsSeq(out), Neat(out), NEW l, l = HearAll(k, out),
             NEW f, x.s = f, IsClaude(f), f.phase = d.phase, f.calls = d.calls, Quiet(f, l),
             l.ok = "yes", l.used = k.used, l.phase = k.phase
      PROVE  FeedsA(v, k, r)
  <2>1. r.err = FALSE /\ r.s = f /\ r.out = out
    BY <1>6 DEF SameOut
  <2>2. CoreA(v, f, l)
    BY <1>3, <1>6 DEF CoreA
  <2> QED BY <1>2, <1>6, <2>1, <2>2 DEF FeedsA, RelA
<1>7. CASE b.kind \in {"text", "search", "result"}
  <2>1. Quiet(d, k)
    BY <1>2, <1>7 DEF PartialA
  <2>2. d.thinking = <<>> /\ d.redacted = <<>> /\ d.native = <<>> /\ d.call = <<>>
    BY <2>1 DEF Quiet
  <2> DEFINE x == CL!CloseCall(d)
  <2>3. x = CL!Ok(d, <<>>)
    BY <2>2 DEF CL!CloseCall
  <2>4. x.s = d /\ x.out = <<>> /\ x.err = FALSE /\ IsSeq(x.out)
    BY <2>3, SeqFew DEF CL!Ok
  <2>5. SameOut(r, x)
    BY <1>4, <2>2, <2>4, StopIs DEF r
  <2> HIDE DEF x
  <2> QED BY <1>4, <1>6, <2>1, <2>4, <2>5, NeatFew, SeqFew
<1>8. CASE b.kind = "thinking"
  <2> DEFINE x == CL!CloseThinking(d)
             open == [text |-> b.x, sig |-> b.sig]
             closed == [d EXCEPT !.thinking = <<>>]
             taken == [closed EXCEPT !.signed = Append(@, open)]
             v1 == [k |-> "signature", sig |-> open.sig[1]]
             w1 == CL!Envelope(d, d.tid, open.text, open.sig[1])
  <2>0. /\ d.thinking = <<open>> /\ k.think = Mused(b) /\ d.native = <<>>
        /\ d.call = <<>> /\ d.redacted = <<>> /\ k.call = <<>> /\ b.sig # <<>>
    BY <1>2, <1>8 DEF PartialA
  <2>1. d.thinking # <<>> /\ d.thinking[1] = open
    BY <2>0
  <2>2. x = IF b.x = <<>> THEN CL!Ok(closed, <<>>) ELSE CL!Ok(taken, <<v1, w1>>)
    BY <2>0, <2>1 DEF CL!CloseThinking
  <2>3. IsClaude(closed) /\ closed.thinking = <<>> /\ closed.redacted = <<>> /\ closed.native = <<>> /\ closed.call = <<>>
        /\ closed.phase = d.phase /\ closed.calls = d.calls
    BY <1>4, <2>0 DEF IsClaude, ClaudeFields
  <2>4. IsClaude(taken) /\ taken.thinking = <<>> /\ taken.redacted = <<>> /\ taken.native = <<>> /\ taken.call = <<>>
        /\ taken.phase = d.phase /\ taken.calls = d.calls
    <3> HIDE DEF closed
    <3> QED BY <2>3 DEF IsClaude, ClaudeFields
  <2>5. CASE b.x = <<>>
    <3>1. x.s = closed /\ x.out = <<>> /\ x.err = FALSE /\ IsSeq(x.out)
      BY <2>2, <2>5, SeqFew DEF CL!Ok
    <3> HIDE DEF x, closed
    <3>2. SameOut(r, x)
      BY <1>4, <2>0, <2>3, <3>1, StopIs DEF r, x
    <3>3. Quiet(closed, k)
      BY <2>0, <2>3, <2>5 DEF Quiet, Mused
    <3> QED BY <1>4, <1>6, <2>3, <3>1, <3>2, <3>3, NeatFew, SeqFew
  <2>6. CASE b.x # <<>>
    <3>1. x.s = taken /\ x.out = <<v1, w1>> /\ x.err = FALSE /\ IsSeq(x.out)
      BY <2>2, <2>6, SeqFew DEF CL!Ok
    <3>4. v1.k = "signature" /\ w1.k = "reasoning" /\ IsBlock(w1.item) /\ w1.item.kind = "reasoning"
          /\ w1.item.cites = <<>> /\ w1.item.body = b.x
      BY DEF CL!Envelope, CL!Block, IsBlock, BlockFields
    <3> DEFINE l1 == Hear(k, v1)
               l2 == Hear(l1, w1)
    <3> HIDE DEF x, taken, v1, w1
    <3>2. SameOut(r, x)
      BY <1>4, <2>0, <2>4, <3>1, StopIs DEF r, x
    <3>5. Fit(k, v1) /\ Called(k, v1) = k.call /\ Thought(k, v1) = k.think
      BY <3>4 DEF Fit, Called, Thought
    <3>6. l1.ok = "yes" /\ l1.call = k.call /\ l1.think = k.think /\ l1.used = k.used /\ l1.phase = k.phase
      BY <1>4, <3>4, <3>5, HearIs
    <3>7. k.think # <<>> => k.think[1].text = b.x
      BY <2>0 DEF Mused
    <3> HIDE DEF l1
    <3>8. Fit(l1, w1) /\ Called(l1, w1) = l1.call /\ Thought(l1, w1) = <<>>
      BY <3>4, <3>6, <3>7 DEF Fit, Called, Thought
    <3>9. l2.ok = "yes" /\ l2.call = k.call /\ l2.think = <<>> /\ l2.used = k.used /\ l2.phase = k.phase
      BY <3>4, <3>6, <3>8, HearIs
    <3>10. HearAll(k, <<v1, w1>>) = l2
      BY HearTwo DEF l1
    <3> HIDE DEF l2
    <3>3. Quiet(taken, l2)
      BY <2>0, <2>4, <3>9 DEF Quiet
    <3>11. Neat(<<v1, w1>>)
      BY <3>4, NeatFew
    <3> QED BY <1>4, <1>6, <2>4, <3>1, <3>2, <3>3, <3>9, <3>10, <3>11
  <2> QED BY <2>5, <2>6
<1>9. CASE b.kind = "redacted"
  <2> DEFINE i == e.i
             x == CL!CloseRedacted(d, i)
             f == [d EXCEPT !.redacted = <<>>, !.signed = Append(@, [text |-> <<>>, sig |-> d.redacted])]
             w1 == CL!Envelope(d, i, <<>>, d.redacted[1])
             l == Hear(k, w1)
  <2>0. /\ d.redacted # <<>> /\ d.thinking = <<>> /\ d.native = <<>> /\ d.call = <<>> /\ k.call = <<>> /\ k.think = <<>>
    <3>1. PICK g : d.redacted = <<g>>
      BY <1>2, <1>9 DEF PartialA
    <3> QED BY <1>2, <1>9, <3>1 DEF PartialA
  <2>1. x = CL!Ok(f, <<w1>>)
    BY <2>0 DEF CL!CloseRedacted
  <2>2. x.s = f /\ x.out = <<w1>> /\ x.err = FALSE /\ IsSeq(x.out)
    BY <2>1, SeqFew DEF CL!Ok
  <2>3. IsClaude(f) /\ f.thinking = <<>> /\ f.redacted = <<>> /\ f.native = <<>> /\ f.call = <<>>
        /\ f.phase = d.phase /\ f.calls = d.calls
    BY <1>4, <2>0 DEF IsClaude, ClaudeFields
  <2>4. w1.k = "reasoning" /\ IsBlock(w1.item) /\ w1.item.kind = "reasoning" /\ w1.item.cites = <<>>
    BY DEF CL!Envelope, CL!Block, IsBlock, BlockFields
  <2> HIDE DEF x, f, w1
  <2>5. SameOut(r, x)
    BY <1>4, <2>0, <2>2, <2>3, StopIs DEF r, x
  <2>6. Fit(k, w1) /\ Called(k, w1) = k.call /\ Thought(k, w1) = <<>>
    BY <2>0, <2>4 DEF Fit, Called, Thought
  <2>7. l.ok = "yes" /\ l.call = <<>> /\ l.think = <<>> /\ l.used = k.used /\ l.phase = k.phase
    BY <1>4, <2>0, <2>4, <2>6, HearIs
  <2>8. HearAll(k, <<w1>>) = l
    BY HearAt
  <2> HIDE DEF l
  <2>9. Quiet(f, l)
    BY <2>3, <2>7 DEF Quiet
  <2> QED BY <1>6, <2>2, <2>3, <2>5, <2>7, <2>8, <2>9, NeatFew
<1>10. CASE b.kind = "native"
  <2>0. NativeOK(d.native) /\ d.native # <<>> /\ d.thinking = <<>> /\ d.call = <<>> /\ d.redacted = <<>> /\ k.call = <<>>
        /\ k.think = <<>>
    BY <1>2, <1>10 DEF PartialA
  <2>1. PICK n : IsBlock(n) /\ n.kind = "native" /\ d.native = <<n>>
    BY <2>0 DEF NativeOK
  <2> DEFINE x == CL!CloseNative(d)
             f == [d EXCEPT !.native = <<>>]
             ev == [k |-> "native_block", block |-> n]
             out == [j \in 1..Len(d.native) |-> [k |-> "native_block", block |-> d.native[j]]]
             l == Hear(k, ev)
  <2>2. out = <<ev>>
    BY <2>1
  <2>3. x = CL!Ok(f, out)
    BY DEF CL!CloseNative
  <2>4. x.s = f /\ x.out = <<ev>> /\ x.err = FALSE /\ IsSeq(x.out)
    <3> HIDE DEF f, out, ev
    <3> QED BY <2>2, <2>3, SeqFew DEF CL!Ok
  <2>5. IsClaude(f) /\ f.thinking = <<>> /\ f.redacted = <<>> /\ f.native = <<>> /\ f.call = <<>>
        /\ f.phase = d.phase /\ f.calls = d.calls
    BY <1>4, <2>0 DEF IsClaude, ClaudeFields
  <2>6. ev.k = "native_block" /\ EventOK(ev)
    BY <2>1 DEF EventOK
  <2> HIDE DEF x, f, ev
  <2>7. SameOut(r, x)
    BY <1>4, <2>0, <2>4, <2>5, StopIs DEF r, x
  <2>8. Fit(k, ev) /\ Called(k, ev) = k.call /\ Thought(k, ev) = k.think
    BY <2>6 DEF Fit, Called, Thought
  <2>9. l.ok = "yes" /\ l.call = <<>> /\ l.think = <<>> /\ l.used = k.used /\ l.phase = k.phase
    BY <1>4, <2>0, <2>6, <2>8, HearIs
  <2>10. HearAll(k, <<ev>>) = l
    BY HearAt
  <2> HIDE DEF l
  <2>11. Quiet(f, l)
    BY <2>5, <2>9 DEF Quiet
  <2> QED BY <1>6, <2>4, <2>5, <2>7, <2>9, <2>10, <2>11, NeatFew
<1>11. CASE b.kind = "tool_use"
  <2> DEFINE call == [index |-> b.i, id |-> b.i, args |-> b.x]
             x == CL!CloseCall(d)
             closed == [d EXCEPT !.call = <<>>]
             f == [closed EXCEPT !.calls = Append(@, b.i)]
             y == IF b.x = <<>> THEN <<"{}">> ELSE b.x
             v1 == [k |-> "call_args", index |-> b.i, x |-> "{}"]
             w1 == [k |-> "call_end", index |-> b.i, id |-> b.i, args |-> y]
             out == (IF b.x = <<>> THEN <<v1>> ELSE <<>>) \o <<w1>>
  <2>0. /\ d.thinking = <<>> /\ d.native = <<>> /\ d.redacted = <<>> /\ k.think = <<>> /\ d.call = <<call>> /\ k.call = <<call>>
        /\ IsSeq(b.x) /\ \A j \in 1..Len(d.calls) : d.calls[j] # b.i
    BY <1>2, <1>11 DEF PartialA
  <2>1. d.call # <<>> /\ d.call[1] = call
    BY <2>0
  <2>2. b.i \notin CL!Range(d.calls)
    BY <1>3, <2>0 DEF CL!Range, CoreA, IsSeq
  <2>3. x = CL!Ok(f, out)
    BY <2>1, <2>2 DEF CL!CloseCall
  <2>4. IsClaude(closed) /\ closed.calls = d.calls /\ closed.thinking = <<>> /\ closed.redacted = <<>>
        /\ closed.native = <<>> /\ closed.call = <<>> /\ closed.phase = d.phase
    BY <1>4, <2>0 DEF IsClaude, ClaudeFields
  <2>5. IsClaude(f) /\ f.calls = Append(d.calls, b.i) /\ f.thinking = <<>> /\ f.redacted = <<>>
        /\ f.native = <<>> /\ f.call = <<>> /\ f.phase = d.phase
    <3> HIDE DEF closed
    <3> QED BY <2>4 DEF IsClaude, ClaudeFields
  <2>6. v1.k = "call_args" /\ v1.index = b.i /\ v1.x = "{}" /\ w1.k = "call_end" /\ w1.index = b.i /\ w1.id = b.i /\ w1.args = y
    OBVIOUS
  <2>7. k.call # <<>> /\ k.call[1].index = b.i /\ k.call[1].id = b.i /\ k.call[1].args = b.x
    BY <2>0
  <2>8. call = [index |-> b.i, id |-> b.i, args |-> b.x]
    OBVIOUS
  <2> HIDE DEF v1, w1, f, x, call
  <2>9. IsSeq(out) /\ Neat(out)
    <3>1. CASE b.x = <<>>
      <4>1. out = <<v1, w1>>
        <5>1. out = <<v1>> \o <<w1>>
          BY <3>1
        <5> HIDE DEF out
        <5>2. IsSeq(<<v1>>) /\ IsSeq(<<w1>>) /\ IsSeq(<<v1, w1>>) /\ Len(<<v1>>) = 1 /\ Len(<<w1>>) = 1
          BY SeqFew
        <5>3. out \in Seq({v1, w1}) /\ Len(out) = 2 /\ out[1] = v1 /\ out[2] = w1
          BY <5>1
        <5> QED BY <5>3
      <4> QED BY <2>6, <4>1, SeqFew, NeatFew
    <3>2. CASE b.x # <<>>
      <4>1. out = <<w1>>
        BY <3>2
      <4> QED BY <4>1, SeqFew, NeatFew
    <3> QED BY <3>1, <3>2
  <2>10. PICK l : /\ HearAll(k, out) = l /\ l.ok = "yes" /\ l.call = <<>> /\ l.think = <<>> /\ l.used = k.used
                  /\ l.phase = k.phase
    <3> DEFINE Last1(m) == m.ok = "yes" /\ m.call = <<[index |-> b.i, id |-> b.i, args |-> y]>> /\ m.think = <<>>
                           /\ m.used = k.used /\ m.phase = k.phase
    <3>1. ASSUME NEW m, Last1(m)
          PROVE  LET l == Hear(m, w1)
                 IN  l.ok = "yes" /\ l.call = <<>> /\ l.think = <<>> /\ l.used = k.used /\ l.phase = k.phase
      <4>1. Fit(m, w1) /\ Called(m, w1) = <<>> /\ Thought(m, w1) = <<>>
        BY <2>6, <3>1 DEF Fit, Called, Thought
      <4> QED BY <2>6, <3>1, <4>1, HearIs
    <3>2. CASE b.x = <<>>
      <4> DEFINE l1 == Hear(k, v1)
      <4>1. HearAll(k, out) = Hear(l1, w1)
        <5>1. out = <<v1>> \o <<w1>>
          BY <3>2
        <5> HIDE DEF out
        <5>2. HearAll(k, <<v1>>) = l1 /\ \A m : HearAll(m, <<w1>>) = Hear(m, w1)
          BY HearAt
        <5>3. HearAll(k, <<v1>> \o <<w1>>) = HearAll(HearAll(k, <<v1>>), <<w1>>)
          BY HearAt, SeqFew
        <5> QED BY <5>1, <5>2, <5>3
      <4>2. Append(<<>>, "{}") = <<"{}">>
        OBVIOUS
      <4>3. Fit(k, v1) /\ Thought(k, v1) = <<>> /\ Called(k, v1) = <<[index |-> b.i, id |-> b.i, args |-> y]>>
        BY <2>0, <2>6, <2>7, <3>2, <4>2 DEF Fit, Called, Thought
      <4>4. Last1(l1)
        BY <1>4, <2>6, <4>3, HearIs
      <4> HIDE DEF l1, out
      <4> QED BY <3>1, <4>1, <4>4
    <3>3. CASE b.x # <<>>
      <4>1. out = <<w1>>
        BY <3>3
      <4>2. HearAll(k, out) = Hear(k, w1)
        BY <4>1, HearAt
      <4>3. Last1(k)
        BY <1>4, <2>0, <2>8, <3>3
      <4> HIDE DEF out
      <4> QED BY <3>1, <4>2, <4>3
    <3> QED BY <3>2, <3>3
  <2>11. x.s = f /\ x.out = out /\ x.err = FALSE /\ IsSeq(x.out)
    <3> HIDE DEF out
    <3> QED BY <2>3, <2>9 DEF CL!Ok
  <2> HIDE DEF out
  <2>12. SameOut(r, x)
    BY <1>4, <2>0, <2>11, StopIs DEF r, x
  <2>13. r.err = FALSE /\ r.s = f /\ r.out = out
    BY <2>11, <2>12 DEF SameOut
  <2>14. IsSeq(f.calls) /\ \A j \in 1..Len(f.calls) : f.calls[j] \in 1..v.n
    <3>1. IsSeq(d.calls) /\ \A j \in 1..Len(d.calls) : d.calls[j] \in 1..v.n
      BY <1>3 DEF CoreA
    <3>2. IsSeq(f.calls) /\ Len(f.calls) = Len(d.calls) + 1 /\ f.calls[Len(d.calls) + 1] = b.i
          /\ f.calls = d.calls \o <<b.i>>
      <4> DEFINE q == d.calls
                 n == b.i
      <4>1. IsSeq(q) /\ f.calls = Append(q, n)
        BY <2>5, <3>1
      <4> HIDE DEF q, n
      <4>2. Len(q \o <<n>>) = Len(q) + 1 /\ (q \o <<n>>)[Len(q) + 1] = n /\ Append(q, n) = q \o <<n>> /\ IsSeq(q \o <<n>>)
        BY <4>1, SeqLast
      <4> QED BY <4>1, <4>2 DEF q, n
    <3>3. \A j \in 1..Len(d.calls) : f.calls[j] = d.calls[j]
      BY <3>1, <3>2, SeqJoin, SeqFew
    <3>4. Len(d.calls) \in Nat /\ b.i \in 1..v.n
      BY <1>2, <3>1 DEF IsSeq
    <3> QED BY <3>1, <3>2, <3>3, <3>4
  <2>15. CoreA(v, f, l) /\ Quiet(f, l)
    BY <1>3, <2>5, <2>10, <2>14 DEF CoreA, Quiet
  <2> QED BY <1>2, <2>9, <2>10, <2>13, <2>15 DEF FeedsA, RelA
<1> QED BY <1>2, <1>7, <1>8, <1>9, <1>10, <1>11 DEF PartialA

-----------------------------------------------------------------------------
\* Whatever Claude says is heard, unless it is an error.
LEMMA ClaudeFeeds ==
  ASSUME NEW u, IsUp(u), NEW d, NEW k, RelA(u, d, k), NEW say \in ClaudeSays(u)
  PROVE  IF say.e.t = "error" THEN CL!Decode(d, say.e).err ELSE FeedsA(say.u, k, CL!Decode(d, say.e))
<1> DEFINE e == say.e
           v == say.u
           r == CL!Decode(d, e)
<1>1. PartA(u) /\ u.n \in Nat
  BY DEF RelA, CoreA, OpenA, PartA
<1>2. OpensA(u, say) \/ GrowsA(u, say) \/ StopsA(u, say) \/ EndsA(u, say)
  BY <1>1, SaysClaude
<1>3. CASE OpensA(u, say)
  <2>1. e.t = "start"
    BY <1>3 DEF OpensA
  <2>2. r = CL!BlockStart(d, e)
    BY <2>1 DEF CL!Decode
  <2>3. FeedsA(v, k, CL!BlockStart(d, e))
    BY <1>3, StartsA
  <2> HIDE DEF r, e, v
  <2> QED BY <2>1, <2>2, <2>3 DEF r, e, v
<1>4. CASE GrowsA(u, say)
  <2>1. e.t = "delta"
    BY <1>4 DEF GrowsA
  <2>2. r = CL!Delta(d, e)
    BY <2>1 DEF CL!Decode
  <2>3. FeedsA(v, k, CL!Delta(d, e))
    BY <1>4, GrowsDelta
  <2> HIDE DEF r, e, v
  <2> QED BY <2>1, <2>2, <2>3, SMTT(30) DEF r, e, v
<1>5. CASE StopsA(u, say)
  <2>1. e.t = "stop"
    BY <1>5 DEF StopsA
  <2>2. r = CL!BlockStop(d, e)
    BY <2>1 DEF CL!Decode
  <2>3. FeedsA(v, k, CL!BlockStop(d, e))
    BY <1>5, StopsFeed
  <2> HIDE DEF r, e, v
  <2> QED BY <2>1, <2>2, <2>3 DEF r, e, v
<1>6. CASE EndsA(u, say)
  <2>1. CASE e.t = "error"
    <3>1. r = CL!Err(d)
      BY <2>1 DEF CL!Decode
    <3> QED BY <2>1, <3>1 DEF CL!Err
  <2>2. CASE e.t # "error"
    <3> DEFINE f == [d EXCEPT !.stop = e.reason]
    <3>1. CoreA(u, d, k) /\ Quiet(d, k) /\ u.block = <<>> /\ v.n = u.n /\ v.block = <<>>
      BY <1>6, <2>2 DEF EndsA, RelA, OpenA
    <3>2. e.t \in {"message_delta", "message_stop"}
      BY <1>6, <2>2 DEF EndsA
    <3>3. r = CL!Ok(f, <<>>) \/ r = CL!Ok(d, <<>>)
      BY <3>2 DEF CL!Decode
    <3>4. /\ IsClaude(f) /\ f.phase = d.phase /\ f.calls = d.calls /\ f.thinking = d.thinking /\ f.native = d.native
          /\ f.call = d.call /\ f.redacted = d.redacted
      BY <3>1 DEF CoreA, IsClaude, ClaudeFields
    <3> HIDE DEF f, v, r, e
    <3>5. RelA(v, f, k) /\ RelA(v, d, k)
      BY <3>1, <3>4 DEF RelA, CoreA, Quiet
    <3>6. r.err = FALSE /\ r.out = <<>> /\ r.s \in {f, d}
      BY <3>3 DEF CL!Ok
    <3>7. HearAll(k, <<>>) = k
      BY HearAt
    <3>8. FeedsA(v, k, r)
      BY <3>5, <3>6, <3>7, NeatFew, SeqFew DEF FeedsA
    <3> QED BY <2>2, <3>8 DEF v, r, e
  <2> QED BY <2>1, <2>2
<1> QED BY <1>2, <1>3, <1>4, <1>5, <1>6

\* A drained decoder closes the answer.
Drains(k, x) == IsSeq(x) /\ Tame(x) /\ HearAll(k, x).ok = "yes" /\ HearAll(k, x).call = <<>>
DropsA(u, k, r) ==
  r.err = FALSE /\ IsSeq(r.out) /\ Tame(r.out) /\ CoreA(u, r.s, HearAll(k, r.out)) /\ Quiet(r.s, HearAll(k, r.out))

\* An open search is dropped.
LEMMA DropStepA ==
  ASSUME NEW u, NEW k, NEW r, DropsA(u, k, r), NEW id
  PROVE  DropsA(u, k, DropStep(r, id))
<1> DEFINE w == CL!Hosted(r.s, id, "dropped")
           l == HearAll(k, r.out)
           j == CL!Joined(r, w)
<1>1. StaysA(u, r.s, l, w)
  BY HostedA DEF DropsA
<1>2. DropStep(r, id) = j
  BY DEF DropStep, CL!Then
<1>3. w.err = FALSE /\ IsSeq(w.out) /\ Tame(w.out) /\ CoreA(u, w.s, HearAll(l, w.out)) /\ Quiet(w.s, HearAll(l, w.out))
  <2> HIDE DEF w, l
  <2> QED BY <1>1 DEF StaysA
<1>4. r.err = FALSE /\ IsSeq(r.out) /\ Tame(r.out)
  BY DEF DropsA
<1>5. j.err = FALSE /\ j.s = w.s /\ j.out = r.out \o w.out
  <2> HIDE DEF w
  <2> QED BY <1>3, <1>4 DEF CL!Joined
<1> HIDE DEF w, j
<1>6. HearAll(k, r.out \o w.out) = HearAll(l, w.out)
  BY <1>3, <1>4, HearAt
<1>7. IsSeq(r.out \o w.out) /\ Tame(r.out \o w.out)
  BY <1>3, <1>4, SeqJoin, TameFew
<1> HIDE DEF l
<1>8. DropsA(u, k, j)
  BY <1>3, <1>5, <1>6, <1>7 DEF DropsA
<1> QED BY <1>2, <1>8

\* The last two events close the answer.
LEMMA FinishHeard ==
  ASSUME NEW k, k.ok = "yes", k.call = <<>>, NEW reason
  PROVE  Drains(k, <<[k |-> "finish", reason |-> reason], [k |-> "usage"]>>)
<1> DEFINE v == [k |-> "finish", reason |-> reason]
           w == [k |-> "usage"]
           l == Hear(k, v)
           m == Hear(l, w)
<1>1. v.k = "finish" /\ w.k = "usage"
  OBVIOUS
<1> HIDE DEF v, w
<1>2. l.ok = "yes" /\ l.call = <<>>
  BY <1>1, HearIs, ZenonT(30) DEF Fit, Called
<1> HIDE DEF l
<1>3. m.ok = "yes" /\ m.call = <<>>
  BY <1>1, <1>2, HearIs, ZenonT(30) DEF Fit, Called
<1>4. HearAll(k, <<v, w>>) = m
  BY HearTwo DEF l
<1> HIDE DEF m
<1>5. Drains(k, <<v, w>>)
  BY <1>1, <1>3, <1>4, TameFew, SeqFew DEF Drains
<1> QED BY <1>5 DEF v, w

\* A Claude decoder that is drained between blocks closes the answer.
LEMMA ClaudeDrains ==
  ASSUME NEW u, NEW d, NEW k, CoreA(u, d, k), Quiet(d, k), IsFiniteSet(DOMAIN d.phase)
  PROVE  Drains(k, CL!Finish(d).out)
<1> DEFINE reason == IF d.stop # "" THEN d.stop
                     ELSE IF d.calls = <<>> THEN "end_turn" ELSE "tool_use"
           open    == {id \in DOMAIN d.phase : reason = "tool_use" /\ CL!PhaseRank(d.phase[id]) < 2}
           ids == CL!Sorted(open)
           dropped == CL!InTurn(DropStep, CL!Ok(d, <<>>), ids)
           end == <<[k |-> "finish", reason |-> reason], [k |-> "usage"]>>
<1>1. CL!Finish(d) = CL!Joined(dropped, CL!Ok(dropped.s, end))
  BY DEF CL!Finish, CL!Then, DropStep
<1>2. IsSeq(ids)
  <2>1. IsFiniteSet(open)
    BY FS_Subset
  <2>2. Cardinality(open) \in Nat
    BY <2>1, FS_CardinalityType
  <2> HIDE DEF open
  <2> QED BY <2>2, SortedSeq
<1> HIDE DEF ids
<1>3. DropsA(u, k, dropped)
  <2>1. ids \in Seq(Elements(ids)) /\ Len(ids) \in Nat
    BY <1>2, SeqIn DEF IsSeq
  <2> DEFINE b == CL!Ok(d, <<>>)
  <2>2. PICK g : DropFold!IsPath(g, b, ids) /\ DropFold!Fold(b, ids) = g[Len(ids)]
    BY <2>1, DropFold!FoldPath, SetInduction DEF DropFold!Induction
  <2>3. DropFold!Fold(b, ids) = dropped
    BY DEF CL!InTurn, DropFold!Fold, CL!MapThenFoldSet, DropFold!MapThenFoldSet, DropFold!Max
  <2>4. DropsA(u, k, b)
    <3>1. HearAll(k, <<>>) = k
      BY HearAt
    <3> QED BY <3>1, SeqFew, TameFew DEF DropsA, CL!Ok
  <2> HIDE DEF b, dropped
  <2> DEFINE SoFar(n) == DropsA(u, k, g[n])
             S == {n \in Nat : n <= Len(ids) => SoFar(n)}
  <2>5. SoFar(0)
    BY <2>2, <2>4 DEF DropFold!IsPath
  <2>6. ASSUME NEW n \in Nat, SoFar(n), n + 1 <= Len(ids) PROVE SoFar(n + 1)
    BY <2>2, <2>6, DropStepA DEF DropFold!IsPath
  <2> HIDE DEF SoFar
  <2>7. 0 \in S /\ \A n \in Nat : n \in S => n + 1 \in S
    BY <2>1, <2>5, <2>6
  <2>8. Nat \subseteq S
    <3> HIDE DEF S
    <3> QED BY <2>7, SetInduction
  <2>9. SoFar(Len(ids))
    BY <2>1, <2>8
  <2> QED BY <2>2, <2>3, <2>9 DEF SoFar
<1> HIDE DEF dropped, reason
<1> DEFINE l == HearAll(k, dropped.out)
<1>4. dropped.err = FALSE /\ IsSeq(dropped.out) /\ Tame(dropped.out) /\ l.ok = "yes" /\ l.call = <<>>
  BY <1>3 DEF DropsA, CoreA, Quiet
<1>5. Drains(l, end)
  BY <1>4, FinishHeard
<1> HIDE DEF end
<1>6. CL!Finish(d).out = dropped.out \o end
  BY <1>1, <1>4 DEF CL!Joined, CL!Ok
<1>7. IsSeq(end) /\ Tame(end)
  BY <1>5 DEF Drains
<1>8. HearAll(k, dropped.out \o end) = HearAll(l, end)
  BY <1>4, <1>7, HearAt
<1>9. IsSeq(dropped.out \o end) /\ Tame(dropped.out \o end)
  BY <1>4, <1>7, SeqJoin, TameFew
<1> HIDE DEF l
<1> QED BY <1>5, <1>6, <1>8, <1>9 DEF Drains

\* A stream that has just begun.
LEMMA ClaudeBegins ==
  \A u : u.n \in Nat /\ u.block = <<>> => RelA(u, CL!New, Unheard)
<1>1. IsSeq(<<>>) /\ Len(<<>>) = 0
  BY SeqFew
<1> DEFINE d == CL!New
           k == Unheard
<1>2. IsClaude(d)
  BY InitClaude DEF ClaudeOK
<1>3. d.thinking = <<>> /\ d.native = <<>> /\ d.call = <<>> /\ d.redacted = <<>> /\ d.calls = <<>> /\ d.phase = <<>>
  BY DEF CL!New
<1>4. k.ok = "yes" /\ k.call = <<>> /\ k.used = {} /\ k.think = <<>> /\ k.phase = <<>>
  BY DEF Unheard
<1> HIDE DEF d, k
<1>5. \A u : u.n \in Nat /\ u.block = <<>> => RelA(u, d, k)
  BY <1>1, <1>2, <1>3, <1>4 DEF RelA, CoreA, Quiet
<1> QED BY <1>5 DEF d, k

-----------------------------------------------------------------------------
\* What Codex does between two events.
Same(u, v) == v.phase = "open" /\ (v.signs <=> u.signs)
OpensX(u, say) ==
  LET c == say.u.block[1]
  IN  /\ u.phase = "open" /\ u.block = <<>> /\ Same(u, say.u) /\ say.u.n = u.n + 1 /\ say.u.items = u.items
      /\ say.u.block = <<c>> /\ IsPart(c) /\ c.i = u.n + 1 /\ c.x = <<>> /\ say.e.t = "added"
GrowsX(u, say) ==
  LET b == u.block[1]
      c == say.u.block[1]
      e == say.e
  IN  /\ u.phase = "open" /\ u.block = <<b>> /\ Same(u, say.u) /\ say.u.n = u.n /\ say.u.items = u.items
      /\ say.u.block = <<c>> /\ IsPart(c) /\ c.i = b.i /\ c.kind = b.kind
      /\ \/ b.kind = "text" /\ e.t \in {"text", "cite"}
         \/ b.kind = "reasoning" /\ e.t = "thinking" /\ e.id = b.i /\ c.x = Append(b.x, e.x)
         \/ b.kind = "search" /\ e.t = "search"
DoneX(u, say) ==
  LET b == u.block[1]
      item == say.e.item
  IN  /\ u.phase = "open" /\ u.block = <<b>> /\ Same(u, say.u) /\ say.u.n = u.n /\ say.u.block = <<>>
      /\ say.u.items = Append(u.items, item) /\ say.e.t = "done"
      /\ IsBlock(item) /\ IsSeq(item.body) /\ IsSeq(item.cites) /\ item.id = b.i /\ item.kind = b.kind
      /\ b.kind = "reasoning" =>
           /\ b.x # <<>> => item.body = b.x
           /\ item.sig # <<>> <=> u.signs
EndsX(u, say) ==
  \/ say.e.t = "failed"
  \/ /\ say.e.t \in {"completed", "incomplete"} /\ say.e.output \in {<<>>, u.items}
     /\ say.u.phase = "over" /\ say.u.items = u.items /\ say.u.n = u.n

\* The open item of a Codex response.
PartX(u) ==
  u.block = <<>> \/ \E b : /\ IsPart(b) /\ IsSeq(b.cites) /\ u.block = <<b>>
                           /\ b.kind = "reasoning" => IsSeq(b.x)

\* Codex opens an item.
LEMMA OpensCodex ==
  ASSUME NEW u, IsUp(u), u.phase = "open", u.block = <<>>, u.n \in Nat, NEW say \in CodexStarts(u)
  PROVE  OpensX(u, say)
<1> DEFINE p(kind) == [kind |-> kind, i |-> u.n + 1, k |-> 0, x |-> <<>>, sig |-> <<>>, cites |-> <<>>]
           b(kind) == Begin(u, kind)
           e(kind) == [t |-> "added", item |-> CodexItem(b(kind).block[1], <<>>, "in_progress")]
<1>1. ASSUME NEW kind
      PROVE  Same(u, b(kind)) /\ b(kind).n = u.n + 1 /\ b(kind).items = u.items /\ b(kind).block = <<p(kind)>>
  BY DEF Begin, IsUp, UpFields, Same
<1>2. \A kind : e(kind).t = "added"
  OBVIOUS
<1>3. \A kind : IsPart(p(kind)) /\ p(kind).i = u.n + 1 /\ p(kind).x = <<>>
  BY DEF IsPart, PartFields
<1>4. PICK kind : say = Says(b(kind), e(kind))
  BY DEF CodexStarts
<1>5. say.u = b(kind) /\ say.e = e(kind)
  BY <1>4 DEF Says
<1>6. b(kind).block = <<p(kind)>> /\ b(kind).block[1] = p(kind)
  BY <1>1
<1> HIDE DEF p, b, e
<1> QED BY <1>1, <1>2, <1>3, <1>5, <1>6 DEF OpensX

\* Codex's item grows.
LEMMA GrowsCodex ==
  ASSUME NEW u, IsUp(u), u.phase = "open", u.block # <<>>, PartX(u), NEW say \in CodexDelta(u)
  PROVE  GrowsX(u, say)
<1> DEFINE b == u.block[1]
           tok == Token(b)
           s == Spent(u)
           w == Wider(u, tok)
           texted == [w EXCEPT !.texts = Append(@, tok)]
           cited == [s EXCEPT !.block[1].cites = Append(@, tok),
                              !.cites = Append(@, [x |-> tok, url |-> TRUE])]
           text == [t |-> "text", x |-> tok]
           cite == [t |-> "cite", x |-> tok]
           think == [t |-> "thinking", x |-> tok, id |-> b.i]
           search == [t |-> "search", id |-> b.i,
                      phase |-> IF b.k = 0 THEN "searching" ELSE "completed"]
           bs == [b EXCEPT !.k = @ + 1]
           bw == [bs EXCEPT !.x = Append(@, tok)]
           bc == [bs EXCEPT !.cites = Append(@, tok)]
           Keeps(v) == IsUp(v) /\ Same(u, v) /\ v.n = u.n /\ v.items = u.items
           NextPart(v, c) == Keeps(v) /\ v.block = <<c>> /\ IsPart(c) /\ c.i = b.i /\ c.kind = b.kind
<1>2. IsPart(b) /\ u.block = <<b>>
  BY DEF PartX
<1>4. IsPart(bs) /\ bs.i = b.i /\ bs.kind = b.kind /\ bs.x = b.x
  BY <1>2 DEF IsPart, PartFields
<1>5. /\ IsPart(bw) /\ bw.i = b.i /\ bw.kind = b.kind /\ bw.x = Append(b.x, tok)
      /\ IsPart(bc) /\ bc.i = b.i /\ bc.kind = b.kind
  <2> HIDE DEF bs, tok
  <2> QED BY <1>4 DEF IsPart, PartFields
<1>7. Keeps(s) /\ s.block = [u.block EXCEPT ![1] = bs]
  BY DEF Spent, IsUp, UpFields, Same
<1>8. s.block = <<bs>>
  <2> HIDE DEF bs, s
  <2> QED BY <1>2, <1>7
<1>10. Keeps(w) /\ w.block = [s.block EXCEPT ![1] = bw]
  <2>1. w = [s EXCEPT !.block[1].x = Append(@, tok)]
    BY DEF Wider
  <2>2. s.block[1] = bs
    BY <1>8
  <2> HIDE DEF bs, s, w, tok
  <2> QED BY <1>7, <2>1, <2>2 DEF IsUp, UpFields, bw, Same
<1>11. Keeps(cited) /\ cited.block = [s.block EXCEPT ![1] = bc]
  <2>2. s.block[1] = bs
    BY <1>8
  <2> HIDE DEF bs, s, tok
  <2> QED BY <1>7, <2>2 DEF IsUp, UpFields, bc, Same
<1>12. NextPart(s, bs)
  <2> HIDE DEF bs, s
  <2> QED BY <1>4, <1>7, <1>8
<1>13. NextPart(w, bw) /\ NextPart(cited, bc)
  <2> HIDE DEF bs, s, bw, bc, w, cited
  <2> QED BY <1>5, <1>8, <1>10, <1>11
<1>14. NextPart(texted, bw)
  <2> HIDE DEF w, bw
  <2> QED BY <1>13, Zenon DEF IsUp, UpFields, Same
<1>15. [Says(w, text) EXCEPT !.u.texts = Append(@, tok)] = Says(texted, text)
  BY DEF Says
<1>16. text.t = "text" /\ cite.t = "cite" /\ think.t = "thinking" /\ think.id = b.i /\ think.x = tok
       /\ search.t = "search"
  OBVIOUS
<1>17. \/ b.kind = "text" /\ say = Says(texted, text)
       \/ b.kind = "text" /\ say = Says(cited, cite)
       \/ b.kind = "reasoning" /\ say = Says(w, think)
       \/ b.kind = "search" /\ say = Says(s, search)
  <2> HIDE DEF texted, cited, text, cite, think, search
  <2>1. u.left # 0
    <3>1. u.left = 0 => CodexDelta(u) = {}
      BY Zenon DEF CodexDelta
    <3> QED BY <3>1
  <2>2. CASE b.kind = "text"
    BY <1>15, <2>1, <2>2 DEF CodexDelta, text, cite, cited
  <2>3. CASE b.kind = "reasoning"
    BY <2>1, <2>3 DEF CodexDelta, think
  <2>4. CASE b.kind = "search"
    BY <2>1, <2>4 DEF CodexDelta, search
  <2>5. CASE b.kind \notin {"text", "reasoning", "search"}
    BY <2>1, <2>5 DEF CodexDelta
  <2> QED BY <2>2, <2>3, <2>4, <2>5
<1>18. \A v, e : Says(v, e).u = v /\ Says(v, e).e = e
  BY DEF Says
<1>19. \A v, c : NextPart(v, c) => v.block[1] = c
  OBVIOUS
<1> HIDE DEF texted, cited, text, cite, think, search, s, w, bs, bw, bc, tok
<1>24. ASSUME NEW v, NEW c, NextPart(v, c), NEW e, say = Says(v, e),
              \/ b.kind = "text" /\ e.t \in {"text", "cite"}
              \/ b.kind = "reasoning" /\ e.t = "thinking" /\ e.id = b.i /\ c.x = Append(b.x, e.x)
              \/ b.kind = "search" /\ e.t = "search"
       PROVE  GrowsX(u, say)
  <2>1. say.u = v /\ say.e = e /\ v.block[1] = c
    BY <1>18, <1>19, <1>24
  <2>2. Same(u, v) /\ v.n = u.n /\ v.items = u.items /\ v.block = <<c>> /\ IsPart(c) /\ c.i = b.i /\ c.kind = b.kind
    BY <1>24
  <2> QED BY <1>2, <1>24, <2>1, <2>2, Zenon DEF GrowsX, b
<1>20. CASE b.kind = "text" /\ say = Says(texted, text)
  <2> HIDE DEF NextPart
  <2> QED BY <1>14, <1>16, <1>20, <1>24
<1>21. CASE b.kind = "text" /\ say = Says(cited, cite)
  <2> HIDE DEF NextPart
  <2> QED BY <1>13, <1>16, <1>21, <1>24
<1>22. CASE b.kind = "reasoning" /\ say = Says(w, think)
  <2> HIDE DEF NextPart
  <2> QED BY <1>5, <1>13, <1>16, <1>22, <1>24
<1>23. CASE b.kind = "search" /\ say = Says(s, search)
  <2> HIDE DEF NextPart
  <2> QED BY <1>12, <1>16, <1>23, <1>24
<1> QED BY <1>17, <1>20, <1>21, <1>22, <1>23

\* An item as Codex lists it.
ListedAs(item, b, x) ==
  IsBlock(item) /\ item.kind = b.kind /\ item.id = b.i /\ item.body = x /\ item.cites = b.cites
SignedBy(item, sig) == item.sig = sig
\* An item as Codex lists it has what its block streamed.
LEMMA CodexItemIs ==
  /\ \A b, x, st : ListedAs(CodexItem(b, x, st), b, x)
  /\ \A b, x, st, sig : /\ ListedAs([CodexItem(b, x, st) EXCEPT !.sig = sig], b, x)
                        /\ SignedBy([CodexItem(b, x, st) EXCEPT !.sig = sig], sig)
<1>1. ASSUME NEW b, NEW x, NEW st PROVE ListedAs(CodexItem(b, x, st), b, x)
  BY DEF CodexItem, Block, IsBlock, BlockFields, ListedAs
<1>2. ASSUME NEW b, NEW x, NEW c, ListedAs(c, b, x), NEW sig
      PROVE  ListedAs([c EXCEPT !.sig = sig], b, x) /\ SignedBy([c EXCEPT !.sig = sig], sig)
  BY <1>2 DEF IsBlock, BlockFields, ListedAs, SignedBy
<1> QED BY <1>1, <1>2

\* Codex's item is done.
LEMMA DoneCodex ==
  ASSUME NEW u, IsUp(u), u.phase = "open", u.block # <<>>, PartX(u), NEW say \in CodexDone(u)
  PROVE  DoneX(u, say)
<1> DEFINE b == u.block[1]
           end(item) == [u EXCEPT !.block = <<>>, !.items = Append(@, item),
                                 !.cut = item.kind = "tool_use" /\ item.body = <<"half">>]
           at(item) == CASE item.kind = "tool_use" ->
                            [end(item) EXCEPT !.calls = Append(@, [id |-> b.i, args |-> item.body])]
                       [] item.sig # <<>> -> [end(item) EXCEPT !.signed = Append(@, item.sig[1])]
                       [] OTHER -> end(item)
           e(item) == [t |-> "done", item |-> item]
           F(item) == Says(at(item), e(item))
           S(x) == [CodexItem(b, x, "completed") EXCEPT !.sig = IF u.signs THEN <<Sig(b.i, x)>> ELSE <<>>]
           Fine1(item) == /\ IsBlock(item) /\ IsSeq(item.body) /\ IsSeq(item.cites) /\ item.id = b.i
                          /\ item.kind = b.kind
                          /\ b.kind = "reasoning" => /\ b.x # <<>> => item.body = b.x
                                                     /\ item.sig # <<>> <=> u.signs
           Done1(v, item) == IsUp(v) /\ Same(u, v) /\ v.n = u.n /\ v.block = <<>> /\ v.items = Append(u.items, item)
<1>1. u.block = <<b>> /\ IsSeq(b.cites) /\ (b.kind = "reasoning" => IsSeq(b.x))
  BY DEF PartX
<1>2. \E item : Fine1(item) /\ say = F(item)
  <2> HIDE DEF at, e, F
  <2>1. CASE b.kind = "reasoning"
    <3> HIDE DEF S, b
    <3>1. \E x : x \in (IF b.x = <<>> THEN {<<>>, <<Token(b)>>} ELSE {b.x}) /\ say = F(S(x))
      BY <2>1, Zenon DEF CodexDone, F, at, e, S, b
    <3>2. PICK x : x \in (IF b.x = <<>> THEN {<<>>, <<Token(b)>>} ELSE {b.x}) /\ say = F(S(x))
      BY <3>1
    <3>3. IsSeq(x) /\ (b.x # <<>> => x = b.x)
      BY <1>1, <2>1, <3>2, SeqFew
    <3> DEFINE g == IF u.signs THEN <<Sig(b.i, x)>> ELSE <<>>
    <3>4. g # <<>> <=> u.signs
      OBVIOUS
    <3> HIDE DEF g
    <3>5. S(x) = [CodexItem(b, x, "completed") EXCEPT !.sig = g]
      BY DEF S, g
    <3>6. PICK s : s = [CodexItem(b, x, "completed") EXCEPT !.sig = g]
      OBVIOUS
    <3>7. ListedAs(s, b, x) /\ SignedBy(s, g)
      BY <3>6, CodexItemIs
    <3>8. S(x) = s
      BY <3>5, <3>6
    <3>9. Fine1(s)
      BY <1>1, <3>3, <3>4, <3>7, <2>1 DEF ListedAs, SignedBy
    <3>10. Fine1(S(x))
      BY <3>8, <3>9
    <3> QED BY <3>2, <3>10, Zenon
  <2>2. CASE b.kind # "reasoning"
    <3> HIDE DEF b
    <3> DEFINE G(x, st) == F(CodexItem(b, x, st))
           Body(x) == x \in {<<"{}">>, <<"whole">>, <<"half">>, <<>>}
    <3>1. \E x, st : Body(x) /\ say = G(x, st)
      <4>1. CASE b.kind = "tool_use"
        <5>1. say \in {G(x, "completed") : x \in {<<"{}">>, <<"whole">>, <<"half">>}}
          BY <4>1, Zenon DEF CodexDone, F, at, e, b
        <5> HIDE DEF G
        <5>2. PICK x : Body(x) /\ say = G(x, "completed")
          BY <5>1
        <5> HIDE DEF Body
        <5> WITNESS x, "completed"
        <5> QED BY <5>2
      <4>2. CASE b.kind = "search"
        <5>1. say \in {G(<<>>, st) : st \in {"completed", "failed"}}
          BY <4>2 DEF CodexDone, F, at, e, b
        <5> HIDE DEF G
        <5>2. PICK st : say = G(<<>>, st)
          BY <5>1
        <5>3. Body(<<>>)
          OBVIOUS
        <5> HIDE DEF Body
        <5> WITNESS <<>>, st
        <5> QED BY <5>2, <5>3
      <4>3. CASE b.kind \notin {"tool_use", "search"}
        <5>1. say = G(<<>>, "completed")
          BY <2>2, <4>3, Zenon DEF CodexDone, F, at, e, b
        <5> HIDE DEF G
        <5>2. Body(<<>>)
          OBVIOUS
        <5> HIDE DEF Body
        <5> WITNESS <<>>, "completed"
        <5> QED BY <5>1, <5>2
      <4> QED BY <4>1, <4>2, <4>3
    <3>2. PICK x, st : Body(x) /\ say = G(x, st)
      <4> HIDE DEF G
      <4> QED BY <3>1
    <3>3. IsSeq(x)
      BY <3>2, SeqFew
    <3>4. ListedAs(CodexItem(b, x, st), b, x)
      BY CodexItemIs
    <3>5. Fine1(CodexItem(b, x, st))
      BY <1>1, <2>2, <3>3, <3>4, SMTT(30) DEF ListedAs
    <3> QED BY <3>2, <3>5
  <2> QED BY <2>1, <2>2
<1>3. PICK item : Fine1(item) /\ say = F(item)
  BY <1>2
<1>4. Done1(end(item), item)
  BY DEF IsUp, UpFields, Same
<1> DEFINE d == end(item)
<1>5. Done1(at(item), item)
  <2>1. at(item) = d \/ (\E x : at(item) = [d EXCEPT !.calls = x]) \/ (\E x : at(item) = [d EXCEPT !.signed = x])
    <3> DEFINE c == Append(d.calls, [id |-> b.i, args |-> item.body])
               g == Append(d.signed, item.sig[1])
    <3>1. \/ at(item) = d \/ at(item) = [d EXCEPT !.calls = c] \/ at(item) = [d EXCEPT !.signed = g]
      <4> HIDE DEF b, end
      <4>1. CASE item.kind = "tool_use"
        BY <4>1
      <4>2. CASE item.kind # "tool_use" /\ item.sig # <<>>
        BY <4>2
      <4>3. CASE item.kind # "tool_use" /\ item.sig = <<>>
        BY <4>3
      <4> QED BY <4>1, <4>2, <4>3
    <3> HIDE DEF d, c, g, at
    <3> QED BY <3>1
  <2> HIDE DEF d, at, end
  <2>2. Done1(d, item)
    BY <1>4 DEF d
  <2>3. \A x : Done1([d EXCEPT !.calls = x], item) /\ Done1([d EXCEPT !.signed = x], item)
    BY <2>2 DEF IsUp, UpFields, Same
  <2>4. CASE at(item) = d
    BY <2>2, <2>4
  <2>5. ASSUME NEW x, at(item) = [d EXCEPT !.calls = x] \/ at(item) = [d EXCEPT !.signed = x]
        PROVE  Done1(at(item), item)
    <3> HIDE DEF Done1
    <3> QED BY <2>3, <2>5
  <2> HIDE DEF Done1
  <2> QED BY <2>1, <2>4, <2>5
<1>6. say.u = at(item) /\ say.e.t = "done" /\ say.e.item = item
  BY <1>3 DEF Says
<1> HIDE DEF at, end, e, F, S, d
<1> QED BY <1>1, <1>3, <1>5, <1>6 DEF DoneX

\* All that Codex may say.
LEMMA SaysCodex ==
  ASSUME NEW u, IsUp(u), PartX(u), u.n \in Nat, NEW say \in CodexSays(u)
  PROVE  OpensX(u, say) \/ GrowsX(u, say) \/ DoneX(u, say) \/ EndsX(u, say)
<1> DEFINE over == [u EXCEPT !.phase = "over"]
           failed == [u EXCEPT !.phase = "failed"]
           done(output) == [t |-> "completed", output |-> output]
           short(reason) == [t |-> "incomplete", output |-> u.items, reason |-> reason]
<1>1. u.phase = "open"
  BY DEF CodexSays
<1>2. over.phase = "over" /\ over.items = u.items /\ over.n = u.n
  BY DEF IsUp, UpFields
<1>3. EndsX(u, Says(over, done(<<>>))) /\ EndsX(u, Says(over, done(u.items)))
      /\ \A reason : EndsX(u, Says(over, short(reason)))
  <2> HIDE DEF over
  <2> QED BY <1>2 DEF EndsX, Says
<1>4. EndsX(u, Says(failed, [t |-> "failed"]))
  BY DEF EndsX, Says
<1> HIDE DEF over, failed, done, short
<1>5. \/ u.block # <<>> /\ (say \in CodexDelta(u) \/ say \in CodexDone(u))
      \/ u.block = <<>> /\ say \in CodexStarts(u)
      \/ say = Says(over, done(<<>>)) \/ say = Says(over, done(u.items))
      \/ \E reason : say = Says(over, short(reason))
      \/ say = Says(failed, [t |-> "failed"])
  BY <1>1 DEF CodexSays, over, failed, done, short
<1> QED BY <1>1, <1>3, <1>4, <1>5, OpensCodex, GrowsCodex, DoneCodex

-----------------------------------------------------------------------------
\* A Codex decoder and what has been told of its response.
CodexFields == {"thinking", "items", "calls", "native", "cited", "phase", "stop"}
IsCodex(d) == d = [x \in CodexFields |-> d[x]]
CoreX(d, k) ==
  /\ k.ok = "yes" /\ k.call = <<>> /\ k.phase = d.phase /\ IsCodex(d) /\ IsSeq(d.calls) /\ IsSeq(d.items)
  /\ \A index \in k.used : index \in Nat /\ index < Len(d.calls)

\* Nothing that arrives only with a whole block.
Plain(out) == IsSeq(out) /\ \A i \in 1..Len(out) : out[i].k # "native_block"
\* Short outcomes without a native block.
LEMMA PlainFew ==
  /\ Plain(<<>>) /\ (\A e : e.k # "native_block" => Plain(<<e>>))
  /\ \A e, f : e.k # "native_block" /\ f.k # "native_block" => Plain(<<e, f>>)
BY SeqFew DEF Plain
\* Such outcomes joined.
LEMMA PlainJoin == ASSUME NEW a, NEW b, Plain(a), Plain(b) PROVE Plain(a \o b)
<1>1. IsSeq(a) /\ IsSeq(b)
  BY DEF Plain
<1>2. IsSeq(a \o b) /\ Len(a \o b) = Len(a) + Len(b)
      /\ \A i \in 1..Len(a) + Len(b) : (a \o b)[i] = IF i <= Len(a) THEN a[i] ELSE b[i - Len(a)]
  BY <1>1, SeqJoin
<1>3. Len(a) \in Nat /\ Len(b) \in Nat
  BY <1>1 DEF IsSeq
<1>4. ASSUME NEW i \in 1..Len(a) + Len(b) PROVE (a \o b)[i].k # "native_block"
  <2>1. CASE i <= Len(a)
    <3>1. i \in 1..Len(a)
      BY <1>3, <2>1
    <3> QED BY <1>2, <2>1, <3>1 DEF Plain
  <2>2. CASE ~(i <= Len(a))
    <3>1. i - Len(a) \in 1..Len(b)
      BY <1>3, <2>2
    <3>2. (a \o b)[i] = b[i - Len(a)]
      BY <1>2, <2>2
    <3> QED BY <3>1, <3>2 DEF Plain
  <2> QED BY <2>1, <2>2
<1> QED BY <1>2, <1>4 DEF Plain
\* They are neat.
LEMMA PlainNeat == ASSUME NEW out, Plain(out) PROVE Neat(out)
BY DEF Plain, Neat

\* A step that takes no reasoning; one that leaves what is thought alone.
StageX(d, k, r) ==
  /\ r.err = FALSE /\ Plain(r.out) /\ CoreX(r.s, HearAll(k, r.out)) /\ r.s.items = d.items
  /\ r.s.thinking \in {d.thinking, <<>>} /\ HearAll(k, r.out).think \in {k.think, <<>>}
StillX(d, k, r) == StageX(d, k, r) /\ r.s.thinking = d.thinking /\ HearAll(k, r.out).think = k.think

\* One operation after another.
LEMMA StageJoined ==
  ASSUME NEW d, NEW k, NEW r, NEW w, StageX(d, k, r), StageX(r.s, HearAll(k, r.out), w)
  PROVE  /\ StageX(d, k, CX!Joined(r, w))
         /\ StillX(d, k, r) /\ StillX(r.s, HearAll(k, r.out), w) => StillX(d, k, CX!Joined(r, w))
<1> DEFINE j == CX!Joined(r, w)
           l == HearAll(k, r.out)
           m == HearAll(l, w.out)
<1>1. r.err = FALSE /\ Plain(r.out) /\ w.err = FALSE /\ Plain(w.out)
  BY DEF StageX
<1>2. j.err = FALSE /\ j.s = w.s /\ j.out = r.out \o w.out
  BY <1>1 DEF CX!Joined
<1>3. HearAll(k, r.out \o w.out) = m
  BY <1>1, HearAt DEF Plain
<1>4. Plain(r.out \o w.out)
  BY <1>1, PlainJoin
<1>5. /\ r.s.items = d.items /\ r.s.thinking \in {d.thinking, <<>>} /\ l.think \in {k.think, <<>>}
      /\ CoreX(w.s, m) /\ w.s.items = r.s.items /\ w.s.thinking \in {r.s.thinking, <<>>} /\ m.think \in {l.think, <<>>}
  BY DEF StageX
<1> HIDE DEF j
<1>6. HearAll(k, j.out) = m
  BY <1>2, <1>3
<1>7. StageX(d, k, j)
  <2> HIDE DEF l, m
  <2> QED BY <1>2, <1>4, <1>5, <1>6 DEF StageX
<1>8. ASSUME StillX(d, k, r), StillX(r.s, l, w) PROVE StillX(d, k, j)
  <2>1. r.s.thinking = d.thinking /\ l.think = k.think /\ w.s.thinking = r.s.thinking /\ m.think = l.think
    BY <1>8 DEF StillX
  <2> HIDE DEF l, m
  <2> QED BY <1>2, <1>6, <1>7, <2>1 DEF StillX
<1> QED BY <1>7, <1>8 DEF j

\* An operation that says nothing and changes none of what CoreX looks at.
LEMMA StillOk ==
  ASSUME NEW d, NEW k, CoreX(d, k), NEW f, IsCodex(f), f.calls = d.calls, f.items = d.items, f.phase = d.phase,
         f.thinking \in {d.thinking, <<>>}
  PROVE  /\ StageX(d, k, CX!Ok(f, <<>>))
         /\ f.thinking = d.thinking => StillX(d, k, CX!Ok(f, <<>>))
<1> DEFINE r == CX!Ok(f, <<>>)
<1>1. r.err = FALSE /\ r.s = f /\ r.out = <<>>
  BY DEF CX!Ok
<1> HIDE DEF r
<1>2. HearAll(k, r.out) = k
  BY <1>1, HearAt
<1>3. Plain(r.out)
  BY <1>1, PlainFew
<1>4. StageX(d, k, r)
  BY <1>1, <1>2, <1>3 DEF StageX, CoreX
<1> QED BY <1>1, <1>2, <1>4 DEF StillX, r

\* An operation that does nothing.
LEMMA StillSame == ASSUME NEW d, NEW k, CoreX(d, k) PROVE StillX(d, k, CX!Ok(d, <<>>))
BY StillOk DEF CoreX

\* A search's phase.
LEMMA HostedX ==
  ASSUME NEW d, NEW k, CoreX(d, k), NEW id, NEW phase
  PROVE  StageX(d, k, CX!Hosted(d, id, phase))
<1> DEFINE f == [d EXCEPT !.phase = CX!With(@, id, phase)]
           ev == [k |-> "hosted", id |-> id, phase |-> phase]
           l == Hear(k, ev)
           r == CX!Hosted(d, id, phase)
<1>1. CASE CX!Advances(d.phase, id, phase)
  <2>1. r = CX!Ok(f, <<ev>>)
    BY <1>1 DEF CX!Hosted
  <2>2. r.err = FALSE /\ r.s = f /\ r.out = <<ev>>
    BY <2>1 DEF CX!Ok
  <2>3. Advances(k.phase, id, phase)
    BY <1>1 DEF CoreX, Advances, CX!Advances, PhaseRank, CX!PhaseRank
  <2>4. Fit(k, ev) /\ Called(k, ev) = k.call /\ Thought(k, ev) \in {k.think, <<>>}
    BY <2>3 DEF Fit, Called, Thought
  <2>5. ev.k = "hosted" /\ ev.id = id /\ ev.phase = phase
    OBVIOUS
  <2>6. IsCodex(f) /\ f.phase = CX!With(d.phase, id, phase) /\ f.calls = d.calls /\ f.thinking = d.thinking
        /\ f.items = d.items
    BY DEF CoreX, IsCodex, CodexFields
  <2> HIDE DEF ev, l, f, r
  <2>7. l.ok = "yes" /\ l.call = k.call /\ l.think \in {k.think, <<>>} /\ l.used = k.used
        /\ l.phase = With(k.phase, id, phase)
    BY <2>4, <2>5, HearIs DEF CoreX, l
  <2>8. l.phase = f.phase
    BY <2>6, <2>7 DEF CoreX, With, CX!With
  <2>9. CoreX(f, l)
    BY <2>6, <2>7, <2>8 DEF CoreX
  <2>10. HearAll(k, <<ev>>) = l
    BY HearAt DEF l
  <2>11. Plain(<<ev>>)
    BY <2>5, PlainFew
  <2>12. HearAll(k, r.out) = l
    BY <2>2, <2>10
  <2> QED BY <2>2, <2>6, <2>7, <2>9, <2>11, <2>12 DEF r, StageX
<1>2. CASE ~CX!Advances(d.phase, id, phase)
  <2>1. r = CX!Ok(d, <<>>)
    BY <1>2 DEF CX!Hosted
  <2> QED BY <2>1, StillSame DEF StillX
<1> QED BY <1>1, <1>2

\* An item's search.
LEMMA WebSearchX ==
  ASSUME NEW d, NEW k, CoreX(d, k), NEW item, NEW phase
  PROVE  /\ StageX(d, k, CX!WebSearch(d, item, phase))
         /\ item.kind # "search" => StillX(d, k, CX!WebSearch(d, item, phase))
<1>1. CASE item.kind = "search"
  BY <1>1, HostedX DEF CX!WebSearch
<1>2. CASE item.kind # "search"
  <2>1. CX!WebSearch(d, item, phase) = CX!Ok(d, <<>>)
    BY <1>2 DEF CX!WebSearch
  <2> QED BY <1>2, <2>1, StillSame DEF StillX
<1> QED BY <1>1, <1>2

\* Citations change nothing a later event depends on.
LEMMA CitesHeard ==
  ASSUME NEW k, NEW out, IsSeq(out), \A i \in 1..Len(out) : out[i].k = "cite", k.ok = "yes"
  PROVE  /\ HearAll(k, out).ok = "yes" /\ HearAll(k, out).call = k.call /\ HearAll(k, out).used = k.used
         /\ HearAll(k, out).think = k.think /\ HearAll(k, out).phase = k.phase
<1>1. PICK g : HearPath(g, k, out)
  BY HearGoes
<1>2. Len(out) \in Nat
  BY DEF IsSeq
<1> DEFINE SoFar(n) == /\ g[n].ok = "yes" /\ g[n].call = k.call /\ g[n].used = k.used
                       /\ g[n].think = k.think /\ g[n].phase = k.phase
           S == {n \in Nat : n <= Len(out) => SoFar(n)}
<1>3. SoFar(0)
  BY <1>1 DEF HearPath
<1>4. ASSUME NEW n \in Nat, SoFar(n), n + 1 <= Len(out) PROVE SoFar(n + 1)
  <2> DEFINE e == out[n + 1]
             l == g[n]
  <2>1. g[n + 1] = Hear(l, e) /\ e.k = "cite"
    BY <1>1, <1>2, <1>4 DEF HearPath
  <2>2. l.ok = "yes" /\ l.call = k.call /\ l.used = k.used /\ l.think = k.think /\ l.phase = k.phase
    BY <1>4
  <2> HIDE DEF l, e
  <2>3. Fit(l, e) /\ Called(l, e) = l.call /\ Thought(l, e) = l.think
    BY <2>1 DEF Fit, Called, Thought
  <2> DEFINE m == Hear(l, e)
  <2>4. m.ok = "yes" /\ m.call = l.call /\ m.used = l.used /\ m.think = l.think /\ m.phase = l.phase
    BY <2>1, <2>2, <2>3, HearIs
  <2> HIDE DEF m
  <2> QED BY <2>1, <2>2, <2>4 DEF m
<1> HIDE DEF SoFar
<1>5. 0 \in S /\ \A n \in Nat : n \in S => n + 1 \in S
  BY <1>2, <1>3, <1>4
<1>6. Nat \subseteq S
  <2> HIDE DEF S
  <2> QED BY <1>5, SetInduction
<1>7. SoFar(Len(out))
  BY <1>2, <1>6
<1> QED BY <1>1, <1>7 DEF HearPath, SoFar

\* An item's citations.
LEMMA AnnotationsX ==
  ASSUME NEW d, NEW k, CoreX(d, k), NEW item, Len(item.cites) \in Nat
  PROVE  StillX(d, k, CX!Annotations(d, item))
<1> DEFINE out == [j \in 1..Len(item.cites) |->
                     [k |-> "cite", x |-> item.cites[j], url |-> TRUE, span |-> 0]]
           f == [d EXCEPT !.cited = IF item.kind = "text" THEN @ \cup {item.id} ELSE @]
           r == CX!Annotations(d, item)
           l == HearAll(k, out)
<1>1. IsSeq(out) /\ \A i \in 1..Len(out) : out[i].k = "cite"
  BY DEF IsSeq
<1>2. IsCodex(f) /\ f.phase = d.phase /\ f.calls = d.calls /\ f.thinking = d.thinking /\ f.items = d.items
  BY DEF CoreX, IsCodex, CodexFields
<1> HIDE DEF out, f
<1>3. r = CX!Ok(f, <<>>) \/ r = CX!Ok(f, out)
  BY DEF CX!Annotations, out, f
<1>4. StillX(d, k, CX!Ok(f, <<>>))
  BY <1>2, StillOk
<1>5. StillX(d, k, CX!Ok(f, out))
  <2> DEFINE w == CX!Ok(f, out)
  <2>1. w.err = FALSE /\ w.s = f /\ w.out = out
    BY DEF CX!Ok
  <2>2. l.ok = "yes" /\ l.call = k.call /\ l.used = k.used /\ l.think = k.think /\ l.phase = k.phase
    BY <1>1, CitesHeard DEF CoreX
  <2>3. Plain(out)
    BY <1>1 DEF Plain
  <2> HIDE DEF w, l
  <2>4. HearAll(k, w.out) = l
    BY <2>1 DEF l
  <2>5. StageX(d, k, w)
    BY <1>2, <2>1, <2>2, <2>3, <2>4 DEF StageX, CoreX
  <2> QED BY <1>2, <2>1, <2>2, <2>4, <2>5 DEF StillX, w
<1> QED BY <1>3, <1>4, <1>5

-----------------------------------------------------------------------------
\* A call, told at once.
LEMMA FunctionCallX ==
  ASSUME NEW d, NEW k, CoreX(d, k), NEW item, IsSeq(item.body)
  PROVE  StageX(d, k, CX!FunctionCall(d, item))
<1> DEFINE n == Len(d.calls)
           f == [d EXCEPT !.calls = Append(@, item.id)]
           v == [k |-> "call_start", index |-> n, id |-> item.id, args |-> item.body]
           w == [k |-> "call_end", index |-> n, id |-> item.id, args |-> item.body]
           r == CX!FunctionCall(d, item)
           l == Hear(k, v)
           m == Hear(l, w)
<1>1. CASE item.id \in CX!Range(d.calls)
  <2>1. r = CX!Ok(d, <<>>)
    BY <1>1 DEF CX!FunctionCall
  <2> QED BY <2>1, StillSame DEF StillX
<1>2. CASE item.id \notin CX!Range(d.calls)
  <2>1. r = CX!Ok(f, <<v, w>>)
    BY <1>2 DEF CX!FunctionCall
  <2>2. r.err = FALSE /\ r.s = f /\ r.out = <<v, w>>
    BY <2>1 DEF CX!Ok
  <2>3. /\ v.k = "call_start" /\ v.index = n /\ v.id = item.id /\ v.args = item.body
        /\ w.k = "call_end" /\ w.index = n /\ w.id = item.id /\ w.args = item.body
    OBVIOUS
  <2>4. n \in Nat /\ k.call = <<>> /\ k.ok = "yes" /\ k.phase = d.phase /\ IsSeq(d.calls)
        /\ (\A i \in k.used : i \in Nat /\ i < n)
    BY DEF CoreX, IsSeq
  <2>5. IsCodex(f) /\ f.calls = Append(d.calls, item.id) /\ f.phase = d.phase /\ f.items = d.items /\ f.thinking = d.thinking
    BY DEF CoreX, IsCodex, CodexFields
  <2>6. IsSeq(d.calls \o <<item.id>>) /\ Len(d.calls \o <<item.id>>) = n + 1 /\ f.calls = d.calls \o <<item.id>>
    <3> DEFINE c == d.calls
               i == item.id
    <3>1. IsSeq(c)
      BY <2>4
    <3> HIDE DEF c, i, f
    <3>2. IsSeq(c \o <<i>>) /\ Len(c \o <<i>>) = Len(c) + 1 /\ Append(c, i) = c \o <<i>>
      BY <3>1, SeqSnoc
    <3> QED BY <2>5, <3>2 DEF c, i
  <2> HIDE DEF n, v, w, f, r
  <2>7. Fit(k, v) /\ Called(k, v) = <<[index |-> n, id |-> item.id, args |-> item.body]>> /\ Thought(k, v) = <<>>
    <3>1. n \notin k.used
      BY <2>4
    <3> QED BY <2>3, <2>4, <3>1 DEF Fit, Called, Thought
  <2>8. /\ l.ok = "yes" /\ l.call = <<[index |-> n, id |-> item.id, args |-> item.body]>> /\ l.think = <<>>
        /\ l.used = k.used \cup {n} /\ l.phase = k.phase
    BY <2>3, <2>4, <2>7, HearIs
  <2> HIDE DEF l
  <2>9. Fit(l, w) /\ Called(l, w) = <<>> /\ Thought(l, w) = <<>>
    BY <2>3, <2>8 DEF Fit, Called, Thought
  <2>10. m.ok = "yes" /\ m.call = <<>> /\ m.think = <<>> /\ m.used = k.used \cup {n} /\ m.phase = k.phase
    BY <2>3, <2>8, <2>9, HearIs
  <2> HIDE DEF m
  <2>11. HearAll(k, <<v, w>>) = m
    BY HearTwo DEF l, m
  <2>12. HearAll(k, r.out) = m
    BY <2>2, <2>11
  <2>13. Plain(r.out)
    BY <2>2, <2>3, PlainFew
  <2>14. CoreX(f, m)
    <3>1. IsSeq(f.calls) /\ Len(f.calls) = n + 1
      BY <2>6
    <3>2. IsSeq(f.items)
      BY <2>5 DEF CoreX
    <3> QED BY <2>4, <2>5, <2>10, <3>1, <3>2 DEF CoreX
  <2>15. StageX(d, k, r)
    BY <2>2, <2>5, <2>10, <2>12, <2>13, <2>14 DEF StageX
  <2> QED BY <2>15 DEF r
<1> QED BY <1>1, <1>2

\* An item's native block.
LEMMA NativeX ==
  ASSUME NEW d, NEW k, CoreX(d, k), NEW item, IsBlock(item), item.kind = "native"
  PROVE  StageX(d, k, CX!Native(d, item))
<1> DEFINE f == [d EXCEPT !.native = @ \cup {item.id}]
           v == [k |-> "native_item", item |-> item]
           r == CX!Native(d, item)
           l == Hear(k, v)
<1>1. r = CX!Ok(d, <<>>) \/ r = CX!Ok(f, <<v>>)
  BY DEF CX!Native
<1>2. v.k = "native_item" /\ v.item = item
  OBVIOUS
<1>3. IsCodex(f) /\ f.calls = d.calls /\ f.phase = d.phase /\ f.items = d.items /\ f.thinking = d.thinking
  BY DEF CoreX, IsCodex, CodexFields
<1> HIDE DEF v, f
<1>4. Fit(k, v) /\ Called(k, v) = k.call /\ Thought(k, v) = <<>>
  BY <1>2 DEF Fit, Called, Thought
<1>5. l.ok = "yes" /\ l.call = k.call /\ l.think = <<>> /\ l.used = k.used /\ l.phase = k.phase
  BY <1>2, <1>4, HearIs DEF CoreX
<1> HIDE DEF l
<1>6. StageX(d, k, CX!Ok(f, <<v>>))
  <2> DEFINE w == CX!Ok(f, <<v>>)
  <2>1. w.err = FALSE /\ w.s = f /\ w.out = <<v>>
    BY DEF CX!Ok
  <2>2. HearAll(k, <<v>>) = l
    BY HearAt DEF l
  <2>3. Plain(<<v>>)
    BY <1>2, PlainFew
  <2> HIDE DEF w
  <2>4. HearAll(k, w.out) = l /\ Plain(w.out)
    BY <2>1, <2>2, <2>3
  <2>5. CoreX(f, l)
    BY <1>3, <1>5 DEF CoreX
  <2>6. StageX(d, k, w)
    BY <1>3, <1>5, <2>1, <2>4, <2>5 DEF StageX
  <2> QED BY <2>6 DEF w
<1> QED BY <1>1, <1>6, StillSame DEF StillX

\* What is kept of a reasoning item.
KeptOf(item) == [item EXCEPT !.cites = <<>>]
\* What is kept of an item has the item's parts.
LEMMA KeptIs ==
  ASSUME NEW item, IsBlock(item)
  PROVE  /\ IsBlock(KeptOf(item)) /\ KeptOf(item).kind = item.kind /\ KeptOf(item).id = item.id
         /\ KeptOf(item).body = item.body /\ KeptOf(item).sig = item.sig /\ KeptOf(item).cites = <<>>
BY DEF KeptOf, IsBlock, BlockFields

\* Reasoning taken before, or unsigned, is not taken again.
LEMMA ReasoningKept ==
  ASSUME NEW d, NEW k, CoreX(d, k), NEW item, item.sig = <<>> \/ KeptOf(item) \in CX!Range(d.items)
  PROVE  StageX(d, k, CX!Reasoning(d, item))
<1> DEFINE f == [d EXCEPT !.thinking = <<>>]
<1>1. IsCodex(f) /\ f.calls = d.calls /\ f.phase = d.phase /\ f.items = d.items /\ f.thinking = <<>>
  BY DEF CoreX, IsCodex, CodexFields
<1> HIDE DEF f
<1>2. CX!Reasoning(d, item) = CX!Ok(f, <<>>)
  BY DEF CX!Reasoning, KeptOf, f
<1> QED BY <1>1, <1>2, StillOk

\* Reasoning taken: it closes what was thought.
TakesX(d, k, item, r) ==
  /\ r.err = FALSE /\ Plain(r.out) /\ CoreX(r.s, HearAll(k, r.out)) /\ r.s.items = Append(d.items, KeptOf(item))
  /\ r.s.thinking = <<>> /\ HearAll(k, r.out).think = <<>>
ThinksX(d, k, item) ==
  IF d.thinking = <<>> THEN k.think = <<>> ELSE k.think # <<>> /\ k.think[1].text = item.body

\* Signed reasoning is taken once.
LEMMA ReasoningNew ==
  ASSUME NEW d, NEW k, CoreX(d, k), NEW item, IsBlock(item), item.kind = "reasoning", IsSeq(item.body),
         item.sig # <<>>, KeptOf(item) \notin CX!Range(d.items), ThinksX(d, k, item)
  PROVE  TakesX(d, k, item, CX!Reasoning(d, item))
<1> DEFINE kept    == KeptOf(item)
           f == [[d EXCEPT !.thinking = <<>>] EXCEPT !.items = Append(@, kept)]
           unshown == item.body # <<>> /\ d.thinking = <<>>
           shown   == IF unshown THEN item.body ELSE d.thinking
           u == [k |-> "thinking", x |-> item.body, item |-> item.id]
           v == [k |-> "reasoning", item |-> kept]
           w == [k |-> "signature", sig |-> [item.sig[1] EXCEPT !.over = shown]]
           a == IF unshown THEN <<u>> ELSE <<>>
           b == <<v, w>>
           r == CX!Reasoning(d, item)
           l == HearAll(k, a)
           m == Hear(l, v)
           n == Hear(m, w)
<1>1. IsCodex(f) /\ f.calls = d.calls /\ f.phase = d.phase /\ f.items = Append(d.items, kept) /\ f.thinking = <<>>
  BY DEF CoreX, IsCodex, CodexFields
<1>2. r = CX!Ok(f, a \o b)
  BY DEF CX!Reasoning, KeptOf
<1>3. r.err = FALSE /\ r.s = f /\ r.out = a \o b
  BY <1>2 DEF CX!Ok
<1>4. u.k = "thinking" /\ u.x = item.body /\ u.item = item.id /\ v.k = "reasoning" /\ v.item = kept /\ w.k = "signature"
  OBVIOUS
<1>5. IsBlock(kept) /\ kept.kind = "reasoning" /\ kept.body = item.body /\ kept.cites = <<>>
  BY KeptIs
<1> HIDE DEF u, v, w, f, r, kept, shown
<1>6. /\ l.ok = "yes" /\ l.call = <<>> /\ l.used = k.used /\ l.phase = k.phase /\ Plain(a)
      /\ l.think # <<>> => l.think[1].text = item.body
  <2>1. CASE unshown
    <3> DEFINE q == Hear(k, u)
    <3>1. a = <<u>>
      BY <2>1
    <3>2. l = q
      BY <3>1, HearAt
    <3>3. k.think = <<>>
      BY <2>1 DEF ThinksX
    <3>4. Fit(k, u) /\ Called(k, u) = k.call /\ Thought(k, u) = <<[item |-> item.id, text |-> item.body]>>
      BY <1>4, <2>1, <3>3 DEF Fit, Called, Thought
    <3>5. q.ok = "yes" /\ q.call = <<>> /\ q.used = k.used /\ q.phase = k.phase
          /\ q.think = <<[item |-> item.id, text |-> item.body]>>
      BY <1>4, <3>4, HearIs DEF CoreX
    <3>6. Plain(a)
      BY <1>4, <3>1, PlainFew
    <3> HIDE DEF l, q, a
    <3> QED BY <3>2, <3>5, <3>6
  <2>2. CASE ~unshown
    <3>1. a = <<>>
      BY <2>2
    <3>2. l = k
      BY <3>1, HearAt
    <3>3. k.think # <<>> => k.think[1].text = item.body
      BY DEF ThinksX
    <3>4. Plain(a)
      BY <3>1, PlainFew
    <3> HIDE DEF l, a
    <3> QED BY <3>2, <3>3, <3>4 DEF CoreX
  <2> QED BY <2>1, <2>2
<1> HIDE DEF a
<1>7. m.ok = "yes" /\ m.call = <<>> /\ m.used = k.used /\ m.phase = k.phase /\ m.think = <<>>
  <2> HIDE DEF l
  <2>1. Fit(l, v) /\ Called(l, v) = l.call /\ Thought(l, v) = <<>>
    BY <1>4, <1>5, <1>6 DEF Fit, Called, Thought
  <2> QED BY <1>4, <1>6, <2>1, HearIs
<1>8. n.ok = "yes" /\ n.call = <<>> /\ n.used = k.used /\ n.phase = k.phase /\ n.think = <<>>
  <2> HIDE DEF m
  <2>1. Fit(m, w) /\ Called(m, w) = m.call /\ Thought(m, w) = m.think
    BY <1>4 DEF Fit, Called, Thought
  <2> QED BY <1>4, <1>7, <2>1, HearIs
<1>9. HearAll(l, b) = n
  BY HearTwo
<1>10. Plain(b)
  BY <1>4, PlainFew
<1> HIDE DEF b, m, n
<1>11. HearAll(k, a \o b) = n
  BY <1>6, <1>9, <1>10, HearAt DEF Plain
<1>12. HearAll(k, r.out) = n /\ Plain(r.out)
  BY <1>3, <1>6, <1>10, <1>11, PlainJoin
<1>13. IsSeq(f.items)
  <2>1. IsSeq(d.items)
    BY DEF CoreX
  <2> QED BY <1>1, <2>1, SeqAppend
<1>14. CoreX(f, n)
  BY <1>1, <1>8, <1>13 DEF CoreX
<1>15. TakesX(d, k, item, r)
  BY <1>1, <1>3, <1>8, <1>12, <1>14 DEF TakesX, kept
<1> QED BY <1>15 DEF r

-----------------------------------------------------------------------------
ItemX(item) == IsBlock(item) /\ IsSeq(item.body) /\ IsSeq(item.cites)
\* An item whose reasoning, if it has any, was taken before.
TakenX(d, item) == item.kind = "reasoning" /\ item.sig # <<>> => KeptOf(item) \in CX!Range(d.items)

\* The first two stages of an item.
Read(d, item) ==
  CX!Joined(CX!WebSearch(d, item, item.st), CX!Annotations(CX!WebSearch(d, item, item.st).s, item))
OwnX(s, item) ==
  CASE item.kind = "reasoning" -> CX!Reasoning(s, item)
    [] item.kind = "tool_use"  -> CX!FunctionCall(s, item)
    [] item.kind = "native"    -> CX!Native(s, item)
    [] OTHER                   -> CX!Ok(s, <<>>)
\* An item goes through two stages.
LEMMA ItemIs == ASSUME NEW d, NEW item PROVE CX!Item(d, item) = CX!Joined(Read(d, item), OwnX(Read(d, item).s, item))
BY DEF CX!Item, CX!Then, Read, OwnX

\* The first stage takes no reasoning.
LEMMA ReadX ==
  ASSUME NEW d, NEW k, CoreX(d, k), NEW item, ItemX(item)
  PROVE  StageX(d, k, Read(d, item)) /\ (item.kind # "search" => StillX(d, k, Read(d, item)))
<1> DEFINE r == CX!WebSearch(d, item, item.st)
           l == HearAll(k, r.out)
           w == CX!Annotations(r.s, item)
<1>1. StageX(d, k, r) /\ (item.kind # "search" => StillX(d, k, r))
  BY WebSearchX
<1>2. CoreX(r.s, l)
  BY <1>1 DEF StageX
<1>3. Len(item.cites) \in Nat
  BY DEF ItemX, IsSeq
<1> DEFINE s == r.s
<1> HIDE DEF r, l
<1>4. StillX(s, l, CX!Annotations(s, item))
  <2> HIDE DEF s
  <2> QED BY <1>2, <1>3, AnnotationsX DEF s
<1>5. StillX(r.s, l, w) /\ StageX(r.s, l, w)
  BY <1>4 DEF StillX
<1> HIDE DEF w
<1>6. StageX(d, k, CX!Joined(r, w)) /\ (item.kind # "search" => StillX(d, k, CX!Joined(r, w)))
  BY <1>1, <1>5, StageJoined DEF l
<1> QED BY <1>6 DEF r, w, Read

\* The second stage, of an item whose reasoning was taken before.
LEMMA OwnStage ==
  ASSUME NEW d, NEW k, CoreX(d, k), NEW item, ItemX(item), TakenX(d, item)
  PROVE  StageX(d, k, OwnX(d, item))
<1>1. CASE item.kind = "reasoning"
  <2>1. StageX(d, k, CX!Reasoning(d, item))
    BY <1>1, ReasoningKept DEF TakenX
  <2> QED BY <1>1, <2>1 DEF OwnX
<1>2. CASE item.kind = "tool_use"
  <2>1. StageX(d, k, CX!FunctionCall(d, item))
    BY FunctionCallX DEF ItemX
  <2> QED BY <1>2, <2>1 DEF OwnX
<1>3. CASE item.kind = "native"
  <2>1. StageX(d, k, CX!Native(d, item))
    BY <1>3, NativeX DEF ItemX
  <2> QED BY <1>3, <2>1 DEF OwnX
<1>4. CASE item.kind \notin {"reasoning", "tool_use", "native"}
  <2>1. OwnX(d, item) = CX!Ok(d, <<>>)
    BY <1>4 DEF OwnX
  <2> QED BY <2>1, StillSame DEF StillX
<1> QED BY <1>1, <1>2, <1>3, <1>4

\* An item that takes no reasoning, and one that does.
LEMMA ItemStage ==
  ASSUME NEW d, NEW k, CoreX(d, k), NEW item, ItemX(item), TakenX(d, item)
  PROVE  StageX(d, k, CX!Item(d, item))
<1> DEFINE r == Read(d, item)
           l == HearAll(k, r.out)
           s == r.s
           w == OwnX(s, item)
<1>1. StageX(d, k, r)
  BY ReadX
<1>2. CoreX(s, l) /\ s.items = d.items
  BY <1>1 DEF StageX
<1>3. TakenX(s, item)
  BY <1>2 DEF TakenX
<1>4. StageX(s, l, w)
  <2> HIDE DEF s, l
  <2> QED BY <1>2, <1>3, OwnStage
<1> HIDE DEF w, r
<1>5. StageX(d, k, CX!Joined(r, w))
  BY <1>1, <1>4, StageJoined
<1>6. CX!Item(d, item) = CX!Joined(r, w)
  BY ItemIs DEF r, w
<1> QED BY <1>5, <1>6

\* An item with new reasoning.
LEMMA ItemTakes ==
  ASSUME NEW d, NEW k, CoreX(d, k), NEW item, ItemX(item), item.kind = "reasoning", item.sig # <<>>,
         KeptOf(item) \notin CX!Range(d.items), ThinksX(d, k, item)
  PROVE  TakesX(d, k, item, CX!Item(d, item))
<1> DEFINE r == Read(d, item)
           l == HearAll(k, r.out)
           s == r.s
           w == OwnX(s, item)
           j == CX!Joined(r, w)
           m == HearAll(l, w.out)
<1>1. StillX(d, k, r)
  BY ReadX
<1>2. CoreX(s, l) /\ s.items = d.items /\ s.thinking = d.thinking /\ l.think = k.think /\ r.err = FALSE /\ Plain(r.out)
  BY <1>1 DEF StillX, StageX
<1>3. TakesX(s, l, item, w)
  <2>1. w = CX!Reasoning(s, item)
    BY DEF OwnX
  <2> HIDE DEF s, l, w
  <2>2. ThinksX(s, l, item)
    BY <1>2 DEF ThinksX
  <2>3. KeptOf(item) \notin CX!Range(s.items)
    BY <1>2
  <2>4. TakesX(s, l, item, CX!Reasoning(s, item))
    BY <1>2, <2>2, <2>3, ReasoningNew DEF ItemX
  <2> QED BY <2>1, <2>4
<1> HIDE DEF w, r, s, l
<1>4. w.err = FALSE /\ Plain(w.out) /\ CoreX(w.s, m) /\ w.s.items = Append(d.items, KeptOf(item))
      /\ w.s.thinking = <<>> /\ m.think = <<>>
  BY <1>2, <1>3 DEF TakesX
<1>5. j.err = FALSE /\ j.s = w.s /\ j.out = r.out \o w.out
  BY <1>2, <1>4 DEF CX!Joined
<1> HIDE DEF j
<1>6. HearAll(k, r.out \o w.out) = m
  BY <1>2, <1>4, HearAt DEF Plain, l
<1>7. HearAll(k, j.out) = m /\ Plain(j.out)
  BY <1>2, <1>4, <1>5, <1>6, PlainJoin
<1> HIDE DEF m
<1>8. TakesX(d, k, item, j)
  BY <1>4, <1>5, <1>7 DEF TakesX
<1>9. CX!Item(d, item) = j
  BY ItemIs DEF r, w, s, j
<1> QED BY <1>8, <1>9

\* The items a terminal event lists were taken before.
ListX(items, d) == IsSeq(items) /\ \A j \in 1..Len(items) : ItemX(items[j]) /\ TakenX(d, items[j])

\* One more item of those a terminal event lists.
LEMMA ItemStepX ==
  ASSUME NEW d, NEW k, NEW r, StageX(d, k, r), NEW item, ItemX(item), TakenX(d, item)
  PROVE  StageX(d, k, ItemStep(r, item))
<1> DEFINE s == r.s
           l == HearAll(k, r.out)
           w == CX!Item(s, item)
<1>1. CoreX(s, l) /\ TakenX(s, item)
  BY DEF StageX, TakenX
<1>2. StageX(s, l, w)
  <2> HIDE DEF s, l
  <2> QED BY <1>1, ItemStage
<1>3. ItemStep(r, item) = CX!Joined(r, w)
  BY DEF ItemStep, CX!Then
<1> HIDE DEF w
<1> QED BY <1>2, <1>3, StageJoined

\* A terminal event whose items were taken before takes no reasoning.
LEMMA TerminalX ==
  ASSUME NEW d, NEW k, CoreX(d, k), NEW e, ListX(e.output, d)
  PROVE  StageX(d, k, CX!TerminalResponse(d, e))
<1> DEFINE b == CX!Ok(d, <<>>)
           out == e.output
           listed == CX!InTurn(ItemStep, b, out)
           s == listed.s
           f == [s EXCEPT !.stop = e.reason]
           w == CX!Ok(IF e.t = "incomplete" THEN f ELSE s, <<>>)
<1>1. CX!TerminalResponse(d, e) = CX!Joined(listed, w)
  BY DEF CX!TerminalResponse, CX!Then, ItemStep
<1>2. StageX(d, k, listed)
  <2>1. IsSeq(out) /\ \A j \in 1..Len(out) : ItemX(out[j]) /\ TakenX(d, out[j])
    BY DEF ListX
  <2> HIDE DEF out
  <2>2. out \in Seq(Elements(out)) /\ Len(out) \in Nat
    BY <2>1, SeqIn DEF IsSeq
  <2>3. PICK g : ItemFold!IsPath(g, b, out) /\ ItemFold!Fold(b, out) = g[Len(out)]
    BY <2>2, ItemFold!FoldPath, SetInduction DEF ItemFold!Induction
  <2>4. ItemFold!Fold(b, out) = listed
    BY DEF CX!InTurn, ItemFold!Fold, CX!MapThenFoldSet, ItemFold!MapThenFoldSet, ItemFold!Max
  <2> DEFINE SoFar(n) == StageX(d, k, g[n])
             S == {n \in Nat : n <= Len(out) => SoFar(n)}
  <2>5. SoFar(0)
    BY <2>3, StillSame DEF ItemFold!IsPath, StillX
  <2>6. ASSUME NEW n \in Nat, SoFar(n), n + 1 <= Len(out) PROVE SoFar(n + 1)
    <3> DEFINE item == out[n + 1]
    <3>1. g[n + 1] = ItemStep(g[n], item)
      BY <2>3, <2>6 DEF ItemFold!IsPath
    <3>2. ItemX(item) /\ TakenX(d, item)
      BY <2>1, <2>2, <2>6
    <3> HIDE DEF item
    <3> QED BY <2>6, <3>1, <3>2, ItemStepX
  <2> HIDE DEF SoFar, listed
  <2>7. 0 \in S /\ \A n \in Nat : n \in S => n + 1 \in S
    BY <2>2, <2>5, <2>6
  <2>8. Nat \subseteq S
    <3> HIDE DEF S
    <3> QED BY <2>7, SetInduction
  <2>9. SoFar(Len(out))
    BY <2>2, <2>8
  <2> QED BY <2>3, <2>4, <2>9 DEF SoFar
<1> HIDE DEF listed
<1>3. CoreX(s, HearAll(k, listed.out))
  BY <1>2 DEF StageX
<1>4. IsCodex(f) /\ f.calls = s.calls /\ f.items = s.items /\ f.phase = s.phase /\ f.thinking = s.thinking
  <2> HIDE DEF s
  <2> QED BY <1>3 DEF CoreX, IsCodex, CodexFields
<1>5. IsCodex(s)
  BY <1>3 DEF CoreX
<1> DEFINE l == HearAll(k, listed.out)
<1> HIDE DEF f, s, l
<1>6. StageX(s, l, w)
  BY <1>3, <1>4, <1>5, StillOk DEF l
<1> HIDE DEF w
<1> QED BY <1>1, <1>2, <1>6, StageJoined DEF s, l

-----------------------------------------------------------------------------
\* A Codex upstream, its decoder and what has been told.
\* What the decoder took is of items the upstream has opened.
IdsX(d, n) == \A j \in 1..Len(d.items) : d.items[j].id \in 1..n
\* An item is open, new to the decoder, and the client has its deltas.
InItemX(u, b, d, k) ==
  /\ u.block = <<b>> /\ b.i = u.n /\ u.n # 0 /\ (\A j \in 1..Len(d.items) : d.items[j].id # u.n)
  /\ b.kind = "reasoning" => IsSeq(b.x)
  /\ u.signs => IF b.kind = "reasoning" THEN d.thinking = b.x /\ k.think = Mused(b)
                ELSE d.thinking = <<>> /\ k.think = <<>>
OpenC(u, d, k) ==
  /\ IdsX(d, u.n)
  /\ u.block = <<>> /\ u.signs => d.thinking = <<>> /\ k.think = <<>>
  /\ u.block # <<>> => \E b : InItemX(u, b, d, k)
RelX(u, d, k) == u.n \in Nat /\ CoreX(d, k) /\ ListX(u.items, d) /\ (u.phase = "open" => OpenC(u, d, k))
FeedsX(v, k, r) == r.err = FALSE /\ Plain(r.out) /\ RelX(v, r.s, HearAll(k, r.out))

\* A list stays taken while the decoder keeps what it took.
LEMMA ListKeeps ==
  ASSUME NEW items, NEW d, ListX(items, d), NEW f, f.items = d.items
  PROVE  ListX(items, f)
BY DEF ListX, TakenX

\* A decoder is told that an item opens.
LEMMA OpensFeed ==
  ASSUME NEW u, NEW d, NEW k, RelX(u, d, k), NEW say, OpensX(u, say)
  PROVE  FeedsX(say.u, k, CX!Decode(d, say.e))
<1> DEFINE v == say.u
           e == say.e
           c == v.block[1]
           r == CX!Decode(d, e)
           l == HearAll(k, r.out)
<1>1. /\ u.phase = "open" /\ u.block = <<>> /\ (v.signs <=> u.signs) /\ v.n = u.n + 1 /\ v.items = u.items
      /\ v.block = <<c>> /\ c.i = u.n + 1 /\ c.x = <<>> /\ e.t = "added" /\ v.phase = "open"
  BY DEF OpensX, Same
<1>2. r = CX!WebSearch(d, e.item, "started")
  BY <1>1 DEF CX!Decode
<1>3. CoreX(d, k) /\ u.n \in Nat /\ ListX(u.items, d) /\ IdsX(d, u.n) /\ (u.signs => d.thinking = <<>> /\ k.think = <<>>)
  BY <1>1 DEF RelX, OpenC
<1>4. StageX(d, k, r)
  BY <1>2, <1>3, WebSearchX
<1> HIDE DEF v, e, c, r
<1>5. r.err = FALSE /\ Plain(r.out) /\ CoreX(r.s, l) /\ r.s.items = d.items
      /\ (u.signs => r.s.thinking = <<>> /\ l.think = <<>>)
  BY <1>3, <1>4 DEF StageX
<1>6. IdsX(r.s, v.n) /\ \A j \in 1..Len(r.s.items) : r.s.items[j].id # v.n
  BY <1>1, <1>3, <1>5 DEF IdsX
<1>7. Mused(c) = <<>>
  BY <1>1 DEF Mused
<1> HIDE DEF l
<1>8. InItemX(v, c, r.s, l)
  BY <1>1, <1>3, <1>5, <1>6, <1>7, SeqFew DEF InItemX
<1>9. OpenC(v, r.s, l)
  BY <1>1, <1>6, <1>8 DEF OpenC
<1>10. ListX(v.items, r.s) /\ v.n \in Nat
  BY <1>1, <1>3, <1>5, ListKeeps
<1>11. FeedsX(v, k, r)
  BY <1>5, <1>9, <1>10 DEF FeedsX, RelX, l
<1> QED BY <1>11 DEF v, r, e

\* What an item's deltas keep.
LEMMA GrownX ==
  ASSUME NEW u, NEW d, NEW k, RelX(u, d, k), NEW v, NEW r, NEW b, NEW c,
         u.phase = "open", Same(u, v), v.n = u.n, v.items = u.items, u.block = <<b>>, v.block = <<c>>, c.i = b.i,
         c.kind = b.kind, r.err = FALSE, Plain(r.out), CoreX(r.s, HearAll(k, r.out)), r.s.items = d.items,
         b.kind = "reasoning" => IsSeq(c.x),
         u.signs => IF b.kind = "reasoning" THEN r.s.thinking = c.x /\ HearAll(k, r.out).think = Mused(c)
                    ELSE r.s.thinking = <<>> /\ HearAll(k, r.out).think = <<>>
  PROVE  FeedsX(v, k, r)
<1> DEFINE l == HearAll(k, r.out)
<1>1. u.n \in Nat /\ ListX(u.items, d) /\ IdsX(d, u.n) /\ u.block # <<>> /\ v.block # <<>>
  BY DEF RelX, OpenC
<1>2. PICK a : InItemX(u, a, d, k)
  BY <1>1 DEF RelX, OpenC
<1>3. a = b
  BY <1>2 DEF InItemX
<1>4. IdsX(r.s, v.n)
  BY <1>1 DEF IdsX
<1> HIDE DEF l
<1>5. InItemX(v, c, r.s, l)
  BY <1>2, <1>3 DEF InItemX, Same, l
<1>6. ListX(v.items, r.s)
  BY <1>1, ListKeeps
<1>7. RelX(v, r.s, l)
  BY <1>1, <1>4, <1>5, <1>6 DEF RelX, OpenC, l
<1> QED BY <1>7 DEF FeedsX, l

\* What was thought, after a delta.
LEMMA MusedMore ==
  ASSUME NEW b, NEW c, IsSeq(b.x), NEW x, c.x = Append(b.x, x), c.i = b.i
  PROVE  /\ IsSeq(c.x) /\ c.x # <<>>
         /\ Mused(c) = IF b.x = <<>> THEN <<[item |-> b.i, text |-> <<x>>]>>
                       ELSE <<[item |-> b.i, text |-> b.x \o <<x>>]>>
<1> DEFINE a == b.x
           n == a \o <<x>>
<1>1. Append(a, x) = n /\ IsSeq(n) /\ Len(n) = Len(a) + 1 /\ Len(a) \in Nat
  BY SeqSnoc
<1>2. a = <<>> => n = <<x>>
  <2>1. a = <<>> => Append(a, x) = <<x>>
    OBVIOUS
  <2> QED BY <1>1, <2>1
<1>3. n # <<>>
  BY <1>1
<1> HIDE DEF a, n
<1>4. c.x = n
  BY <1>1 DEF a
<1>5. Mused(c) = <<[item |-> b.i, text |-> n]>>
  BY <1>3, <1>4 DEF Mused
<1> QED BY <1>1, <1>2, <1>3, <1>4, <1>5 DEF a, n

\* A decoder is told that an item grows.
LEMMA GrowsFeed ==
  ASSUME NEW u, NEW d, NEW k, RelX(u, d, k), NEW say, GrowsX(u, say)
  PROVE  FeedsX(say.u, k, CX!Decode(d, say.e))
<1> DEFINE v == say.u
           e == say.e
           b == u.block[1]
           c == v.block[1]
           r == CX!Decode(d, e)
           l == HearAll(k, r.out)
<1>1. /\ u.phase = "open" /\ u.block = <<b>> /\ Same(u, v) /\ v.n = u.n /\ v.items = u.items
      /\ v.block = <<c>> /\ c.i = b.i /\ c.kind = b.kind
      /\ \/ b.kind = "text" /\ e.t \in {"text", "cite"}
         \/ b.kind = "reasoning" /\ e.t = "thinking" /\ e.id = b.i /\ c.x = Append(b.x, e.x)
         \/ b.kind = "search" /\ e.t = "search"
  BY DEF GrowsX
<1>2. CoreX(d, k)
  BY DEF RelX
<1>3. PICK a : InItemX(u, a, d, k)
  <2> HIDE DEF v, e, b, c, r, l
  <2>1. u.phase = "open" /\ u.block # <<>>
    BY <1>1
  <2> QED BY <2>1, Zenon DEF RelX, OpenC
<1>17. a = b
  <2> HIDE DEF b
  <2> QED BY <1>1, <1>3 DEF InItemX
<1> HIDE DEF v, e, b, c, r
<1>4. SUFFICES FeedsX(v, k, r)
  BY DEF v, r, e
<1>5. /\ b.kind = "reasoning" => IsSeq(b.x)
      /\ u.signs => IF b.kind = "reasoning" THEN d.thinking = b.x /\ k.think = Mused(b)
                    ELSE d.thinking = <<>> /\ k.think = <<>>
  BY <1>3, <1>17 DEF InItemX
<1> HIDE DEF l
<1>6. CASE b.kind = "text" /\ e.t \in {"text", "cite"}
  <2>1. PICK ev : ev.k \in {"text", "cite"} /\ r = CX!Ok(d, <<ev>>)
    <3>1. CASE e.t = "text"
      <4> DEFINE ev == [k |-> "text", x |-> e.x, span |-> 0]
      <4>1. ev.k = "text" /\ r = CX!Ok(d, <<ev>>)
        BY <3>1 DEF r, CX!Decode
      <4> HIDE DEF ev
      <4> QED BY <4>1
    <3>2. CASE e.t = "cite"
      <4> DEFINE ev == [k |-> "cite", x |-> e.x, url |-> TRUE, span |-> 0]
      <4>1. ev.k = "cite" /\ r = CX!Ok(d, <<ev>>)
        BY <3>2 DEF r, CX!Decode
      <4> HIDE DEF ev
      <4> QED BY <4>1
    <3> QED BY <1>6, <3>1, <3>2
  <2>2. r.err = FALSE /\ r.s = d /\ r.out = <<ev>>
    BY <2>1 DEF CX!Ok
  <2> DEFINE m == Hear(k, ev)
  <2>3. l = m
    BY <2>2, HearAt DEF l
  <2>4. Fit(k, ev) /\ Called(k, ev) = k.call /\ Thought(k, ev) \in {k.think, <<>>}
    BY <2>1 DEF Fit, Called, Thought
  <2>5. m.ok = "yes" /\ m.call = k.call /\ m.think \in {k.think, <<>>} /\ m.used = k.used /\ m.phase = k.phase
    BY <1>2, <2>1, <2>4, HearIs DEF CoreX
  <2> HIDE DEF m
  <2>6. CoreX(d, m)
    BY <1>2, <2>5 DEF CoreX
  <2>7. Plain(r.out)
    BY <2>1, <2>2, PlainFew
  <2>8. CoreX(r.s, HearAll(k, r.out)) /\ r.s.items = d.items
    BY <2>2, <2>3, <2>6 DEF l
  <2>9. u.signs => r.s.thinking = <<>> /\ HearAll(k, r.out).think = <<>>
    BY <1>5, <1>6, <2>2, <2>3, <2>5 DEF l
  <2>10. b.kind # "reasoning"
    BY <1>6
  <2> QED BY <1>1, <2>2, <2>7, <2>8, <2>9, <2>10, GrownX
<1>7. CASE b.kind = "search" /\ e.t = "search"
  <2>1. r = CX!Hosted(d, e.id, e.phase)
    BY <1>7 DEF r, CX!Decode
  <2>2. StageX(d, k, r)
    BY <1>2, <2>1, HostedX
  <2>8. r.err = FALSE /\ Plain(r.out) /\ CoreX(r.s, HearAll(k, r.out)) /\ r.s.items = d.items
    BY <2>2 DEF StageX
  <2>9. u.signs => r.s.thinking = <<>> /\ HearAll(k, r.out).think = <<>>
    BY <1>5, <1>7, <2>2 DEF StageX
  <2>10. b.kind # "reasoning"
    BY <1>7
  <2> QED BY <1>1, <2>8, <2>9, <2>10, GrownX
<1>8. CASE b.kind = "reasoning" /\ e.t = "thinking" /\ e.id = b.i /\ c.x = Append(b.x, e.x)
  <2> DEFINE f == [d EXCEPT !.thinking = Append(@, e.x)]
             x == <<e.x>>
             ev == [k |-> "thinking", x |-> x, item |-> e.id]
             m == Hear(k, ev)
  <2>1. r = CX!Ok(f, <<ev>>)
    BY <1>8 DEF r, CX!Decode
  <2>2. r.err = FALSE /\ r.s = f /\ r.out = <<ev>>
    BY <2>1 DEF CX!Ok
  <2>3. IsCodex(f) /\ f.calls = d.calls /\ f.phase = d.phase /\ f.items = d.items /\ f.thinking = Append(d.thinking, e.x)
    BY <1>2 DEF CoreX, IsCodex, CodexFields
  <2>4. ev.k = "thinking" /\ ev.x = x /\ ev.item = b.i
    BY <1>8
  <2>5. IsSeq(x) /\ x # <<>>
    BY SeqFew
  <2> HIDE DEF f, ev
  <2>6. l = m
    BY <2>2, HearAt DEF l
  <2>7. Fit(k, ev) /\ Called(k, ev) = k.call
    <3> HIDE DEF x
    <3> QED BY <2>4, <2>5 DEF Fit, Called
  <2>8. m.ok = "yes" /\ m.call = k.call /\ m.used = k.used /\ m.phase = k.phase /\ m.think = Thought(k, ev)
    BY <1>2, <2>4, <2>7, HearIs DEF CoreX
  <2> HIDE DEF m
  <2>9. CoreX(f, m)
    BY <1>2, <2>3, <2>8 DEF CoreX
  <2>10. IsSeq(c.x) /\ Mused(c) = IF b.x = <<>> THEN <<[item |-> b.i, text |-> x]>>
                                  ELSE <<[item |-> b.i, text |-> b.x \o x]>>
    BY <1>1, <1>5, <1>8, MusedMore
  <2>11. u.signs => Thought(k, ev) = Mused(c)
    <3> SUFFICES ASSUME u.signs PROVE Thought(k, ev) = Mused(c)
      OBVIOUS
    <3> HIDE DEF x
    <3>1. CASE b.x = <<>>
      <4>1. k.think = <<>>
        BY <1>5, <1>8, <3>1 DEF Mused
      <4>2. Thought(k, ev) = <<[item |-> b.i, text |-> x]>>
        BY <2>4, <4>1 DEF Thought
      <4> QED BY <2>10, <3>1, <4>2
    <3>2. CASE b.x # <<>>
      <4>1. k.think = <<[item |-> b.i, text |-> b.x]>>
        BY <1>5, <1>8, <3>2 DEF Mused
      <4>2. k.think # <<>> /\ k.think[1].item = b.i /\ k.think[1].text = b.x
        BY <4>1
      <4>3. Thought(k, ev) = <<[item |-> b.i, text |-> b.x \o x]>>
        BY <2>4, <4>2 DEF Thought
      <4> QED BY <2>10, <3>2, <4>3
    <3> QED BY <3>1, <3>2
  <2>12. Plain(r.out)
    BY <2>2, <2>4, PlainFew
  <2>13. u.signs => f.thinking = c.x
    BY <1>5, <1>8, <2>3
  <2>14. CoreX(r.s, HearAll(k, r.out)) /\ r.s.items = d.items
    BY <2>2, <2>3, <2>6, <2>9 DEF l
  <2>15. u.signs => r.s.thinking = c.x /\ HearAll(k, r.out).think = Mused(c)
    BY <2>2, <2>6, <2>8, <2>11, <2>13 DEF l
  <2> HIDE DEF x
  <2> QED BY <1>1, <1>8, <2>2, <2>10, <2>12, <2>14, <2>15, GrownX
<1> QED BY <1>1, <1>6, <1>7, <1>8, SMTT(30)

-----------------------------------------------------------------------------
\* A list with one item more.
LEMMA SnocHas ==
  ASSUME NEW a, IsSeq(a), NEW x
  PROVE  /\ x \in CX!Range(Append(a, x))
         /\ \A y : y \in CX!Range(a) => y \in CX!Range(Append(a, x))
         /\ \A P : (\A j \in 1..Len(a) : a[j].id \in P) /\ x.id \in P => \A j \in 1..Len(Append(a, x)) : Append(a, x)[j].id \in P
<1> DEFINE n == a \o <<x>>
           m == Len(a)
<1>1. Append(a, x) = n /\ IsSeq(n) /\ Len(n) = m + 1 /\ m \in Nat /\ \A j \in 1..m + 1 : n[j] = IF j = m + 1 THEN x ELSE a[j]
  BY SeqSnoc
<1> HIDE DEF n
<1>2. \A j \in 1..m : n[j] = a[j] /\ j \in 1..m + 1
  BY <1>1
<1>3. m + 1 \in 1..m + 1 /\ n[m + 1] = x
  BY <1>1
<1>5. x \in CX!Range(n)
  BY <1>1, <1>3 DEF CX!Range, IsSeq
<1>6. \A y : y \in CX!Range(a) => y \in CX!Range(n)
  BY <1>1, <1>2 DEF CX!Range, IsSeq
<1>7. \A P : (\A j \in 1..m : a[j].id \in P) /\ x.id \in P => \A j \in 1..Len(n) : n[j].id \in P
  BY <1>1
<1> QED BY <1>1, <1>5, <1>6, <1>7

\* A list with one item more.
LEMMA ListMore ==
  ASSUME NEW items, NEW d, ListX(items, d), NEW item, ItemX(item), NEW f,
         \A x : x \in CX!Range(d.items) => x \in CX!Range(f.items), TakenX(f, item)
  PROVE  ListX(Append(items, item), f)
<1> DEFINE n == items \o <<item>>
           m == Len(items)
<1>1. IsSeq(items) /\ \A j \in 1..m : ItemX(items[j]) /\ TakenX(f, items[j])
  BY DEF ListX, TakenX
<1>2. Append(items, item) = n /\ IsSeq(n) /\ Len(n) = m + 1 /\ m \in Nat
      /\ \A j \in 1..m + 1 : n[j] = IF j = m + 1 THEN item ELSE items[j]
  BY <1>1, SeqSnoc
<1> HIDE DEF n
<1>3. \A j \in 1..m + 1 : ItemX(n[j]) /\ TakenX(f, n[j])
  BY <1>1, <1>2
<1> QED BY <1>2, <1>3 DEF ListX

\* A decoder is told that an item is done.
LEMMA DoneFeed ==
  ASSUME NEW u, NEW d, NEW k, RelX(u, d, k), NEW say, DoneX(u, say)
  PROVE  FeedsX(say.u, k, CX!Decode(d, say.e))
<1> DEFINE v == say.u
           e == say.e
           b == u.block[1]
           item == e.item
           r == CX!Decode(d, e)
           l == HearAll(k, r.out)
<1>1. /\ u.phase = "open" /\ u.block = <<b>> /\ (v.signs <=> u.signs) /\ v.phase = "open" /\ v.n = u.n /\ v.block = <<>>
      /\ v.items = Append(u.items, item) /\ e.t = "done" /\ ItemX(item) /\ item.id = b.i /\ item.kind = b.kind
      /\ b.kind = "reasoning" => (b.x # <<>> => item.body = b.x) /\ (item.sig # <<>> <=> u.signs)
  BY DEF DoneX, Same, ItemX
<1>2. r = CX!Item(d, item)
  BY <1>1 DEF CX!Decode
<1>3. PICK a : InItemX(u, a, d, k)
  BY <1>1 DEF RelX, OpenC
<1>17. a = b
  <2> HIDE DEF b
  <2> QED BY <1>1, <1>3 DEF InItemX
<1> HIDE DEF v, e, b, item, r
<1>4. /\ b.i = u.n /\ u.n # 0 /\ (\A j \in 1..Len(d.items) : d.items[j].id # u.n)
      /\ u.signs => IF b.kind = "reasoning" THEN d.thinking = b.x /\ k.think = Mused(b)
                    ELSE d.thinking = <<>> /\ k.think = <<>>
  BY <1>3, <1>17 DEF InItemX
<1>5. CoreX(d, k) /\ u.n \in Nat /\ ListX(u.items, d) /\ IdsX(d, u.n) /\ IsSeq(d.items)
  BY <1>1 DEF RelX, OpenC, CoreX
<1> HIDE DEF l
<1>6. SUFFICES FeedsX(v, k, r)
  BY DEF v, r, e
<1>7. CASE b.kind = "reasoning" /\ u.signs
  <2> DEFINE kept == KeptOf(item)
  <2>1. kept.id = u.n
    <3>1. kept.id = item.id
      BY <1>1, KeptIs DEF ItemX
    <3> QED BY <1>1, <1>4, <3>1
  <2> HIDE DEF kept
  <2>2. kept \notin CX!Range(d.items)
    BY <1>4, <1>5, <2>1 DEF CX!Range, IsSeq
  <2>3. ThinksX(d, k, item)
    <3>1. CASE b.x = <<>>
      BY <1>4, <1>7, <3>1 DEF ThinksX, Mused
    <3>2. CASE b.x # <<>>
      <4>1. k.think = <<[item |-> b.i, text |-> b.x]>>
        BY <1>4, <1>7, <3>2 DEF Mused
      <4>2. k.think # <<>> /\ k.think[1].text = b.x
        BY <4>1
      <4> QED BY <1>1, <1>4, <1>7, <3>2, <4>2 DEF ThinksX
    <3> QED BY <3>1, <3>2
  <2>4. TakesX(d, k, item, r)
    BY <1>1, <1>2, <1>5, <1>7, <2>2, <2>3, ItemTakes DEF kept
  <2>5. r.err = FALSE /\ Plain(r.out) /\ CoreX(r.s, l) /\ r.s.items = Append(d.items, kept) /\ r.s.thinking = <<>>
        /\ l.think = <<>>
    BY <2>4 DEF TakesX, l, kept
  <2>6. kept \in CX!Range(r.s.items) /\ \A y : y \in CX!Range(d.items) => y \in CX!Range(r.s.items)
    BY <1>5, <2>5, SnocHas
  <2>7. ListX(v.items, r.s)
    <3>1. TakenX(r.s, item)
      BY <2>6 DEF TakenX, kept
    <3> QED BY <1>1, <1>5, <2>6, <3>1, ListMore
  <2>8. IdsX(r.s, v.n)
    <3> DEFINE P == 1..u.n
    <3>1. (\A j \in 1..Len(d.items) : d.items[j].id \in P)
      BY <1>5 DEF IdsX
    <3>4. kept.id \in P
      BY <1>4, <1>5, <2>1
    <3> HIDE DEF P
    <3>2. \A j \in 1..Len(Append(d.items, kept)) : Append(d.items, kept)[j].id \in P
      BY <1>5, <3>1, <3>4, SnocHas
    <3> QED BY <1>1, <2>5, <3>2 DEF IdsX, P
  <2>9. RelX(v, r.s, l)
    BY <1>1, <1>5, <2>5, <2>7, <2>8 DEF RelX, OpenC
  <2> QED BY <2>5, <2>9 DEF FeedsX, l
<1>8. CASE ~(b.kind = "reasoning" /\ u.signs)
  <2>1. \A f : TakenX(f, item)
    BY <1>1, <1>8 DEF TakenX
  <2>2. StageX(d, k, r)
    BY <1>1, <1>2, <1>5, <2>1, ItemStage
  <2>3. r.err = FALSE /\ Plain(r.out) /\ CoreX(r.s, l) /\ r.s.items = d.items
        /\ (u.signs => r.s.thinking = <<>> /\ l.think = <<>>)
    BY <1>4, <1>8, <2>2 DEF StageX, l
  <2>4. ListX(v.items, r.s)
    BY <1>1, <1>5, <2>1, <2>3, ListMore
  <2>5. IdsX(r.s, v.n)
    BY <1>1, <1>5, <2>3 DEF IdsX
  <2>6. RelX(v, r.s, l)
    BY <1>1, <1>5, <2>3, <2>4, <2>5 DEF RelX, OpenC
  <2> QED BY <2>3, <2>6 DEF FeedsX, l
<1> QED BY <1>7, <1>8

\* A decoder is told that the response ends.
LEMMA EndsFeed ==
  ASSUME NEW u, NEW d, NEW k, RelX(u, d, k), NEW say, EndsX(u, say), say.e.t # "failed"
  PROVE  FeedsX(say.u, k, CX!Decode(d, say.e))
<1> DEFINE v == say.u
           e == say.e
           r == CX!Decode(d, e)
           l == HearAll(k, r.out)
<1>1. e.t \in {"completed", "incomplete"} /\ e.output \in {<<>>, u.items} /\ v.phase = "over" /\ v.items = u.items
      /\ v.n = u.n
  BY DEF EndsX
<1>2. r = CX!TerminalResponse(d, e)
  BY <1>1 DEF CX!Decode
<1> HIDE DEF v, e, r
<1>3. CoreX(d, k) /\ u.n \in Nat /\ ListX(u.items, d)
  BY DEF RelX
<1>4. ListX(<<>>, d)
  BY SeqFew DEF ListX
<1>5. StageX(d, k, r)
  BY <1>1, <1>2, <1>3, <1>4, TerminalX
<1>6. r.err = FALSE /\ Plain(r.out) /\ CoreX(r.s, l) /\ r.s.items = d.items
  BY <1>5 DEF StageX
<1>7. ListX(v.items, r.s)
  BY <1>1, <1>3, <1>6, ListKeeps
<1> HIDE DEF l
<1>8. RelX(v, r.s, l)
  BY <1>1, <1>3, <1>6, <1>7 DEF RelX
<1>9. FeedsX(v, k, r)
  BY <1>6, <1>8 DEF FeedsX, l
<1> QED BY <1>9 DEF v, r, e

\* Whatever Codex says is heard, unless it is a failure.
LEMMA CodexFeeds ==
  ASSUME NEW u, UpOK(u), u.who = "codex", NEW d, NEW k, RelX(u, d, k), NEW say \in CodexSays(u)
  PROVE  IF say.e.t = "failed" THEN CX!Decode(d, say.e).err ELSE FeedsX(say.u, k, CX!Decode(d, say.e))
<1>1. u.phase = "open"
  BY DEF CodexSays
<1>2. PartX(u) /\ u.n \in Nat /\ IsUp(u)
  <2>1. CASE u.block = <<>>
    BY <2>1 DEF PartX, RelX, UpOK
  <2>2. CASE u.block # <<>>
    <3>1. PICK b : IsPart(b) /\ IsSeq(b.cites) /\ u.block = <<b>>
      BY <2>2 DEF UpOK, BlockOK
    <3>2. PICK a : InItemX(u, a, d, k)
      BY <1>1, <2>2 DEF RelX, OpenC
    <3>3. a = b
      BY <3>1, <3>2 DEF InItemX
    <3>4. b.kind = "reasoning" => IsSeq(b.x)
      BY <3>2, <3>3 DEF InItemX
    <3> QED BY <3>1, <3>4 DEF PartX, RelX, UpOK
  <2> QED BY <2>1, <2>2
<1>3. OpensX(u, say) \/ GrowsX(u, say) \/ DoneX(u, say) \/ EndsX(u, say)
  BY <1>2, SaysCodex
<1>4. CASE say.e.t = "failed"
  <2>1. CX!Decode(d, say.e) = CX!Err(d)
    BY <1>4 DEF CX!Decode
  <2>2. CX!Err(d).err
    BY DEF CX!Err
  <2> QED BY <1>4, <2>1, <2>2
<1>5. CASE say.e.t # "failed"
  <2>1. FeedsX(say.u, k, CX!Decode(d, say.e))
    BY <1>3, <1>5, OpensFeed, GrowsFeed, DoneFeed, EndsFeed
  <2> QED BY <1>5, <2>1
<1> QED BY <1>4, <1>5

\* A Codex decoder that is drained closes the answer.
LEMMA CodexDrains == ASSUME NEW d, NEW k, CoreX(d, k) PROVE Drains(k, CX!Finish(d).out)
<1> DEFINE reason == IF d.stop # "" THEN d.stop ELSE IF d.calls = <<>> THEN "end_turn" ELSE "tool_use"
           out == <<[k |-> "finish", reason |-> reason], [k |-> "usage"]>>
<1>1. CX!Finish(d).out = out
  BY DEF CX!Finish, CX!Ok
<1>2. Drains(k, out)
  <2> HIDE DEF reason
  <2> QED BY FinishHeard DEF CoreX
<1> HIDE DEF out
<1> QED BY <1>1, <1>2

\* A Codex stream that has just begun.
LEMMA CodexBegins ==
  ASSUME NEW u, u.n \in Nat, u.block = <<>>, u.items = <<>>
  PROVE  RelX(u, CX!New, Unheard)
<1>1. CoreX(CX!New, Unheard)
  BY SeqFew DEF CoreX, CX!New, Unheard, IsCodex, CodexFields
<1>2. ListX(<<>>, CX!New)
  BY SeqFew DEF ListX
<1>3. IdsX(CX!New, u.n) /\ CX!New.thinking = <<>> /\ Unheard.think = <<>>
  BY DEF CX!New, Unheard, IdsX
<1> QED BY <1>1, <1>2, <1>3 DEF RelX, OpenC

\* An event that fails the answer when the body takes it.
Failing(who, e) == e = Failure \/ e.t \in FailsOf(who)
SomeFailing(queue) == \E j \in 1..Len(queue) : Failing(up.who, queue[j])

\* The variables keep their shape.
Shape ==
  /\ dialect \in {"messages", "responses", "chat"}
  /\ terminal \in BOOLEAN /\ finished \in BOOLEAN /\ events \in BOOLEAN
  /\ UpOK(up)

\* At most Burst events wait, and a failure; all of them fit the decoder.
Queue ==
  /\ IsSeq(data) /\ Len(data) <= 1 /\ IsSeq(ready) /\ Len(ready) <= Burst + 1
  /\ ~finished => Len(ready) + Len(data) <= Burst
  /\ \A j \in 1..Len(data) : EventFits(up.who, data[j])
  /\ \A j \in 1..Len(ready) : EventFits(up.who, ready[j])

\* A terminal event is the last, and the upstream had ended; a failure the
\* body has not taken yet is still in the queue.
Cause ==
  /\ terminal => data = <<>> /\ up.phase \in {"over", "failed"}
  /\ \A j \in 1..Len(data) : data[j].t \in EndsOf(up.who) => up.phase \in {"over", "failed"}
  /\ events /\ up.phase = "failed" => SomeFailing(data) \/ SomeFailing(ready)
  /\ events /\ finished => terminal \/ \E j \in 1..Len(ready) : ready[j] = Failure

\* A client of Messages stands where the encoder has put it.
Ready == dialect = "messages" => Good(enc, client)

\* Its answer once it has ended: told as complete, or as failed.
Settled ==
  dialect = "messages" => /\ client.phase \in {"over", "failed"}
                          /\ client.phase = "over" =>
                               /\ up.phase = "over"
                               /\ client.blocks = enc.blocks /\ client.final = enc.blocks

\* The client while the upstream is held, and once it has been let go.
Talk ==
  /\ events => Ready /\ (up.who = "claude" => ClaudeOK(dec))
  /\ ~events => Settled

StreamInv == Shape /\ Queue /\ Cause /\ Talk

\* The transport knows a stream's ends.
LEMMA EndsAre == UpOK(up) => TerminalEvents = EndsOf(up.who)
BY DEF TerminalEvents, EndsOf, UpOK

\* Whatever an upstream says fits its decoder.
LEMMA SaysOK ==
  ASSUME UpOK(up), NEW say \in UpstreamSays(up)
  PROVE  SayOK(up.who, say) /\ up.phase \in {"open", "reason"}
<1>1. CASE up.who = "claude"
  BY <1>1, ClaudeSaysOK DEF UpstreamSays
<1>2. CASE up.who = "codex"
  BY <1>2, CodexSaysOK DEF UpstreamSays
<1> QED BY <1>1, <1>2 DEF UpOK

\* StreamInv over a data line that arrives.
LEMMA DataLineKeeps == ASSUME StreamInv, DataLine PROVE StreamInv'
<1>1. PICK say \in UpstreamSays(up) : up' = say.u /\ data' = <<say.e>>
  BY DEF DataLine
<1>2. /\ events /\ ~finished /\ Len(ready) < Burst /\ data = <<>>
      /\ UNCHANGED <<dialect, ready, terminal, finished, dec, enc, events, client>>
  BY DEF DataLine
<1>3. SayOK(up.who, say) /\ up.phase \in {"open", "reason"}
  BY SaysOK DEF StreamInv, Shape
<1>4. UpOK(up') /\ up'.who = up.who /\ EventFits(up.who, say.e)
  BY <1>1, <1>3 DEF SayOK
<1>5. Shape'
  BY <1>2, <1>4 DEF StreamInv, Shape
<1>6. IsSeq(data') /\ Len(data') = 1 /\ data'[1] = say.e
  BY <1>1, SeqFew
<1>7. Queue'
  BY <1>2, <1>4, <1>6, BurstAssumption DEF StreamInv, Queue
<1>8. ~terminal
  BY <1>3 DEF StreamInv, Cause
<1>9. Cause'
  <2>1. \A j \in 1..Len(data') : data'[j] = say.e
    BY <1>6
  <2>2. up'.phase = "failed" => SomeFailing(data)'
    BY <1>1, <1>3, <1>4, <1>6 DEF SomeFailing, Failing, SayOK
  <2>3. say.e.t \in EndsOf(up.who) => up'.phase \in {"over", "failed"}
    BY <1>1, <1>3 DEF SayOK
  <2> QED BY <1>2, <1>4, <1>8, <2>1, <2>2, <2>3 DEF Cause
<1>10. Talk'
  BY <1>2, <1>4 DEF StreamInv, Talk, Ready
<1> QED BY <1>5, <1>7, <1>9, <1>10 DEF StreamInv

\* StreamInv over a frame that is whole.
LEMMA PayloadKeeps == ASSUME StreamInv, Payload PROVE StreamInv'
<1>1. /\ events /\ ~finished /\ data # <<>> /\ ready' = ready \o data /\ data' = <<>>
      /\ terminal' = (terminal \/ data[1].t \in TerminalEvents)
      /\ UNCHANGED <<dialect, up, finished, dec, enc, events, client>>
  BY DEF Payload
<1>2. IsSeq(data) /\ Len(data) <= 1 /\ IsSeq(ready)
  BY DEF StreamInv, Queue
<1> DEFINE e == data[1]
<1>3. Len(data) = 1 /\ data = <<e>>
  BY <1>1, <1>2 DEF IsSeq
<1> HIDE DEF e
<1>4. /\ IsSeq(ready') /\ Len(ready) \in Nat /\ Len(ready') = Len(ready) + 1
      /\ \A j \in 1..Len(ready) + 1 : ready'[j] = IF j = Len(ready) + 1 THEN e ELSE ready[j]
  BY <1>1, <1>2, <1>3, SeqSnoc
<1>5. Shape'
  BY <1>1 DEF StreamInv, Shape
<1>6. data[1] = e /\ EventFits(up.who, e)
  BY <1>3 DEF StreamInv, Queue, e
<1>7. Queue'
  <2>1. IsSeq(data') /\ Len(data') = 0
    BY <1>1, SeqFew
  <2>2. \A j \in 1..Len(ready') : EventFits(up.who, ready'[j])
    BY <1>4, <1>6 DEF StreamInv, Queue
  <2>3. Len(ready) + 1 <= Burst /\ Len(ready') <= Burst + 1 /\ Len(ready') + Len(data') <= Burst
    BY <1>1, <1>3, <1>4, <2>1, BurstAssumption DEF StreamInv, Queue
  <2> QED BY <1>1, <1>4, <2>1, <2>2, <2>3 DEF Queue
<1>8. Cause'
  <2>1. terminal' => up'.phase \in {"over", "failed"}
    BY <1>1, <1>3, <1>6, EndsAre DEF StreamInv, Cause, Shape
  <2>2. SomeFailing(data) \/ SomeFailing(ready) => SomeFailing(ready)'
    <3>1. \A j \in 1..Len(data) : data[j] = e
      BY <1>3, <1>6
    <3> QED BY <1>1, <1>4, <3>1 DEF SomeFailing
  <2> QED BY <1>1, <2>1, <2>2 DEF StreamInv, Cause
<1>9. Talk'
  BY <1>1 DEF StreamInv, Talk, Ready
<1> QED BY <1>5, <1>7, <1>8, <1>9 DEF StreamInv

\* The stream has nothing more, after a terminal event or with a failure.
LEMMA ClosedKeeps ==
  ASSUME StreamInv, events, ~finished, finished' = TRUE,
         ready' = Append(ready, Failure) \/ (terminal /\ ready' = ready),
         UNCHANGED <<dialect, up, data, terminal, dec, enc, events, client>>
  PROVE  StreamInv'
<1>1. Shape' /\ Talk'
  BY DEF StreamInv, Shape, Talk, Ready
<1>2. IsSeq(ready) /\ IsSeq(data) /\ Len(ready) + Len(data) <= Burst
  BY DEF StreamInv, Queue
<1>3. CASE terminal /\ ready' = ready
  <2>1. Queue'
    BY <1>3 DEF StreamInv, Queue
  <2>2. Cause'
    BY <1>3 DEF StreamInv, Cause, SomeFailing
  <2> QED BY <1>1, <2>1, <2>2 DEF StreamInv
<1>4. CASE ready' = Append(ready, Failure)
  <2>1. /\ IsSeq(ready') /\ Len(ready) \in Nat /\ Len(ready') = Len(ready) + 1
        /\ \A j \in 1..Len(ready) + 1 : ready'[j] = IF j = Len(ready) + 1 THEN Failure ELSE ready[j]
    <3>1. ready' = ready \o <<Failure>>
      BY <1>2, <1>4, SeqSnoc
    <3> QED BY <1>2, <3>1, SeqSnoc
  <2>2. EventFits(up.who, Failure)
    BY DEF EventFits, Failure
  <2>3. Len(data) \in Nat
    BY <1>2 DEF IsSeq
  <2>4. Queue'
    BY <1>2, <2>1, <2>2, <2>3, BurstAssumption DEF StreamInv, Queue
  <2>5. ready'[Len(ready')] = Failure /\ Len(ready') \in 1..Len(ready')
    BY <2>1
  <2>6. SomeFailing(ready)'
    BY <2>5 DEF SomeFailing, Failing
  <2>7. Cause'
    BY <2>5, <2>6 DEF StreamInv, Cause
  <2> QED BY <1>1, <2>4, <2>7 DEF StreamInv
<1> QED BY <1>3, <1>4

\* StreamInv over a connection that breaks.
LEMMA FailKeeps == ASSUME StreamInv, Fail PROVE StreamInv'
BY ClosedKeeps DEF Fail

\* StreamInv over a connection that closes.
LEMMA EndKeeps == ASSUME StreamInv, End PROVE StreamInv'
BY ClosedKeeps DEF End

\* A decoder given an event it can read: a failure is an error.
LEMMA FeedOK ==
  ASSUME UpOK(up), up.who = "claude" => ClaudeOK(dec), NEW e, EventFits(up.who, e)
  PROVE  /\ AllOK(Feed(dec, e).out)
         /\ ~Feed(dec, e).err => (up.who = "claude" => ClaudeOK(Feed(dec, e).s))
              /\ e.t \notin FailsOf(up.who)
<1>1. CASE up.who = "claude"
  BY <1>1, DecodeClaude DEF Feed, EventFits, FailsOf, Claudes
<1>2. CASE up.who = "codex"
  BY <1>2, DecodeCodex DEF Feed, EventFits, FailsOf, Codexes
<1> QED BY <1>1, <1>2 DEF UpOK

\* What a drained decoder lets go.
LEMMA DrainOK ==
  ASSUME UpOK(up), up.who = "claude" => ClaudeOK(dec)
  PROVE  AllOK(Drain(dec).out)
<1>1. CASE up.who = "claude"
  BY <1>1, FinishClaude DEF Drain, Claudes
<1>2. CASE up.who = "codex"
  BY <1>2, FinishCodex DEF Drain, Codexes
<1> QED BY <1>1, <1>2 DEF UpOK

\* An error ends the answer as failed.
LEMMA ErrorSettles ==
  ASSUME StreamInv, events, NEW r, r.err, NEW last, Send(r, last), UNCHANGED <<dialect, up>>
  PROVE  events' = FALSE /\ Settled'
<1>1. events' = FALSE /\ client' = Accept(dialect, client, ErrorFrame(r.s).out \o Sentinel)
  BY DEF Send
<1>2. CASE dialect # "messages"
  BY <1>1, <1>2 DEF Settled
<1>3. CASE dialect = "messages"
  <2> DEFINE fr == [f |-> "error"]
  <2>1. IsClient(client) /\ client.phase = "open"
    BY <1>3 DEF StreamInv, Talk, Ready, Good, Sim
  <2>2. ErrorFrame(r.s).out \o Sentinel = <<fr>>
    BY <1>3 DEF ErrorFrame, Sentinel, Ok
  <2>3. fr.f = "error"
    OBVIOUS
  <2> HIDE DEF fr
  <2>4. MessagesAccept(client, fr) = Into(client, "failed")
    BY <2>1, <2>3 DEF MessagesAccept
  <2>5. client' = Into(client, "failed")
    BY <1>1, <1>3, <2>2, <2>4, AcceptAt DEF Take
  <2>6. client'.phase = "failed"
    BY <2>1, <2>5 DEF Into, IsClient, ClientFields
  <2> QED BY <1>1, <2>6 DEF Settled
<1> QED BY <1>2, <1>3

\* The body has taken the first event.
LEMMA TakenQueue ==
  ASSUME StreamInv, ready # <<>>, ready' = Tail(ready),
         UNCHANGED <<dialect, up, data, terminal, finished>>
  PROVE  Queue'
<1>1. /\ IsSeq(ready') /\ Len(ready') = Len(ready) - 1 /\ Len(ready) \in Nat \ {0}
      /\ \A j \in 1..Len(ready) - 1 : ready'[j] = ready[j + 1]
  BY TailIs DEF StreamInv, Queue
<1>2. \A j \in 1..Len(ready') : j + 1 \in 1..Len(ready) /\ ready'[j] = ready[j + 1]
  BY <1>1
<1>3. Len(data) \in Nat
  BY DEF StreamInv, Queue, IsSeq
<1> QED BY <1>1, <1>2, <1>3, BurstAssumption DEF StreamInv, Queue

\* StreamInv over one event the body takes.
LEMMA AdvanceKeeps == ASSUME StreamInv, Advance PROVE StreamInv'
<1> DEFINE e == Head(ready)
           d == IF e = Failure THEN Err(dec) ELSE Feed(dec, e)
           r == IF d.err THEN Err(enc) ELSE Encode(enc, d.out, One)
<1>1. /\ events /\ ready # <<>> /\ ready' = Tail(ready) /\ dec' = d.s /\ Send(r, FALSE)
      /\ UNCHANGED <<dialect, up, data, terminal, finished>>
  BY DEF Advance
<1>2. /\ e = ready[1] /\ Len(ready) \in Nat \ {0} /\ Len(ready') = Len(ready) - 1
      /\ \A j \in 1..Len(ready) - 1 : ready'[j] = ready[j + 1]
  BY <1>1, TailIs DEF StreamInv, Queue
<1>3. EventFits(up.who, e)
  BY <1>2 DEF StreamInv, Queue
<1>4. Queue'
  BY <1>1, TakenQueue
<1>5. UpOK(up) /\ Ready /\ (up.who = "claude" => ClaudeOK(dec))
      /\ dialect \in {"messages", "responses", "chat"}
  BY <1>1 DEF StreamInv, Shape, Talk
<1> HIDE DEF e
<1>6. ~d.err => /\ AllOK(d.out) /\ (up.who = "claude" => ClaudeOK(d.s)) /\ ~Failing(up.who, e)
  BY <1>3, <1>5, FeedOK DEF Err, Failing
<1> HIDE DEF d
<1>7. CASE r.err
  <2>1. events' = FALSE /\ Settled'
    <3> HIDE DEF r
    <3> QED BY <1>1, <1>7, ErrorSettles
  <2>2. Shape'
    BY <1>1, <2>1 DEF StreamInv, Shape
  <2>3. Cause'
    BY <1>1, <2>1 DEF StreamInv, Cause
  <2> QED BY <1>4, <2>1, <2>2, <2>3 DEF StreamInv, Talk
<1>8. CASE ~r.err
  <2>1. ~d.err /\ r = Encode(enc, d.out, One)
    BY <1>8 DEF Err
  <2>2. dialect = "messages" => Told(r)
    BY <1>5, <1>6, <2>1, EncodeTold DEF Ready
  <2> HIDE DEF r
  <2>3. events' = TRUE /\ enc' = r.s /\ client' = Accept(dialect, client, r.out \o <<>>)
    BY <1>1, <1>8 DEF Send
  <2>4. ASSUME dialect = "messages" PROVE Good(enc', client')
    <3>1. IsSeq(r.out) /\ Good(r.s, Accept("messages", client, r.out))
      BY <1>8, <2>2, <2>4 DEF Told, Shows, Good
    <3>2. r.out \o <<>> = r.out
      BY <3>1, SeqEmptyRight
    <3> QED BY <2>3, <2>4, <3>1, <3>2
  <2>5. Ready'
    BY <1>1, <2>4 DEF Ready
  <2>6. Talk'
    BY <1>1, <1>6, <2>1, <2>3, <2>5 DEF Talk
  <2>7. Shape'
    BY <1>1, <2>3 DEF StreamInv, Shape
  <2>8. Cause'
    <3>1. SomeFailing(ready) => SomeFailing(ready)'
      <4> SUFFICES ASSUME SomeFailing(ready) PROVE SomeFailing(ready)'
        OBVIOUS
      <4>1. PICK j \in 1..Len(ready) : Failing(up.who, ready[j])
        BY DEF SomeFailing
      <4>2. j # 1
        BY <1>2, <1>6, <2>1, <4>1
      <4>3. j - 1 \in 1..Len(ready') /\ ready'[j - 1] = ready[j]
        BY <1>2, <4>2
      <4> QED BY <1>1, <4>1, <4>3 DEF SomeFailing
    <3>2. (\E j \in 1..Len(ready) : ready[j] = Failure)
          => \E j \in 1..Len(ready') : ready'[j] = Failure
      <4> SUFFICES ASSUME NEW j \in 1..Len(ready), ready[j] = Failure
                   PROVE  \E i \in 1..Len(ready') : ready'[i] = Failure
        OBVIOUS
      <4>1. j # 1
        BY <1>2, <1>6, <2>1 DEF Failing
      <4>2. j - 1 \in 1..Len(ready') /\ ready'[j - 1] = ready[j]
        BY <1>2, <4>1
      <4> QED BY <4>2
    <3>3. SomeFailing(data) => SomeFailing(data)'
      BY <1>1 DEF SomeFailing
    <3> QED BY <1>1, <3>1, <3>2, <3>3 DEF StreamInv, Cause
  <2> QED BY <1>4, <2>6, <2>7, <2>8 DEF StreamInv
<1> QED BY <1>7, <1>8

\* The queue is empty and nothing more will come: the upstream had completed.
LEMMA CompleteOver ==
  ASSUME StreamInv, events, ready = <<>>, finished
  PROVE  up.phase = "over"
<1>1. Len(ready) = 0
  OBVIOUS
<1>2. terminal
  BY <1>1 DEF StreamInv, Cause
<1>3. data = <<>> /\ up.phase \in {"over", "failed"}
  BY <1>2 DEF StreamInv, Cause
<1>4. Len(data) = 0
  BY <1>3
<1> QED BY <1>1, <1>3, <1>4 DEF StreamInv, Cause, SomeFailing

\* StreamInv over the end of an answer.
LEMMA CompleteKeeps == ASSUME StreamInv, Complete PROVE StreamInv'
<1> DEFINE d == Drain(dec)
           r == Finish(enc, d.out)
<1>1. /\ events /\ ready = <<>> /\ finished /\ Send(r, TRUE)
      /\ UNCHANGED <<dialect, up, data, ready, terminal, finished>>
  BY DEF Complete
<1>2. UpOK(up) /\ Ready /\ (up.who = "claude" => ClaudeOK(dec))
      /\ dialect \in {"messages", "responses", "chat"}
  BY <1>1 DEF StreamInv, Shape, Talk
<1>3. up.phase = "over"
  BY <1>1, CompleteOver
<1>4. AllOK(d.out)
  BY <1>2, DrainOK
<1> HIDE DEF d
<1>5. events' = FALSE /\ Settled'
  <2>1. CASE r.err
    <3> HIDE DEF r
    <3> QED BY <1>1, <2>1, ErrorSettles
  <2>2. CASE ~r.err
    <3>1. events' = FALSE /\ enc' = r.s /\ client' = Accept(dialect, client, r.out \o Sentinel)
      BY <1>1, <2>2 DEF Send
    <3>2. ASSUME dialect = "messages"
          PROVE  client'.phase = "over" /\ client'.blocks = r.s.blocks /\ client'.final = r.s.blocks
      <4> DEFINE m == M!Finish(enc, d.out)
      <4>1. r = m /\ Sentinel = <<>>
        BY <3>2 DEF Finish, Sentinel
      <4>2. Good(enc, client)
        BY <1>2, <3>2 DEF Ready
      <4>3. /\ IsSeq(m.out) /\ Accept("messages", client, m.out).phase = "over"
            /\ Accept("messages", client, m.out).blocks = m.s.blocks
            /\ Accept("messages", client, m.out).final = m.s.blocks
        BY <1>4, <2>2, <4>1, <4>2, FinishShowsM
      <4> HIDE DEF m
      <4>4. m.out \o <<>> = m.out
        BY <4>3, SeqEmptyRight
      <4> HIDE DEF r
      <4> QED BY <3>1, <3>2, <4>1, <4>3, <4>4
    <3> HIDE DEF r
    <3> QED BY <1>1, <1>3, <3>1, <3>2 DEF Settled
  <2> QED BY <2>1, <2>2
<1> HIDE DEF r
<1>6. Shape' /\ Queue' /\ Cause'
  BY <1>1, <1>5 DEF StreamInv, Shape, Queue, Cause
<1> QED BY <1>5, <1>6 DEF StreamInv, Talk

\* The first frame of an answer.
LEMMA InitReady ==
  ASSUME enc = Start(dialect).s, client = Accept(dialect, Fresh, Start(dialect).out)
  PROVE  Ready
<1> SUFFICES ASSUME dialect = "messages" PROVE Good(enc, client)
  BY DEF Ready
<1> DEFINE fr == [f |-> "message_start"]
           c == Into(Fresh, "open")
<1>1. IsClient(Fresh) /\ Fresh.phase = "start" /\ Fresh.blocks = <<>> /\ Fresh.open = FALSE
  BY DEF Fresh, IsClient, ClientFields
<1>2. Start(dialect) = M!Ok(M!New, <<fr>>)
  BY DEF Start, M!Start
<1>3. client = MessagesAccept(Fresh, fr) /\ enc = M!New
  BY <1>2, AcceptAt DEF Take, M!Ok
<1>4. client = c
  BY <1>1, <1>3 DEF MessagesAccept
<1>5. IsClient(c) /\ c.phase = "open" /\ c.blocks = <<>> /\ c.open = FALSE
  BY <1>1 DEF Into, IsClient, ClientFields
<1>6. IsEnc(M!New) /\ M!New.open = <<>> /\ M!New.blocks = <<>> /\ M!New.index = -1
  BY DEF M!New, IsEnc, EncFields
<1> HIDE DEF c
<1>7. Sim(M!New, c) /\ Paired(c.blocks)
  BY <1>5, <1>6, SeqFew, SeqEmptyRight DEF Sim, Paired
<1> QED BY <1>3, <1>4, <1>7 DEF Good

\* An upstream that has just begun.
LEMMA InitUp ==
  ASSUME NEW u, \/ \E signs : \E who \in {"claude", "codex"} : u = Silent(who, signs)
                \/ u = [Silent("claude", TRUE) EXCEPT !.phase = "over"]
  PROVE  UpOK(u) /\ u.phase \in {"open", "over"}
<1>1. ItemsOK(<<>>) /\ BlockOK(<<>>)
  BY SeqFew DEF ItemsOK, BlockOK
<1>2. ASSUME NEW who, NEW signs
      PROVE  /\ IsUp(Silent(who, signs)) /\ Silent(who, signs).who = who
             /\ Silent(who, signs).phase = "open"
             /\ Silent(who, signs).items = <<>> /\ Silent(who, signs).block = <<>>
  BY DEF Silent, IsUp, UpFields
<1>3. CASE u = [Silent("claude", TRUE) EXCEPT !.phase = "over"]
  <2> DEFINE v == Silent("claude", TRUE)
  <2>0. IsUp(v) /\ v.who = "claude" /\ u = [v EXCEPT !.phase = "over"]
    BY <1>2, <1>3
  <2> HIDE DEF v
  <2>1. IsUp(u) /\ u.who = "claude" /\ u.phase = "over"
    BY <2>0 DEF IsUp, UpFields
  <2> QED BY <2>1 DEF UpOK
<1>4. CASE \E signs : \E who \in {"claude", "codex"} : u = Silent(who, signs)
  <2>1. PICK who, signs : who \in {"claude", "codex"} /\ u = Silent(who, signs)
    BY <1>4
  <2>2. /\ IsUp(u) /\ u.who \in {"claude", "codex"} /\ u.phase = "open"
        /\ u.items = <<>> /\ u.block = <<>>
    BY <1>2, <2>1, Zenon
  <2> QED BY <1>1, <2>2 DEF UpOK
<1> QED BY <1>3, <1>4

\* StreamInv at the start.
LEMMA InitInv == Init => StreamInv
<1> SUFFICES ASSUME Init PROVE StreamInv
  OBVIOUS
<1>1. /\ dialect \in {"messages", "responses", "chat"} /\ data = <<>> /\ events = TRUE
      /\ dec = IF up.who = "claude" THEN CL!New ELSE CX!New
      /\ enc = Start(dialect).s /\ client = Accept(dialect, Fresh, Start(dialect).out)
  BY DEF Init
<1>2. Ready /\ (up.who = "claude" => ClaudeOK(dec))
  BY <1>1, InitReady, InitClaude
<1>3. Len(data) = 0 /\ IsSeq(data)
  BY <1>1, SeqFew
<1>4. CASE Opened
  <2>1. /\ up \in {Silent("claude", TRUE), Silent("codex", TRUE), Silent("codex", FALSE)}
        /\ ready = <<>> /\ terminal = FALSE /\ finished = FALSE
    BY <1>4 DEF Opened
  <2>2. UpOK(up) /\ up.phase = "open"
    <3>1. UpOK(up)
      BY <2>1, InitUp
    <3> QED BY <2>1, <3>1 DEF Silent
  <2>3. Len(ready) = 0 /\ IsSeq(ready)
    BY <2>1, SeqFew
  <2>4. Shape
    BY <1>1, <2>1, <2>2 DEF Shape
  <2>5. Queue
    BY <1>3, <2>3, BurstAssumption DEF Queue
  <2>6. Cause
    BY <1>3, <2>1, <2>2 DEF Cause
  <2> QED BY <1>1, <1>2, <2>4, <2>5, <2>6 DEF StreamInv, Talk
<1>5. CASE MessageEvents
  <2>1. PICK reason : ready = <<[t |-> "message_delta", reason |-> reason], [t |-> "message_stop"]>>
    BY <1>5 DEF MessageEvents
  <2>2. /\ up = [Silent("claude", TRUE) EXCEPT !.phase = "over"]
        /\ terminal = TRUE /\ finished = TRUE
    BY <1>5 DEF MessageEvents
  <2>3. UpOK(up) /\ up.who = "claude" /\ up.phase = "over"
    <3>1. UpOK(up)
      BY <2>2, InitUp
    <3> QED BY <2>2, <3>1 DEF Silent
  <2>4. IsSeq(ready) /\ Len(ready) = 2 /\ \A j \in 1..2 : ready[j].t # "start"
    BY <2>1, SeqFew
  <2>5. Shape
    BY <1>1, <2>2, <2>3 DEF Shape
  <2>6. \A j \in 1..Len(ready) : EventFits(up.who, ready[j])
    BY <2>3, <2>4 DEF EventFits
  <2>7. Queue
    <3>1. Len(data) <= 1 /\ Len(ready) <= Burst + 1
      BY <1>3, <2>4, BurstAssumption
    <3>2. \A j \in 1..Len(data) : EventFits(up.who, data[j])
      BY <1>3
    <3> QED BY <1>3, <2>2, <2>4, <2>6, <3>1, <3>2 DEF Queue
  <2>8. Cause
    BY <1>1, <1>3, <2>2, <2>3 DEF Cause
  <2> QED BY <1>1, <1>2, <2>5, <2>7, <2>8 DEF StreamInv, Talk
<1> QED BY <1>4, <1>5 DEF Init

\* StreamInv over a step that changes nothing.
LEMMA StutterKeeps == ASSUME StreamInv, UNCHANGED vars PROVE StreamInv'
BY DEF StreamInv, Shape, Queue, Cause, Talk, Settled, Ready, SomeFailing, vars

-----------------------------------------------------------------------------
\* The upstream, its decoder and what has been told, whichever it is; and the
\* same for a run that may have met a failure.
Rel(u, d, k) == IF u.who = "claude" THEN RelA(u, d, k) ELSE RelX(u, d, k)
FitsUp(u, q) == q.fit = "yes" /\ q.who = u.who /\ (q.alive = "yes" => Rel(u, q.d, q.k))

\* What has been told of a response so far fitted.
LEMMA RelSure == ASSUME NEW u, NEW d, NEW k, Rel(u, d, k) PROVE k.ok = "yes"
BY DEF Rel, RelA, RelX, CoreA, CoreX

\* The end of a Claude response is heard as nothing.
LEMMA EndFeeds ==
  ASSUME NEW u, NEW d, NEW k, RelA(u, d, k), u.block = <<>>, NEW e, e.t \in {"message_delta", "message_stop"}
  PROVE  FeedsA(u, k, CL!Decode(d, e))
<1> DEFINE r == CL!Decode(d, e)
           f == [d EXCEPT !.stop = e.reason]
<1>1. CoreA(u, d, k) /\ Quiet(d, k)
  BY DEF RelA, OpenA
<1>2. r = CL!Ok(f, <<>>) \/ r = CL!Ok(d, <<>>)
  BY DEF CL!Decode
<1>3. /\ IsClaude(f) /\ f.phase = d.phase /\ f.calls = d.calls /\ f.thinking = d.thinking /\ f.native = d.native
      /\ f.call = d.call /\ f.redacted = d.redacted
  BY <1>1 DEF CoreA, IsClaude, ClaudeFields
<1> HIDE DEF f, r
<1>4. RelA(u, f, k)
  BY <1>1, <1>3 DEF RelA, CoreA, Quiet
<1>5. r.err = FALSE /\ r.out = <<>> /\ r.s \in {f, d}
  BY <1>2 DEF CL!Ok
<1>6. HearAll(k, <<>>) = k
  BY HearAt
<1>7. FeedsA(u, k, r)
  BY <1>4, <1>5, <1>6, NeatFew, SeqFew DEF FeedsA
<1> QED BY <1>7 DEF r

\* One event told to a decoder that lives.
LEMMA StepTells ==
  ASSUME NEW q, IsRun(q), q.alive = "yes", q.fit = "yes", NEW v, q.who = v.who, NEW e,
         LET f == FeedBy(q.who, q.d, e)
         IN  f.err \/ (Neat(f.out) /\ Rel(v, f.s, HearAll(q.k, f.out)))
  PROVE  FitsUp(v, StepQ(q, e))
<1> DEFINE f == FeedBy(q.who, q.d, e)
           p == StepQ(q, e)
           l == HearAll(q.k, f.out)
           dead == [q EXCEPT !.alive = "no"]
<1>1. dead.alive = "no" /\ dead.fit = "yes" /\ dead.who = v.who
  BY DEF IsRun
<1>2. CASE e = Failure \/ f.err
  <2>1. p = dead
    BY <1>2 DEF StepQ
  <2> HIDE DEF p, dead
  <2>2. FitsUp(v, p)
    BY <1>1, <2>1 DEF FitsUp
  <2> QED BY <2>2 DEF p
<1>3. CASE ~(e = Failure \/ f.err)
  <2>1. Neat(f.out) /\ Rel(v, f.s, l)
    BY <1>3
  <2> DEFINE s == [who |-> q.who, d |-> f.s, k |-> l, alive |-> "yes",
                   fit |-> IF q.fit = "yes" /\ Tells(q.k, f.out) THEN "yes" ELSE "no"]
  <2>2. p = s
    BY <1>3 DEF StepQ
  <2> HIDE DEF f, l, p
  <2>3. l.ok = "yes"
    BY <2>1, RelSure
  <2>4. Tells(q.k, f.out)
    BY <2>1, <2>3 DEF Tells, l
  <2>5. p.who = q.who /\ p.d = f.s /\ p.k = l /\ p.fit = "yes"
    BY <2>2, <2>4
  <2>6. FitsUp(v, p)
    BY <2>1, <2>5 DEF FitsUp
  <2> QED BY <2>6 DEF p
<1> QED BY <1>2, <1>3

\* Whatever an upstream says next is heard by the run of what waits.
LEMMA SayTells ==
  ASSUME UpOK(up), NEW q, IsRun(q), FitsUp(up, q), NEW say \in UpstreamSays(up)
  PROVE  FitsUp(say.u, StepQ(q, say.e))
<1> DEFINE e == say.e
           v == say.u
           f == FeedBy(q.who, q.d, e)
           l == HearAll(q.k, f.out)
<1>1. v.who = up.who
  BY SaysOK DEF SayOK
<1> HIDE DEF v, e
<1>2. CASE q.alive # "yes"
  BY <1>1, <1>2 DEF FitsUp, StepQ, v
<1>3. CASE q.alive = "yes"
  <2>1. q.fit = "yes" /\ q.who = up.who /\ Rel(up, q.d, q.k)
    BY <1>3 DEF FitsUp
  <2>2. f.err \/ (Neat(f.out) /\ Rel(v, f.s, l))
    <3>1. CASE up.who = "claude"
      <4>1. f = CL!Decode(q.d, e)
        BY <2>1, <3>1 DEF FeedBy
      <4>2. say \in ClaudeSays(up) /\ RelA(up, q.d, q.k) /\ IsUp(up)
        BY <2>1, <3>1 DEF UpstreamSays, Rel, UpOK
      <4>3. CL!Decode(q.d, e).err \/ FeedsA(v, q.k, CL!Decode(q.d, e))
        BY <4>2, ClaudeFeeds DEF v, e
      <4> HIDE DEF f
      <4>4. f.err \/ FeedsA(v, q.k, f)
        BY <4>1, <4>3
      <4> QED BY <1>1, <3>1, <4>4 DEF FeedsA, Rel
    <3>2. CASE up.who = "codex"
      <4>1. f = CX!Decode(q.d, e)
        BY <2>1, <3>2 DEF FeedBy
      <4>2. say \in CodexSays(up) /\ RelX(up, q.d, q.k)
        BY <2>1, <3>2 DEF UpstreamSays, Rel
      <4>3. CX!Decode(q.d, e).err \/ FeedsX(v, q.k, CX!Decode(q.d, e))
        BY <3>2, <4>2, CodexFeeds DEF v, e
      <4> HIDE DEF f
      <4>4. f.err \/ FeedsX(v, q.k, f)
        BY <4>1, <4>3
      <4> QED BY <1>1, <3>2, <4>4, PlainNeat DEF FeedsX, Rel
    <3> QED BY <3>1, <3>2 DEF UpOK
  <2> HIDE DEF f, l
  <2>3. FitsUp(v, StepQ(q, e))
    BY <1>1, <1>3, <2>1, <2>2, StepTells DEF f, l
  <2> QED BY <2>3 DEF v, e
<1> QED BY <1>2, <1>3

-----------------------------------------------------------------------------
\* The client has been told what fits, and what waits will fit.
Waits == ready \o data
Awaits(k) == FitsUp(up, Run(Begun(up.who, dec, k), Waits))
Knows(k) == SeesX(enc, k, client) /\ Musings(k) /\ Awaits(k)
Closed == /\ client.phase \in {"over", "failed"}
          /\ client.phase = "over" => up.phase = "over" /\ client.blocks = Result /\ client.final = Result
\* A Chat or Responses client knows what its encoder keeps until it is told of
\* an end; one told that its answer is complete has the encoder's answer.
HeardInv ==
  dialect # "messages" => IF events THEN \E k : Knows(k) ELSE Closed

\* SeesX of the next state, said with the dialect of this one.
LEMMA SeesPrime ==
  ASSUME dialect' = dialect, NEW k, SeesX(enc', k, client')
  PROVE  SeesX(enc, k, client)'
BY DEF SeesX, SeesR, Meets

\* A run of nothing.
LEMMA BegunRun == \A who, d, k : IsRun(Begun(who, d, k))
BY DEF Begun, IsRun

\* HeardInv over a data line that arrives.
LEMMA DataLineHeard == ASSUME StreamInv, HeardInv, DataLine PROVE HeardInv'
<1> SUFFICES ASSUME dialect' # "messages" PROVE (IF events THEN \E k : Knows(k) ELSE Closed)'
  BY DEF HeardInv
<1>1. PICK say \in UpstreamSays(up) : up' = say.u /\ data' = <<say.e>>
  BY DEF DataLine
<1>2. events /\ data = <<>> /\ UNCHANGED <<dialect, ready, terminal, finished, dec, enc, events, client>>
  BY DEF DataLine
<1>3. PICK k : Knows(k)
  BY <1>2 DEF HeardInv
<1> DEFINE b == Begun(up.who, dec, k)
           q == Run(b, ready)
           e == say.e
<1>4. IsSeq(ready) /\ UpOK(up)
  BY DEF StreamInv, Queue, Shape
<1>5. Waits = ready /\ Waits' = ready \o <<e>>
  BY <1>1, <1>2, <1>4, SeqEmptyRight DEF Waits
<1> HIDE DEF b, q, e
<1>6. IsRun(q)
  BY <1>4, BegunRun, RunSure DEF Sure, b, q
<1>7. FitsUp(up, q)
  BY <1>3, <1>5 DEF Knows, Awaits, b, q
<1>8. Run(b, ready \o <<e>>) = StepQ(q, e)
  BY <1>4, RunAt, SeqFew DEF q
<1>9. FitsUp(say.u, StepQ(q, e))
  BY <1>4, <1>6, <1>7, SayTells DEF e
<1>10. up'.who = up.who
  BY <1>1, <1>4, SaysOK DEF SayOK
<1>11. Begun(up.who, dec, k)' = b
  BY <1>2, <1>10 DEF Begun, b
<1>12. Awaits(k)'
  BY <1>1, <1>5, <1>8, <1>9, <1>11 DEF Awaits
<1>13. SeesX(enc, k, client)' 
  BY <1>2, <1>3, SeesPrime DEF Knows
<1> QED BY <1>2, <1>3, <1>12, <1>13 DEF Knows

\* Nothing changes but where the events wait.
LEMMA StillHeard ==
  ASSUME HeardInv, events' = events, Waits' = Waits, UNCHANGED <<dialect, up, dec, enc, client>>
  PROVE  HeardInv'
<1>1. \A k : Awaits(k) => Awaits(k)'
  BY DEF Awaits
<1>2. \A k : SeesX(enc, k, client) => SeesX(enc, k, client)'
  BY SeesPrime
<1>3. \A k : Knows(k) => Knows(k)'
  BY <1>1, <1>2 DEF Knows
<1>4. Closed => Closed'
  BY DEF Closed, Result
<1> QED BY <1>3, <1>4 DEF HeardInv

\* HeardInv over a frame that is whole.
LEMMA PayloadHeard == ASSUME StreamInv, HeardInv, Payload PROVE HeardInv'
<1>1. IsSeq(ready \o data)
  BY SeqJoin DEF StreamInv, Queue
<1>2. ready' = ready \o data /\ data' = <<>> /\ UNCHANGED <<dialect, up, dec, enc, events, client>>
  BY DEF Payload
<1>3. Waits' = Waits
  BY <1>1, <1>2, SeqEmptyRight DEF Waits
<1> QED BY <1>2, <1>3, StillHeard

\* A failure waits at the end.
LEMMA BrokenHeard ==
  ASSUME StreamInv, HeardInv, events, ready' = Append(ready, Failure),
         UNCHANGED <<dialect, up, data, dec, enc, events, client>>
  PROVE  HeardInv'
<1> SUFFICES ASSUME dialect' # "messages" PROVE (IF events THEN \E k : Knows(k) ELSE Closed)'
  BY DEF HeardInv
<1>3. PICK k : Knows(k)
  BY DEF HeardInv
<1> DEFINE b == Begun(up.who, dec, k)
           q == Run(b, ready)
           f == <<Failure>>
           n == ready \o f
           p == StepQ(q, Failure)
<1>1. IsSeq(ready) /\ IsSeq(data) /\ IsSeq(f)
  BY SeqFew DEF StreamInv, Queue
<1>2. ready' = n /\ IsSeq(n)
  BY <1>1, SeqLast
<1>4. Run(b, f) = StepQ(b, Failure) /\ \A r : Run(r, f) = StepQ(r, Failure)
  BY RunAt
<1> HIDE DEF b, q, f, n, p
<1>5. Run(b, n) = p
  BY <1>1, <1>4, RunAt DEF n, p, q
<1>6. Run(b, n \o data) = Run(p, data) /\ Run(b, ready \o data) = Run(q, data)
  BY <1>1, <1>2, <1>5, RunAt DEF q
<1>7. IsRun(q)
  BY <1>1, BegunRun, RunSure DEF Sure, b, q
<1>8. FitsUp(up, Run(q, data))
  BY <1>3, <1>6 DEF Knows, Awaits, Waits, b
<1>9. q.fit = "yes" /\ q.who = up.who
  BY <1>1, <1>7, <1>8, RunSure DEF Sure, FitsUp
<1>10. IsRun(p) /\ p.alive # "yes" /\ p.fit = "yes" /\ p.who = up.who
  BY <1>7, <1>9 DEF p, StepQ, IsRun
<1>11. Run(p, data) = p
  BY <1>1, <1>10, RunSure DEF Sure
<1>12. FitsUp(up, Run(b, n \o data))
  BY <1>6, <1>10, <1>11 DEF FitsUp
<1>13. Waits' = n \o data
  BY <1>2 DEF Waits
<1>14. Awaits(k)'
  BY <1>12, <1>13 DEF Awaits, b
<1>15. SeesX(enc, k, client)'
  BY <1>3, SeesPrime DEF Knows
<1> QED BY <1>3, <1>14, <1>15 DEF Knows

\* HeardInv over a connection that breaks.
LEMMA FailHeard == ASSUME StreamInv, HeardInv, Fail PROVE HeardInv'
BY BrokenHeard DEF Fail

\* HeardInv over a connection that closes.
LEMMA EndHeard == ASSUME StreamInv, HeardInv, End PROVE HeardInv'
<1>1. CASE terminal
  <2>1. Waits' = Waits
    BY <1>1 DEF End, Waits
  <2> QED BY <2>1, StillHeard DEF End
<1>2. CASE ~terminal
  BY <1>2, BrokenHeard DEF End
<1> QED BY <1>1, <1>2

-----------------------------------------------------------------------------
\* The body has sent what an outcome is, and the upstream is let go or not.
LEMMA SendFails ==
  ASSUME dialect \in {"responses", "chat"}, dialect' = dialect, NEW k, SeesX(enc, k, client), NEW r, r.err,
         dialect = "responses" => r.s = enc, NEW last, Send(r, last)
  PROVE  events' = FALSE /\ Closed'
<1>1. client' = Accept(dialect, client, ErrorFrame(r.s).out \o Sentinel) /\ events' = FALSE
  BY DEF Send
<1>2. client'.phase = "failed"
  BY <1>1, ErrorSeen
<1> QED BY <1>1, <1>2 DEF Closed

\* Sequences with the same elements.
LEMMA SeqSame ==
  ASSUME NEW a, NEW b, IsSeq(a), IsSeq(b), Len(a) = Len(b), \A i \in 1..Len(a) : a[i] = b[i]
  PROVE  a = b
<1>1. [i \in 1..Len(a) |-> a[i]] = [i \in 1..Len(b) |-> b[i]]
  OBVIOUS
<1> QED BY <1>1, Zenon DEF IsSeq

\* The first event of those that wait.
LEMMA FirstWaits ==
  ASSUME IsSeq(ready), IsSeq(data), ready # <<>>, NEW b
  PROVE  Run(b, Waits) = Run(StepQ(b, Head(ready)), Tail(ready) \o data) /\ IsSeq(Tail(ready) \o data)
<1> DEFINE f == <<Head(ready)>>
           t == Tail(ready)
           rest == t \o data
<1>1. IsSeq(t) /\ IsSeq(f)
  BY SeqFew, TailIs
<1>0. ready = f \o t
  <2>1. /\ Len(t) = Len(ready) - 1 /\ Head(ready) = ready[1] /\ Len(ready) \in Nat \ {0}
        /\ \A j \in 1..Len(ready) - 1 : t[j] = ready[j + 1]
    BY TailIs
  <2>2. Len(f) = 1 /\ f[1] = Head(ready)
    OBVIOUS
  <2> HIDE DEF f, t
  <2> DEFINE g == f \o t
  <2>3. /\ IsSeq(g) /\ Len(g) = Len(f) + Len(t)
        /\ \A i \in 1..Len(f) + Len(t) : g[i] = IF i <= Len(f) THEN f[i] ELSE t[i - Len(f)]
    BY <1>1, SeqJoin
  <2> HIDE DEF g
  <2>4. Len(g) = Len(ready)
    BY <2>1, <2>2, <2>3
  <2>5. ASSUME NEW j \in 1..Len(ready) PROVE ready[j] = g[j]
    BY <2>1, <2>2, <2>3
  <2>6. ready = g
    BY <2>3, <2>4, <2>5, SeqSame
  <2> QED BY <2>6 DEF g
<1> HIDE DEF f, t
<1>2. Waits = f \o rest
  <2>1. Waits = (f \o t) \o data
    BY <1>0 DEF Waits
  <2> QED BY <1>1, <2>1, SeqAssoc
<1>3. IsSeq(rest)
  BY <1>1, SeqJoin
<1>4. Run(b, f) = StepQ(b, Head(ready))
  BY RunAt DEF f
<1> HIDE DEF rest
<1>5. Run(b, Waits) = Run(Run(b, f), rest)
  BY <1>1, <1>2, <1>3, RunAt
<1> QED BY <1>3, <1>4, <1>5 DEF rest, t

\* What the run of the queue says of its first event.
LEMMA FirstTells ==
  ASSUME StreamInv, NEW k, Awaits(k), ready # <<>>, Head(ready) # Failure, ~Feed(dec, Head(ready)).err,
         NEW out, out = Feed(dec, Head(ready)).out, NEW d, d = Feed(dec, Head(ready)).s
  PROVE  Tells(k, out) /\ FitsUp(up, Run(Begun(up.who, d, HearAll(k, out)), Tail(ready) \o data))
<1> DEFINE e == Head(ready)
           b == Begun(up.who, dec, k)
           rest == Tail(ready) \o data
           p == StepQ(b, e)
           l == HearAll(k, out)
<1>1. IsSeq(ready) /\ IsSeq(data)
  BY DEF StreamInv, Queue
<1>2. b.alive = "yes" /\ b.who = up.who /\ b.d = dec /\ b.k = k /\ b.fit = "yes"
  BY DEF Begun
<1>3. FeedBy(up.who, dec, e) = Feed(dec, e)
  BY DEF FeedBy, Feed
<1> HIDE DEF e, b, rest, l
<1>4. p = [who |-> up.who, d |-> d, k |-> l, alive |-> "yes", fit |-> IF Tells(k, out) THEN "yes" ELSE "no"]
  BY <1>2, <1>3 DEF StepQ, e, l
<1> HIDE DEF p
<1>5. Run(b, Waits) = Run(p, rest) /\ IsSeq(rest)
  BY <1>1, FirstWaits DEF p, e, rest
<1>6. FitsUp(up, Run(p, rest))
  BY <1>5 DEF Awaits, b
<1>7. IsRun(p)
  BY <1>4 DEF IsRun
<1>8. p.fit = "yes"
  BY <1>5, <1>6, <1>7, RunSure DEF Sure, FitsUp
<1>9. Tells(k, out)
  BY <1>4, <1>8
<1>10. p = Begun(up.who, d, l)
  BY <1>4, <1>9 DEF Begun
<1> QED BY <1>6, <1>9, <1>10 DEF l, rest

\* HeardInv over one event the body takes.
LEMMA AdvanceHeard == ASSUME StreamInv, HeardInv, Advance PROVE HeardInv'
<1> SUFFICES ASSUME dialect' # "messages" PROVE (IF events THEN \E k : Knows(k) ELSE Closed)'
  BY DEF HeardInv
<1>1. /\ events /\ ready # <<>> /\ ready' = Tail(ready) /\ UNCHANGED <<dialect, up, data>>
      /\ dialect \in {"responses", "chat"}
  BY DEF Advance, StreamInv, Shape
<1>2. PICK k : Knows(k)
  BY <1>1 DEF HeardInv
<1> DEFINE e == Head(ready)
           d == IF e = Failure THEN Err(dec) ELSE Feed(dec, e)
           r == IF d.err THEN Err(enc) ELSE Encode(enc, d.out, One)
           l == HearAll(k, d.out)
<1>3. Send(r, FALSE) /\ dec' = d.s
  BY DEF Advance
<1>4. CASE d.err
  <2>1. r.err /\ r.s = enc
    BY <1>4 DEF Err
  <2> HIDE DEF r
  <2>2. events' = FALSE /\ Closed'
    BY <1>1, <1>2, <1>3, <2>1, SendFails DEF Knows
  <2> QED BY <2>2
<1>5. CASE ~d.err
  <2>1. e # Failure /\ d = Feed(dec, e)
    BY <1>5 DEF Err
  <2>2. Tells(k, d.out) /\ FitsUp(up, Run(Begun(up.who, d.s, l), Tail(ready) \o data))
    BY <1>1, <1>2, <1>5, <2>1, FirstTells DEF Knows
  <2>3. EventFits(up.who, e)
    BY <1>1, TailIs DEF StreamInv, Queue
  <2>4. IsSeq(d.out)
    BY <1>1, <2>1, <2>3, FeedOK DEF StreamInv, Shape, Talk, AllOK
  <2>5. r = Encode(enc, d.out, One)
    BY <1>5
  <2> HIDE DEF d, l, r
  <2>6. ReachesX(l, client, r) /\ Musings(l)
    BY <1>1, <1>2, <2>2, <2>4, <2>5, EncodeReaches DEF Tells, l, Knows
  <2>7. CASE r.err
    <3>2. dialect = "responses" => r.s = enc
      BY <2>2, <2>4, <2>5, <2>7, EncodeFails DEF Tells
    <3>3. events' = FALSE /\ Closed'
      BY <1>1, <1>2, <1>3, <2>7, <3>2, SendFails DEF Knows
    <3> QED BY <3>3
  <2>8. CASE ~r.err
    <3>1. r.out \o <<>> = r.out
      BY <2>6, SeqEmptyRight DEF ReachesX
    <3>2. enc' = r.s /\ client' = Accept(dialect, client, r.out) /\ events' = TRUE
      BY <1>3, <2>8, <3>1 DEF Send
    <3>3. SeesX(enc', l, client')
      BY <2>6, <2>8, <3>2 DEF ReachesX
    <3>4. PICK m : m = l
      OBVIOUS
    <3>5. SeesX(enc, m, client)'
      BY <1>1, <3>3, <3>4, SeesPrime
    <3>6. Awaits(m)'
      BY <1>1, <1>3, <2>2, <3>4 DEF Awaits, Waits
    <3>7. Knows(m)'
      BY <2>6, <3>4, <3>5, <3>6 DEF Knows
    <3> QED BY <3>2, <3>7
  <2> QED BY <2>7, <2>8
<1> QED BY <1>4, <1>5

\* HeardInv over the end of an answer.
LEMMA CompleteHeard == ASSUME StreamInv, HeardInv, Complete PROVE HeardInv'
<1> SUFFICES ASSUME dialect' # "messages" PROVE (IF events THEN \E k : Knows(k) ELSE Closed)'
  BY DEF HeardInv
<1>1. /\ events /\ ready = <<>> /\ finished /\ UNCHANGED <<dialect, up, data>>
      /\ dialect \in {"responses", "chat"}
  BY DEF Complete, StreamInv, Shape
<1>2. PICK k : Knows(k)
  BY <1>1 DEF HeardInv
<1>3. up.phase = "over"
  BY <1>1, CompleteOver
<1> DEFINE b == Begun(up.who, dec, k)
           d == Drain(dec)
           r == Finish(enc, d.out)
<1>4. Waits = <<>>
  BY <1>1, SeqFew, SeqEmptyRight DEF StreamInv, Cause, Waits
<1>5. b.alive = "yes" /\ b.d = dec /\ b.k = k
  BY DEF Begun
<1> HIDE DEF b
<1>6. Rel(up, dec, k)
  BY <1>2, <1>4, <1>5, RunAt DEF Knows, Awaits, FitsUp, b
<1>7. Drains(k, d.out)
  <2>1. CASE up.who = "claude"
    <3>1. CoreA(up, dec, k) /\ Quiet(dec, k)
      BY <1>3, <1>6, <2>1 DEF Rel, RelA, OpenA
    <3>2. IsFiniteSet(DOMAIN dec.phase)
      BY <1>1, <2>1 DEF StreamInv, Talk, ClaudeOK
    <3> QED BY <2>1, <3>1, <3>2, ClaudeDrains DEF Drain
  <2>2. CASE up.who # "claude"
    <3>1. CoreX(dec, k)
      BY <1>6, <2>2 DEF Rel, RelX
    <3> QED BY <2>2, <3>1, CodexDrains DEF Drain
  <2> QED BY <2>1, <2>2
<1>8. Send(r, TRUE)
  BY DEF Complete
<1> HIDE DEF d
<1>9. r.err = FALSE /\ Answered(Accept(dialect, client, r.out \o Sentinel), r.s)
  BY <1>1, <1>2, <1>7, FinishSeen DEF Knows, Drains
<1> HIDE DEF r
<1>10. enc' = r.s /\ events' = FALSE /\ client' = Accept(dialect, client, r.out \o Sentinel)
  BY <1>8, <1>9 DEF Send
<1>11. Answered(client', enc')
  BY <1>9, <1>10
<1>12. Result' = Answer(enc')
  BY <1>1 DEF Result, Answer
<1>13. Closed'
  BY <1>1, <1>3, <1>11, <1>12 DEF Closed, Answered
<1> QED BY <1>10, <1>13

\* The end of a Claude response keeps a run that fits.
LEMMA EndTells ==
  ASSUME NEW u, u.who = "claude", u.block = <<>>, NEW q, IsRun(q), FitsUp(u, q),
         NEW e, e.t \in {"message_delta", "message_stop"}
  PROVE  FitsUp(u, StepQ(q, e))
<1>1. CASE q.alive # "yes"
  BY <1>1 DEF FitsUp, StepQ
<1>2. CASE q.alive = "yes"
  <2> DEFINE f == FeedBy(q.who, q.d, e)
             g == CL!Decode(q.d, e)
             l == HearAll(q.k, f.out)
  <2>1. q.fit = "yes" /\ q.who = "claude" /\ RelA(u, q.d, q.k)
    BY <1>2 DEF FitsUp, Rel
  <2>2. f = g
    BY <2>1 DEF FeedBy
  <2>3. FeedsA(u, q.k, g)
    BY <2>1, EndFeeds
  <2> HIDE DEF f, g
  <2>4. Neat(f.out) /\ Rel(u, f.s, l)
    BY <2>2, <2>3 DEF FeedsA, Rel
  <2> HIDE DEF l
  <2> QED BY <1>2, <2>1, <2>4, StepTells DEF f, l
<1> QED BY <1>1, <1>2

\* HeardInv at the start.
LEMMA InitHeard == Init => HeardInv
<1> SUFFICES ASSUME Init, dialect # "messages" PROVE Knows(Unheard)
  BY DEF HeardInv, Init
<1>1. dialect \in {"responses", "chat"} /\ data = <<>>
  BY DEF Init
<1>2. SeesX(enc, Unheard, client) /\ Musings(Unheard)
  BY <1>1, StartSeen DEF Init
<1>3. up.n \in Nat /\ up.block = <<>> /\ up.items = <<>> /\ up.who \in {"claude", "codex"}
  BY DEF Init, Opened, MessageEvents, Silent
<1> DEFINE b == Begun(up.who, dec, Unheard)
<1>4. Rel(up, dec, Unheard)
  BY <1>3, ClaudeBegins, CodexBegins DEF Init, Rel
<1>5. IsRun(b) /\ FitsUp(up, b)
  BY <1>4, BegunRun DEF FitsUp, Begun
<1> HIDE DEF b
<1>6. Waits = ready
  BY <1>1, SeqEmptyRight, SeqFew DEF Waits, Init, Opened, MessageEvents
<1>7. CASE Opened
  <2>1. Run(b, Waits) = b
    BY <1>6, <1>7, RunAt DEF Opened
  <2> QED BY <1>2, <1>5, <2>1 DEF Knows, Awaits, b
<1>8. CASE MessageEvents
  <2>1. PICK x, y : /\ x.t = "message_delta" /\ y.t = "message_stop" /\ ready = <<x, y>> /\ up.who = "claude"
    <3>1. PICK reason : /\ ready = <<[t |-> "message_delta", reason |-> reason], [t |-> "message_stop"]>>
                        /\ up = [Silent("claude", TRUE) EXCEPT !.phase = "over"]
      BY <1>8 DEF MessageEvents
    <3> DEFINE x == [t |-> "message_delta", reason |-> reason]
               y == [t |-> "message_stop"]
    <3>2. x.t = "message_delta" /\ y.t = "message_stop" /\ ready = <<x, y>> /\ up.who = "claude"
      BY <3>1 DEF Silent
    <3> QED BY <3>2
  <2> DEFINE p == StepQ(b, x)
             q == StepQ(p, y)
             f == <<x>>
             g == <<y>>
  <2>2. IsSeq(f) /\ IsSeq(g)
    BY SeqFew
  <2>7. ready = f \o g
    <3>1. IsSeq(ready) /\ Len(ready) = 2 /\ ready[1] = x /\ ready[2] = y
      BY <2>1, SeqFew
    <3>2. Len(f) = 1 /\ f[1] = x /\ Len(g) = 1 /\ g[1] = y
      BY DEF f, g
    <3> DEFINE h == f \o g
    <3>3. IsSeq(h) /\ Len(h) = 2 /\ h[1] = x /\ h[2] = y
      BY <2>2, <3>2, SeqJoin
    <3> HIDE DEF h
    <3>4. ready = h
      BY <3>1, <3>3, SeqSame
    <3> QED BY <3>4 DEF h
  <2>3. Run(b, f) = p /\ Run(p, g) = q
    BY RunAt
  <2> HIDE DEF p, q, f, g
  <2>4. Run(b, Waits) = q
    BY <1>6, <2>2, <2>3, <2>7, RunAt
  <2>5. FitsUp(up, p) /\ IsRun(p)
    <3>1. FitsUp(up, p)
      BY <1>3, <1>5, <2>1, EndTells DEF p
    <3>2. Sure(b, b)
      BY <1>5 DEF Sure
    <3> QED BY <3>1, <3>2, StepSure DEF Sure, p
  <2>6. FitsUp(up, q)
    BY <1>3, <2>1, <2>5, EndTells DEF q
  <2> QED BY <1>2, <2>4, <2>6 DEF Knows, Awaits, b
<1> QED BY <1>7, <1>8 DEF Init

\* HeardInv over a step that changes nothing.
LEMMA StutterHeard == ASSUME StreamInv, HeardInv, UNCHANGED vars PROVE HeardInv'
BY StillHeard DEF vars, Waits

\* The inductive invariant: what each stage owes the next (StreamInv), and
\* that the client holds what it was told while what waits for it still fits (HeardInv).
THEOREM Heard == Spec => [](StreamInv /\ HeardInv)
<1>1. Init => StreamInv /\ HeardInv
  BY InitInv, InitHeard
<1>2. StreamInv /\ HeardInv /\ [Next]_vars => StreamInv' /\ HeardInv'
  <2> SUFFICES ASSUME StreamInv, HeardInv, [Next]_vars PROVE StreamInv' /\ HeardInv'
    OBVIOUS
  <2>1. CASE DataLine
    BY <2>1, DataLineKeeps, DataLineHeard
  <2>2. CASE Payload
    BY <2>2, PayloadKeeps, PayloadHeard
  <2>3. CASE Fail
    BY <2>3, FailKeeps, FailHeard
  <2>4. CASE End
    BY <2>4, EndKeeps, EndHeard
  <2>5. CASE Advance
    BY <2>5, AdvanceKeeps, AdvanceHeard
  <2>6. CASE Complete
    BY <2>6, CompleteKeeps, CompleteHeard
  <2>7. CASE UNCHANGED vars
    BY <2>7, StutterKeeps, StutterHeard
  <2> QED BY <2>1, <2>2, <2>3, <2>4, <2>5, <2>6, <2>7 DEF Next
<1> QED BY <1>1, <1>2, PTL DEF Spec

-----------------------------------------------------------------------------
(***************************************************************************)
(* What the invariants say of every stream.                                *)
(***************************************************************************)
\* While the upstream is held no client has been told how its answer ends.
LEMMA StillOpen == ASSUME StreamInv, HeardInv, events PROVE client.phase = "open"
<1>1. CASE dialect = "messages"
  BY <1>1 DEF StreamInv, Talk, Ready, Good, Sim
<1>2. CASE dialect # "messages"
  <2>1. PICK k : SeesX(enc, k, client)
    BY <1>2 DEF HeardInv, Knows
  <2> QED BY <2>1 DEF SeesX, SeesC, Clear, SeesR, Meets, Holding
<1> QED BY <1>1, <1>2

\* Once it has been let go every client has been told, and holds what it was
\* promised if it was told of an end.
LEMMA AllTold ==
  ASSUME StreamInv, HeardInv, ~events
  PROVE  /\ client.phase \in {"over", "failed"}
         /\ client.phase = "over" => up.phase = "over" /\ client.blocks = Result /\ client.final = Result
<1>1. CASE dialect = "messages"
  BY <1>1 DEF StreamInv, Talk, Settled, Result, M!Result
<1>2. CASE dialect # "messages"
  BY <1>2 DEF HeardInv, Closed
<1> QED BY <1>1, <1>2

\* The type invariant, for any bounds on blocks, deltas and the queue.
THEOREM StreamsTypes == Spec => []TypeOK
<1>1. StreamInv /\ HeardInv => TypeOK
  <2> SUFFICES ASSUME StreamInv, HeardInv PROVE TypeOK
    OBVIOUS
  <2>1. client.phase \in {"open", "over", "failed"}
    BY StillOpen, AllTold DEF StreamInv, Shape
  <2> QED BY <2>1 DEF StreamInv, Shape, Queue, TypeOK, UpOK
<1> QED BY <1>1, Heard, PTL

\* An answer that looks complete to the client is one its upstream completed,
\* whatever the upstream streams, the connection breaks, and the dialect is
\* (sse.rs: the body ends an answer only when the transport says so).
THEOREM NoFalseEnds == Spec => []NoFalseEnd
<1>1. StreamInv /\ HeardInv => NoFalseEnd
  <2> SUFFICES ASSUME StreamInv, HeardInv PROVE NoFalseEnd
    OBVIOUS
  <2> QED BY StillOpen, AllTold DEF StreamInv, Shape, NoFalseEnd
<1> QED BY <1>1, Heard, PTL

\* No client is ever sent a frame that its dialect forbids where it stands,
\* whatever the upstream streams and wherever it breaks off.
THEOREM ClientsInOrder == Spec => []ClientOrder
<1>1. StreamInv /\ HeardInv => ClientOrder
  <2> SUFFICES ASSUME StreamInv, HeardInv PROVE ClientOrder
    OBVIOUS
  <2> QED BY StillOpen, AllTold DEF StreamInv, Shape, ClientOrder
<1> QED BY <1>1, Heard, PTL

\* A client whose answer is complete has put together from its frames what a
\* client that does not stream is given, in every dialect.
THEOREM AnswersAgree == Spec => []SameAnswer
<1>1. StreamInv /\ HeardInv => SameAnswer
  <2> SUFFICES ASSUME StreamInv, HeardInv PROVE SameAnswer
    OBVIOUS
  <2> QED BY StillOpen, AllTold DEF StreamInv, Shape, SameAnswer
<1> QED BY <1>1, Heard, PTL
=============================================================================
