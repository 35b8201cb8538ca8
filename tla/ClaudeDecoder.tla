---------------------------- MODULE ClaudeDecoder ---------------------------
(***************************************************************************)
(* providers/claude/events.rs: Claude's stream events to canonical events. *)
(***************************************************************************)
EXTENDS StreamEvents, FiniteSets

New == [thinking |-> <<>>, tid |-> 0, redacted |-> <<>>, native |-> <<>>,
        call |-> <<>>, span |-> 0, calls |-> <<>>, signed |-> <<>>,
        phase |-> <<>>, stop |-> ""]

Hosted(d, id, phase) ==
    IF Advances(d.phase, id, phase)
    THEN Ok([d EXCEPT !.phase = With(@, id, phase)],
            <<[k |-> "hosted", id |-> id, phase |-> phase]>>)
    ELSE Ok(d, <<>>)

BlockStart(d, e) ==
    CASE e.kind = "text"     -> Ok([d EXCEPT !.span = e.i], <<>>)
      [] e.kind = "native"   -> Ok([d EXCEPT !.native = <<Block("native", e.i, <<>>)>>], <<>>)
      [] e.kind = "tool_use" ->
            Ok([d EXCEPT !.call = <<[index |-> e.i, id |-> e.i, args |-> <<>>]>>],
               <<[k |-> "call_start", index |-> e.i, id |-> e.i, args |-> <<>>]>>)
      [] e.kind = "thinking" ->
            Ok([d EXCEPT !.thinking = <<[text |-> <<>>, sig |-> <<>>]>>, !.tid = e.i], <<>>)
      [] e.kind = "redacted" ->
            Ok([d EXCEPT !.redacted = <<e.data>>], <<[k |-> "redacted", data |-> e.data]>>)
      [] e.kind = "search"   -> Hosted(d, e.id, "searching")
      [] e.kind = "result"   -> Hosted(d, e.id, e.phase)

Delta(d, e) ==
    CASE e.d = "text"      -> Ok(d, <<[k |-> "text", x |-> e.x, span |-> d.span]>>)
      [] e.d = "cite"      -> Ok(d, <<[k |-> "cite", x |-> e.x, url |-> e.url, span |-> d.span]>>)
      [] e.d = "thinking"  ->
            Ok(IF d.thinking = <<>> THEN d
               ELSE [d EXCEPT !.thinking[1].text = Append(@, e.x)],
               <<[k |-> "thinking", x |-> <<e.x>>, item |-> d.tid]>>)
      [] e.d = "signature" ->
            Ok(IF d.thinking = <<>> THEN d ELSE [d EXCEPT !.thinking[1].sig = <<e.x>>], <<>>)
      [] e.d = "json" /\ d.native # <<>> ->
            Ok([d EXCEPT !.native[1].body = Append(@, e.x)], <<>>)
      [] e.d = "json" /\ d.native = <<>> /\ d.call # <<>> ->
            Ok([d EXCEPT !.call[1].args = Append(@, e.x)],
               <<[k |-> "call_args", index |-> d.call[1].index, x |-> e.x]>>)
      [] OTHER             -> Ok(d, <<>>)

\* Altered: the blocks of a response are not counted.
EnvelopeUncounted(d, id, text, sig) ==
    [k |-> "reasoning", item |-> [Block("reasoning", id, text) EXCEPT !.sig = <<sig>>]]

\* The opaque item that carries one signed block: its envelope holds kind,
\* text and signature together, and the block's ordinal in this response.
Envelope(d, id, text, sig) ==
    [k |-> "reasoning",
     item |-> [Block("reasoning", id, text) EXCEPT !.sig = <<[sig EXCEPT !.ord = Len(d.signed)]>>]]

\* A signature without text is unreplayable, so only the two together count.
CloseThinking(d) ==
    IF d.thinking = <<>> THEN Ok(d, <<>>)
    ELSE LET open   == d.thinking[1]
             closed == [d EXCEPT !.thinking = <<>>]
         IN  IF open.sig = <<>> \/ open.text = <<>> THEN Ok(closed, <<>>)
             ELSE Ok([closed EXCEPT !.signed = Append(@, open)],
                     <<[k |-> "signature", sig |-> open.sig[1]],
                       Envelope(d, d.tid, open.text, open.sig[1])>>)

CloseRedacted(d, fresh) ==
    IF d.redacted = <<>> THEN Ok(d, <<>>)
    ELSE Ok([d EXCEPT !.redacted = <<>>,
                      !.signed = Append(@, [text |-> <<>>, sig |-> d.redacted])],
            <<Envelope(d, fresh, <<>>, d.redacted[1])>>)

CloseNative(d) ==
    Ok([d EXCEPT !.native = <<>>],
       [j \in 1..Len(d.native) |-> [k |-> "native_block", block |-> d.native[j]]])

\* A call without input still has to reach the client as "{}".
CloseCall(d) ==
    IF d.call = <<>> THEN Ok(d, <<>>)
    ELSE LET call   == d.call[1]
             closed == [d EXCEPT !.call = <<>>]
             empty  == call.args = <<>>
             args   == IF empty THEN <<"{}">> ELSE call.args
         IN  IF call.id \in Range(d.calls) THEN Ok(closed, <<>>)
             ELSE Ok([closed EXCEPT !.calls = Append(@, call.id)],
                     (IF empty THEN <<[k |-> "call_args", index |-> call.index, x |-> "{}"]>>
                      ELSE <<>>)
                     \o <<[k |-> "call_end", index |-> call.index, id |-> call.id, args |-> args]>>)

BlockStop(d, e) ==
    Then(Then(Then(CloseThinking(d), LAMBDA s : CloseRedacted(s, e.i)), CloseNative), CloseCall)

Decode(d, e) ==
    CASE e.t = "start"         -> BlockStart(d, e)
      [] e.t = "delta"         -> Delta(d, e)
      [] e.t = "stop"          -> BlockStop(d, e)
      [] e.t = "message_delta" -> Ok([d EXCEPT !.stop = e.reason], <<>>)
      [] e.t = "error"         -> Err(d)
      [] OTHER                 -> Ok(d, <<>>)

\* The ids of a set in order (SetToSortSeq says the same; the provers cannot
\* expand it).
Sorted(ids) ==
    [n \in 1..Cardinality(ids) |-> CHOOSE id \in ids : Cardinality({x \in ids : x < id}) = n - 1]

\* Claude runs no search in a response that stops at a client's call: one
\* still open then never ran.
Finish(d) ==
    LET reason == IF d.stop # "" THEN d.stop
                  ELSE IF d.calls = <<>> THEN "end_turn" ELSE "tool_use"
        open   == {id \in DOMAIN d.phase : reason = "tool_use" /\ PhaseRank(d.phase[id]) < 2}
        dropped == InTurn(LAMBDA r, id : Then(r, LAMBDA s : Hosted(s, id, "dropped")),
                            Ok(d, <<>>), Sorted(open))
    IN  Then(dropped, LAMBDA s : Ok(s, <<[k |-> "finish", reason |-> reason], [k |-> "usage"]>>))
=============================================================================
