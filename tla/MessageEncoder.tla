--------------------------- MODULE MessageEncoder ---------------------------
(***************************************************************************)
(* dialects/messages_egress.rs: canonical events to Anthropic Messages     *)
(* frames.  One content block is open at a time, under rising indices.     *)
(***************************************************************************)
EXTENDS StreamEvents

New == [open |-> <<>>, span |-> 0, index |-> -1, blocks |-> <<>>, stop |-> ""]

Opened(s, kind) == s.open # <<>> /\ s.open[1].kind = kind

\* A call whose arguments are not a JSON object fails, and stays open.
Close(s) ==
    IF s.open = <<>> THEN Ok(s, <<>>)
    ELSE IF Opened(s, "tool_use") /\ ~Parses(s.open[1].body) THEN Err(s)
    ELSE Ok([s EXCEPT !.blocks = Append(@, s.open[1]), !.open = <<>>],
            <<[f |-> "block_stop", i |-> s.index]>>)

OpenBlock(s, block) ==
    Then(Close(s), LAMBDA c :
        Ok([c EXCEPT !.index = @ + 1, !.open = <<block>>, !.span = 0],
           <<[f |-> "block_start", i |-> c.index + 1, block |-> block]>>))

\* A delta to the open block, kept in the message as well.
Extend(s, type, x) ==
    LET b    == s.open[1]
        wide == CASE type = "signature_delta" -> [b EXCEPT !.sig = x]
                  [] type = "citations_delta" -> [b EXCEPT !.cites = @ \o x]
                  [] OTHER                    -> [b EXCEPT !.body = @ \o x]
    IN  Ok([s EXCEPT !.open = <<wide>>],
           <<[f |-> "delta", i |-> s.index, type |-> type, x |-> x]>>)

\* A block handed over whole.
Whole(s, block) == Then(OpenBlock(s, block), Close)

Text(s, span) ==
    IF Opened(s, "text") /\ s.span = span THEN Ok(s, <<>>)
    ELSE Then(OpenBlock(s, Block("text", 0, <<>>)), LAMBDA o : Ok([o EXCEPT !.span = span], <<>>))

EnsureThinking(s) ==
    IF Opened(s, "thinking") THEN Ok(s, <<>>) ELSE OpenBlock(s, Block("thinking", 0, <<>>))

\* Altered: the use is shown as soon as the search is known.
SearchEarly(s, ev) ==
    CASE ev.phase = "searching" -> OpenBlock(s, Block("server_tool_use", ev.id, <<>>))
      [] ev.phase \in {"completed", "failed"} ->
            Whole(s, Block("web_search_tool_result", ev.id, <<ev.phase>>))
      [] OTHER -> Ok(s, <<>>)

\* The use and its result leave together, once the search has ended: a use
\* without its result cannot be sent back to Anthropic.
Search(s, ev) ==
    IF ev.phase \in {"completed", "failed"}
    THEN Then(Then(OpenBlock(s, Block("server_tool_use", ev.id, <<>>)),
                   LAMBDA o : OpenBlock(o, Block("web_search_tool_result", ev.id, <<ev.phase>>))),
              Close)
    ELSE Ok(s, <<>>)

Citation(s, ev) ==
    IF ev.span = 0 /\ ~Opened(s, "text") THEN Ok(s, <<>>)
    ELSE Then(IF ev.span = 0 THEN Ok(s, <<>>) ELSE Text(s, ev.span), LAMBDA o :
              IF ev.x \in Range(o.open[1].cites) THEN Ok(o, <<>>)
              ELSE Extend(o, "citations_delta", <<ev.x>>))

One(s, ev) ==
    CASE ev.k = "native_item"  -> Err(s)
      [] ev.k = "native_block" -> Whole(s, ev.block)
      [] ev.k = "text"         -> Then(Text(s, ev.span), LAMBDA o : Extend(o, "text_delta", <<ev.x>>))
      [] ev.k = "thinking"     -> Then(EnsureThinking(s), LAMBDA o : Extend(o, "thinking_delta", ev.x))
      [] ev.k = "signature"    ->
            Then(Then(EnsureThinking(s), LAMBDA o : Extend(o, "signature_delta", <<ev.sig>>)), Close)
      [] ev.k = "redacted"     ->
            Whole(s, [Block("redacted_thinking", 0, <<>>) EXCEPT !.sig = <<ev.data>>])
      [] ev.k = "call_start"   ->
            Then(OpenBlock(s, Block("tool_use", ev.id, <<>>)), LAMBDA o :
                 IF ev.args = <<>> THEN Ok(o, <<>>) ELSE Extend(o, "input_json_delta", ev.args))
      [] ev.k = "call_args"    ->
            IF Opened(s, "tool_use") THEN Extend(s, "input_json_delta", <<ev.x>>) ELSE Ok(s, <<>>)
      [] ev.k = "call_end"     -> Close(s)
      [] ev.k = "hosted"       -> Search(s, ev)
      [] ev.k = "cite"         -> Citation(s, ev)
      [] ev.k = "finish"       -> Ok([s EXCEPT !.stop = ev.reason], <<>>)
      [] OTHER                 -> Ok(s, <<>>)

Stop(s) ==
    IF s.stop # "" THEN s.stop
    ELSE IF \E j \in DOMAIN s.blocks : s.blocks[j].kind = "tool_use" THEN "tool_use" ELSE "end_turn"

Start(s) == Ok(s, <<[f |-> "message_start"]>>)

\* `events` is what the decoder only knows at the end.
Finish(s, events) ==
    Then(Then(Encode(s, events, One), Close), LAMBDA c :
         Ok(c, <<[f |-> "message_delta", reason |-> Stop(c)], [f |-> "message_stop"]>>))

\* The content of the same answer to a client that does not stream.
Result(s) == s.blocks
=============================================================================
