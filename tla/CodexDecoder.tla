---------------------------- MODULE CodexDecoder ----------------------------
(***************************************************************************)
(* providers/codex/events.rs: the Responses events of Codex to canonical   *)
(* events.  An item arrives by its own events, is closed by                *)
(* output_item.done and is listed again by the terminal event.             *)
(***************************************************************************)
EXTENDS StreamEvents

New == [thinking |-> <<>>, items |-> <<>>, calls |-> <<>>, native |-> {},
        cited |-> {}, phase |-> <<>>, stop |-> ""]

Hosted(d, id, phase) ==
    IF Advances(d.phase, id, phase)
    THEN Ok([d EXCEPT !.phase = With(@, id, phase)],
            <<[k |-> "hosted", id |-> id, phase |-> phase]>>)
    ELSE Ok(d, <<>>)

WebSearch(d, item, phase) ==
    IF item.kind = "search" THEN Hosted(d, item.id, phase) ELSE Ok(d, <<>>)

\* A finished message lists the annotations it streamed; they are read once.
Annotations(d, item) ==
    Ok([d EXCEPT !.cited = IF item.kind = "text" THEN @ \cup {item.id} ELSE @],
       IF item.id \in d.cited THEN <<>>
       ELSE [j \in 1..Len(item.cites) |-> [k |-> "cite", x |-> item.cites[j], url |-> TRUE, span |-> 0]])

\* Altered: an item is taken again each time it is listed.
ReasoningAgain(d, item) ==
    Ok([d EXCEPT !.thinking = <<>>],
       IF item.sig = <<>> THEN <<>>
       ELSE <<[k |-> "reasoning", item |-> item], [k |-> "signature", sig |-> item.sig[1]]>>)

\* One opaque item, once, bridged through a signature over the text shown.
Reasoning(d, item) ==
    LET kept    == [item EXCEPT !.cites = <<>>]
        forget  == [d EXCEPT !.thinking = <<>>]
        unshown == item.body # <<>> /\ d.thinking = <<>>
        shown   == IF unshown THEN item.body ELSE d.thinking
    IN  IF item.sig = <<>> \/ kept \in Range(d.items) THEN Ok(forget, <<>>)
        ELSE Ok([forget EXCEPT !.items = Append(@, kept)],
                (IF unshown THEN <<[k |-> "thinking", x |-> item.body, item |-> item.id]>> ELSE <<>>)
                \o <<[k |-> "reasoning", item |-> kept],
                     [k |-> "signature", sig |-> [item.sig[1] EXCEPT !.over = shown]]>>)

\* Altered: a call is taken again each time it is listed.
FunctionCallAgain(d, item) ==
    Ok([d EXCEPT !.calls = Append(@, item.id)],
       <<[k |-> "call_start", index |-> Len(d.calls), id |-> item.id, args |-> item.body],
         [k |-> "call_end", index |-> Len(d.calls), id |-> item.id, args |-> item.body]>>)

FunctionCall(d, item) ==
    LET index == Len(d.calls)
    IN  IF item.id \in Range(d.calls) THEN Ok(d, <<>>)
        ELSE Ok([d EXCEPT !.calls = Append(@, item.id)],
                <<[k |-> "call_start", index |-> index, id |-> item.id, args |-> item.body],
                  [k |-> "call_end", index |-> index, id |-> item.id, args |-> item.body]>>)

Native(d, item) ==
    IF item.id \in d.native THEN Ok(d, <<>>)
    ELSE Ok([d EXCEPT !.native = @ \cup {item.id}], <<[k |-> "native_item", item |-> item]>>)

Item(d, item) ==
    Then(Then(WebSearch(d, item, item.st), LAMBDA s : Annotations(s, item)),
         LAMBDA s : CASE item.kind = "reasoning" -> Reasoning(s, item)
                      [] item.kind = "tool_use"  -> FunctionCall(s, item)
                      [] item.kind = "native"    -> Native(s, item)
                      [] OTHER                   -> Ok(s, <<>>))

TerminalResponse(d, e) ==
    Then(InTurn(LAMBDA r, item : Then(r, LAMBDA s : Item(s, item)), Ok(d, <<>>), e.output),
         LAMBDA s : Ok(IF e.t = "incomplete" THEN [s EXCEPT !.stop = e.reason] ELSE s, <<>>))

Decode(d, e) ==
    CASE e.t = "text"     -> Ok(d, <<[k |-> "text", x |-> e.x, span |-> 0]>>)
      [] e.t = "thinking" -> Ok([d EXCEPT !.thinking = Append(@, e.x)],
                                <<[k |-> "thinking", x |-> <<e.x>>, item |-> e.id]>>)
      [] e.t = "cite"     -> Ok(d, <<[k |-> "cite", x |-> e.x, url |-> TRUE, span |-> 0]>>)
      [] e.t = "added"    -> WebSearch(d, e.item, "started")
      [] e.t = "done"     -> Item(d, e.item)
      [] e.t = "search"   -> Hosted(d, e.id, e.phase)
      [] e.t \in {"completed", "incomplete"} -> TerminalResponse(d, e)
      [] e.t \in {"failed", "error"}         -> Err(d)
      [] OTHER            -> Ok(d, <<>>)

Finish(d) ==
    LET reason == IF d.stop # "" THEN d.stop
                  ELSE IF d.calls = <<>> THEN "end_turn" ELSE "tool_use"
    IN  Ok(d, <<[k |-> "finish", reason |-> reason], [k |-> "usage"]>>)
=============================================================================
