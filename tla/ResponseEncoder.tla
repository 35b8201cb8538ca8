--------------------------- MODULE ResponseEncoder --------------------------
(***************************************************************************)
(* dialects/responses_egress.rs: canonical events to Responses events.     *)
(* The message, the reasoning item, the calls and the searches are items   *)
(* of `output`, known by their position in it (from 1 here).               *)
(***************************************************************************)
EXTENDS StreamEvents

New == [output |-> <<>>, seq |-> 0, message |-> 0, reasoning |-> 0, part |-> FALSE,
        calls |-> <<>>, searches |-> <<>>, incomplete |-> FALSE, terminal |-> FALSE]

\* Every event takes the next sequence number.
Event(s, kind, pos, x) ==
    Ok([s EXCEPT !.seq = @ + 1], <<[f |-> kind, seq |-> s.seq, pos |-> pos, x |-> x]>>)

\* A new item, announced as `added`.
Add(s, item, added) ==
    Event([s EXCEPT !.output = Append(@, item)], "added", Len(s.output) + 1, added)

Done(s, pos) == Event(s, "done", pos, s.output[pos])

\* An opaque item completes the open one, whose announced id it keeps, or
\* is an item of its own, added and done at once.
CompleteReasoning(s, opaque) ==
    LET pos  == s.reasoning
        item == [opaque EXCEPT !.id = s.output[pos].id]
        kept == [s EXCEPT !.output[pos] = item]
        shut(r) == Ok([r EXCEPT !.reasoning = 0, !.part = FALSE], <<>>)
    IN  IF pos = 0
        THEN Then(Add(s, opaque, opaque), LAMBDA a : Done(a, Len(a.output)))
        ELSE Then(Then(IF s.part /\ item.body # <<>>
                       THEN Then(Event(kept, "text_done", pos, item.body),
                                 LAMBDA r : Event(r, "part_done", pos, item.body))
                       ELSE Ok(kept, <<>>),
                       LAMBDA r : Done(r, pos)), shut)

CompleteReasoningOpen(s) ==
    IF s.reasoning = 0 THEN Ok(s, <<>>) ELSE CompleteReasoning(s, s.output[s.reasoning])

EnsureReasoning(s, id) ==
    IF s.reasoning # 0 THEN Ok(s, <<>>)
    ELSE LET item == Block("reasoning", id, <<>>)
         IN  Then(Add(s, item, item), LAMBDA a :
                  Event([a EXCEPT !.reasoning = Len(a.output), !.part = TRUE],
                        "part", Len(a.output), <<>>))

EnsureMessage(s) ==
    IF s.message # 0 THEN Ok(s, <<>>)
    ELSE LET item == Block("text", 0, <<>>)
         IN  Then(Add(s, item, item), LAMBDA a :
                  Event([a EXCEPT !.message = Len(a.output)], "part", Len(a.output), <<>>))

CompleteMessage(s) ==
    IF s.message = 0 THEN Ok(s, <<>>)
    ELSE LET pos  == s.message
             shut == [s EXCEPT !.message = 0, !.output[pos].st = "completed"]
             text == s.output[pos].body
         IN  Then(Then(Event(shut, "text_done", pos, text),
                       LAMBDA r : Event(r, "part_done", pos, text)),
                  LAMBDA r : Done(r, pos))

CloseOpenItems(s) == Then(CompleteReasoningOpen(s), CompleteMessage)

Extend(s, kind, pos, x) == Event([s EXCEPT !.output[pos].body = @ \o x], kind, pos, x)

Thinking(s, ev) ==
    LET other(r) == IF r.reasoning # 0 /\ r.output[r.reasoning].id # ev.item
                    THEN CompleteReasoningOpen(r) ELSE Ok(r, <<>>)
    IN  Then(Then(Then(CompleteMessage(s), other), LAMBDA r : EnsureReasoning(r, ev.item)),
             LAMBDA r : Extend(r, "delta", r.reasoning, ev.x))

Text(s, ev) ==
    Then(Then(CompleteReasoningOpen(s), EnsureMessage),
         LAMBDA r : Extend(r, "delta", r.message, <<ev.x>>))

Native(s, item) ==
    Then(Then(CloseOpenItems(s), LAMBDA r : Add(r, item, item)), LAMBDA a : Done(a, Len(a.output)))

CallStart(s, ev) ==
    LET item == Block("tool_use", ev.id, ev.args)
    IN  Then(Then(CloseOpenItems(s), LAMBDA r : Add(r, item, item)), LAMBDA a :
             Ok([a EXCEPT !.calls = With(@, ev.index, Len(a.output))], <<>>))

CallArgs(s, ev) ==
    IF ev.index \notin DOMAIN s.calls THEN Ok(s, <<>>)
    ELSE Extend(s, "args", s.calls[ev.index], <<ev.x>>)

CallEnd(s, ev) ==
    IF ev.index \notin DOMAIN s.calls THEN Ok(s, <<>>)
    ELSE LET pos == s.calls[ev.index]
             end == [s EXCEPT !.output[pos].body = ev.args, !.output[pos].st = "completed"]
         IN  Then(Event(end, "args_done", pos, ev.args), LAMBDA r : Done(r, pos))

Citation(s, ev) ==
    LET pos == s.message
    IN  IF pos = 0 \/ ~ev.url \/ (pos # 0 /\ ev.x \in Range(s.output[pos].cites)) THEN Ok(s, <<>>)
        ELSE Event([s EXCEPT !.output[pos].cites = Append(@, ev.x)], "cite", pos, ev.x)

\* A hosted search stays open from `added` to its end; Responses has no
\* status for one that never ran.
Search(s, ev) ==
    LET item  == Block("search", ev.id, <<>>)
        known == IF ev.id \in DOMAIN s.searches THEN Ok(s, <<>>)
                 ELSE Then(Then(CloseOpenItems(s), LAMBDA r : Add(r, item, item)), LAMBDA a :
                           Ok([a EXCEPT !.searches = With(@, ev.id, Len(a.output))], <<>>))
        step(r) ==
            LET pos    == r.searches[ev.id]
                status == IF ev.phase = "dropped" THEN "failed" ELSE ev.phase
                ended  == [r EXCEPT !.output[pos].st = status]
            IN  CASE ev.phase = "started"   -> Ok(r, <<>>)
                  [] ev.phase = "searching" -> Event(r, "searching", pos, <<>>)
                  [] OTHER -> Then(IF ev.phase = "completed" THEN Event(ended, "searched", pos, <<>>)
                                   ELSE Ok(ended, <<>>), LAMBDA q : Done(q, pos))
    IN  Then(known, step)

One(s, ev) ==
    CASE ev.k = "thinking"     -> Thinking(s, ev)
      [] ev.k = "reasoning"    -> CompleteReasoning(s, ev.item)
      [] ev.k = "native_item"  -> Native(s, ev.item)
      [] ev.k = "native_block" -> Err(s)
      [] ev.k = "text"         -> Text(s, ev)
      [] ev.k = "call_start"   -> CallStart(s, ev)
      [] ev.k = "call_args"    -> CallArgs(s, ev)
      [] ev.k = "call_end"     -> CallEnd(s, ev)
      [] ev.k = "hosted"       -> Search(s, ev)
      [] ev.k = "cite"         -> Citation(s, ev)
      [] ev.k = "finish"       ->
            Ok([s EXCEPT !.incomplete = ev.reason \in {"max_tokens", "refusal"}], <<>>)
      [] OTHER                 -> Ok(s, <<>>)

Start(s) == Event(s, "created", 0, <<>>)

Error(s) == Event([s EXCEPT !.terminal = TRUE], "error", 0, <<>>)

Finish(s, events) ==
    Then(Then(Encode(s, events, One), CloseOpenItems), LAMBDA r :
         IF r.terminal THEN Ok(r, <<>>)
         ELSE Event([r EXCEPT !.terminal = TRUE],
                    IF r.incomplete THEN "incomplete" ELSE "completed", 0, r.output))

\* The output of the same answer to a client that does not stream.
Result(s) == s.output
=============================================================================
