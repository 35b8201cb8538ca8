---------------------------- MODULE ChunkEncoder ----------------------------
(***************************************************************************)
(* dialects/chat_egress.rs: canonical events to Chat Completions chunks.   *)
(* Clients gather a call's pieces by an index counted from 0.              *)
(***************************************************************************)
EXTENDS StreamEvents

New == [content |-> <<>>, reasoning |-> <<>>, calls |-> <<>>, positions |-> <<>>,
        cites |-> <<>>, stop |-> "", usage |-> FALSE]

\* positions[p] is the upstream index of the call at position p - 1.
Position(s, index) ==
    LET at == {p \in DOMAIN s.positions : s.positions[p] = index}
    IN  IF at = {} THEN 0 ELSE (CHOOSE p \in at : TRUE) - 1

FinishReason(reason) ==
    CASE reason = "tool_use"   -> "tool_calls"
      [] reason = "max_tokens" -> "length"
      [] reason = "refusal"    -> "content_filter"
      [] OTHER                 -> "stop"

CallStart(s, ev) ==
    LET known == ev.index \in Range(s.positions)
        next  == IF known THEN s ELSE [s EXCEPT !.positions = Append(@, ev.index)]
    IN  Ok(next, <<[f |-> "call", pos |-> Position(next, ev.index), id |-> ev.id, x |-> ev.args]>>)

\* Altered: a client is told each citation, the message keeps the repeats.
CitationKept(s, ev) ==
    IF ~ev.url THEN Ok(s, <<>>)
    ELSE Ok([s EXCEPT !.cites = Append(@, ev.x)],
            IF ev.x \in Range(s.cites) THEN <<>> ELSE <<[f |-> "cite", x |-> ev.x]>>)

Citation(s, ev) ==
    IF ~ev.url \/ ev.x \in Range(s.cites) THEN Ok(s, <<>>)
    ELSE Ok([s EXCEPT !.cites = Append(@, ev.x)], <<[f |-> "cite", x |-> ev.x]>>)

One(s, ev) ==
    CASE ev.k \in {"native_item", "native_block"} -> Err(s)
      [] ev.k = "text"       -> Ok([s EXCEPT !.content = Append(@, ev.x)], <<[f |-> "text", x |-> ev.x]>>)
      [] ev.k = "thinking"   -> Ok([s EXCEPT !.reasoning = @ \o ev.x], <<[f |-> "reasoning", x |-> ev.x]>>)
      [] ev.k = "call_start" -> CallStart(s, ev)
      [] ev.k = "call_args"  -> Ok(s, <<[f |-> "args", pos |-> Position(s, ev.index), x |-> ev.x]>>)
      [] ev.k = "call_end"   -> Ok([s EXCEPT !.calls = Append(@, Block("tool_use", ev.id, ev.args))], <<>>)
      [] ev.k = "cite"       -> Citation(s, ev)
      [] ev.k = "usage"      -> Ok([s EXCEPT !.usage = TRUE], <<>>)
      [] ev.k = "finish"     -> Ok([s EXCEPT !.stop = FinishReason(ev.reason)], <<>>)
      [] OTHER               -> Ok(s, <<>>)

Stop(s) == IF s.stop # "" THEN s.stop ELSE IF s.calls # <<>> THEN "tool_calls" ELSE "stop"

Start(s) == Ok(s, <<[f |-> "role"]>>)

Finish(s, events) ==
    Then(Encode(s, events, One), LAMBDA c :
         Ok(c, <<[f |-> "finish", reason |-> Stop(c)]>>
               \o IF c.usage THEN <<[f |-> "usage"]>> ELSE <<>>))

\* The message of the same answer to a client that does not stream: its text
\* and reasoning, then its calls.
Result(s) ==
    <<[Block("text", 0, s.content) EXCEPT !.cites = s.cites], Block("reasoning", 0, s.reasoning)>>
    \o s.calls
=============================================================================
