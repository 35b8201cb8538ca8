------------------------------ MODULE Upstreams -----------------------------
(***************************************************************************)
(* The two upstreams, as the decoders expect them: every well-formed       *)
(* stream of at most MaxBlocks blocks (items) and MaxDeltas deltas in all, *)
(* and a failure at any point.  ClaudeSays(u) and CodexSays(u) are the     *)
(* pairs of a next event and the upstream after it; u remembers what was   *)
(* said, for the properties.                                               *)
(***************************************************************************)
EXTENDS StreamEvents

CONSTANTS MaxBlocks, MaxDeltas

\* signs: whether this Codex response carries encrypted reasoning.
Silent(who, signs) ==
    [who |-> who, phase |-> "open", n |-> 0, left |-> MaxDeltas, block |-> <<>>, search |-> 0, cut |-> FALSE,
     signs |-> signs, items |-> <<>>, texts |-> <<>>, calls |-> <<>>, signed |-> <<>>,
     cites |-> <<>>]

Says(u, e) == [e |-> e, u |-> u]
Sig(i, over) == [of |-> i, over |-> over, ord |-> 0]
Token(b) == 10 * b.i + b.k

\* A block (item) of a kind begins, changes, ends.
Begin(u, kind) ==
    [u EXCEPT !.n = @ + 1, !.block = <<[kind |-> kind, i |-> u.n + 1, k |-> 0, x |-> <<>>,
                                       sig |-> <<>>, cites |-> <<>>]>>]
Spent(u) == [u EXCEPT !.left = @ - 1, !.block[1].k = @ + 1]
Wider(u, x) == [Spent(u) EXCEPT !.block[1].x = Append(@, x)]

(***************************************************************************)
(* Claude.                                                                 *)
(***************************************************************************)
ClaudeKinds(u) ==
    IF u.search = 0 THEN {"text", "thinking", "redacted", "tool_use", "search", "native"}
    ELSE IF u.calls = <<>> THEN {"result", "tool_use"} ELSE {"tool_use"}

ClaudeStart(u, kind, phase) ==
    LET b == Begin(u, kind)
        i == b.n
        at == CASE kind = "search"   -> [b EXCEPT !.search = i]
                [] kind = "result"   -> [b EXCEPT !.search = 0]
                [] kind = "redacted" -> [b EXCEPT !.signed = Append(@, Sig(i, <<>>))]
                [] OTHER             -> b
    IN  Says(at, [t |-> "start", kind |-> kind, i |-> i, data |-> Sig(i, <<>>), phase |-> phase,
                  id |-> IF kind = "result" THEN u.search ELSE i])

ClaudeStarts(u) ==
    {ClaudeStart(u, kind, phase)
     : kind \in ClaudeKinds(u),
       phase \in IF u.search # 0 /\ u.calls = <<>> THEN {"completed", "failed"} ELSE {"completed"}}

ClaudeDelta(u) ==
    LET b    == u.block[1]
        tok  == Token(b)
        more == u.left > 0 /\ b.sig = <<>>
        Plain(d) == Says(Wider(u, tok), [t |-> "delta", d |-> d, x |-> tok])
        Json(x)  == Says([u EXCEPT !.block[1].x = Append(@, x)], [t |-> "delta", d |-> "json", x |-> x])
    IN  CASE b.kind = "text" /\ more ->
               {[Plain("text") EXCEPT !.u.texts = Append(@, tok)]}
               \cup {Says([Spent(u) EXCEPT !.cites = Append(@, [x |-> tok, url |-> url])],
                          [t |-> "delta", d |-> "cite", x |-> tok, url |-> url]) : url \in BOOLEAN}
          [] b.kind = "thinking" /\ b.sig = <<>> ->
               (IF more THEN {Plain("thinking")} ELSE {})
               \cup {Says([u EXCEPT !.block[1].sig = <<Sig(b.i, b.x)>>,
                                    !.signed = IF b.x = <<>> THEN @ ELSE Append(@, Sig(b.i, b.x))],
                          [t |-> "delta", d |-> "signature", x |-> Sig(b.i, b.x)])}
          [] b.kind = "tool_use" /\ b.x = <<>>       -> {Json("whole"), Json("half")}
          [] b.kind = "tool_use" /\ b.x = <<"half">> -> {Json("rest")}
          [] b.kind = "native" /\ more               -> {Plain("json")}
          [] OTHER -> {}

ClaudeStop(u) ==
    LET b   == u.block[1]
        cut == b.kind = "tool_use" /\ b.x = <<"half">>
        end == [u EXCEPT !.block = <<>>, !.cut = cut]
    IN  IF b.kind = "thinking" /\ b.sig = <<>> THEN {}
        ELSE {Says(IF b.kind = "tool_use"
                   THEN [end EXCEPT !.calls = Append(@, [id |-> b.i, args |-> IF b.x = <<>> THEN <<"{}">> ELSE b.x])]
                   ELSE end,
                   [t |-> "stop", i |-> b.i])}

\* Cut arguments end the response at its limit; a search left open ends it
\* at a call, paused or at its limit.
ClaudeReasons(u) ==
    IF u.cut THEN {"max_tokens"}
    ELSE IF u.calls # <<>> THEN {"tool_use", "max_tokens"}
    ELSE IF u.search # 0 THEN {"pause_turn", "max_tokens"}
    ELSE {"end_turn", "max_tokens", "refusal"}

ClaudeSays(u) ==
    CASE u.phase = "open" /\ u.block = <<>> ->
           (IF u.n < MaxBlocks /\ ~u.cut THEN ClaudeStarts(u) ELSE {})
           \cup {Says([u EXCEPT !.phase = "reason"], [t |-> "message_delta", reason |-> reason])
                 : reason \in ClaudeReasons(u)}
           \cup {Says([u EXCEPT !.phase = "failed"], [t |-> "error"])}
      [] u.phase = "open" /\ u.block # <<>> ->
           ClaudeDelta(u) \cup ClaudeStop(u) \cup {Says([u EXCEPT !.phase = "failed"], [t |-> "error"])}
      [] u.phase = "reason" -> {Says([u EXCEPT !.phase = "over"], [t |-> "message_stop"])}
      [] OTHER -> {}

(***************************************************************************)
(* Codex.                                                                  *)
(***************************************************************************)
CodexItem(b, body, st) ==
    [Block(b.kind, b.i, body) EXCEPT !.sig = b.sig, !.cites = b.cites, !.st = st]

CodexStarts(u) ==
    {LET b == Begin(u, kind)
     IN  Says(b, [t |-> "added", item |-> CodexItem(b.block[1], <<>>, "in_progress")])
     : kind \in {"text", "reasoning", "tool_use", "search", "native"}}

CodexDelta(u) ==
    LET b   == u.block[1]
        tok == Token(b)
    IN  IF u.left = 0 THEN {}
        ELSE CASE b.kind = "text" ->
               {[Says(Wider(u, tok), [t |-> "text", x |-> tok]) EXCEPT !.u.texts = Append(@, tok)]}
               \cup (IF b.x = <<>> THEN {}
                     ELSE {Says([Spent(u) EXCEPT !.block[1].cites = Append(@, tok),
                                          !.cites = Append(@, [x |-> tok, url |-> TRUE])],
                                [t |-> "cite", x |-> tok])})
          [] b.kind = "reasoning" -> {Says(Wider(u, tok), [t |-> "thinking", x |-> tok, id |-> b.i])}
          [] b.kind = "search" /\ b.k < 2 ->
               {Says(Spent(u),
                     [t |-> "search", id |-> b.i, phase |-> IF b.k = 0 THEN "searching" ELSE "completed"])}
          [] OTHER -> {}

\* A finished item: its summary may come only now, a search may have failed,
\* and arguments may have been cut.
CodexDone(u) ==
    LET b == u.block[1]
        Finished(item) ==
            LET end == [u EXCEPT !.block = <<>>, !.items = Append(@, item),
                                 !.cut = item.kind = "tool_use" /\ item.body = <<"half">>]
            IN  Says(CASE item.kind = "tool_use" ->
                            [end EXCEPT !.calls = Append(@, [id |-> b.i, args |-> item.body])]
                       [] item.sig # <<>> -> [end EXCEPT !.signed = Append(@, item.sig[1])]
                       [] OTHER -> end,
                     [t |-> "done", item |-> item])
    IN  CASE b.kind = "reasoning" ->
               {Finished([CodexItem(b, x, "completed") EXCEPT
                            !.sig = IF u.signs THEN <<Sig(b.i, x)>> ELSE <<>>])
                : x \in IF b.x = <<>> THEN {<<>>, <<Token(b)>>} ELSE {b.x}}
          [] b.kind = "tool_use" ->
               {Finished(CodexItem(b, x, "completed")) : x \in {<<"{}">>, <<"whole">>, <<"half">>}}
          [] b.kind = "search" ->
               {Finished(CodexItem(b, <<>>, st)) : st \in {"completed", "failed"}}
          [] OTHER -> {Finished(CodexItem(b, <<>>, "completed"))}

CodexSays(u) ==
    IF u.phase # "open" THEN {}
    ELSE (IF u.block # <<>> THEN CodexDelta(u) \cup CodexDone(u)
          ELSE (IF u.n < MaxBlocks /\ ~u.cut THEN CodexStarts(u) ELSE {})
               \cup (IF u.cut THEN {}
                     ELSE {Says([u EXCEPT !.phase = "over"], [t |-> "completed", output |-> output])
                           : output \in {<<>>, u.items}}))
         \cup {Says([u EXCEPT !.phase = "over"],
                    [t |-> "incomplete", output |-> u.items, reason |-> reason])
               : reason \in {"max_tokens", "refusal"}}
         \cup {Says([u EXCEPT !.phase = "failed"], [t |-> "failed"])}

UpstreamSays(u) == IF u.who = "claude" THEN ClaudeSays(u) ELSE CodexSays(u)
=============================================================================
