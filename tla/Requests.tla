------------------------------ MODULE Requests ------------------------------
(***************************************************************************)
(* A client's conversation on its way to an upstream: the dialects' parse  *)
(* (dialects/*_ingress.rs) to turns of canonical blocks, and the two       *)
(* request models (providers/*/request.rs), which decide what signed       *)
(* reasoning goes back.                                                    *)
(*                                                                         *)
(* A conversation is a sequence of messages [role, blocks], its blocks the *)
(* ones the encoders handed out and the client's texts and tool results.   *)
(***************************************************************************)
EXTENDS StreamEvents, ReasoningCache

Turn(role, blocks) == [role |-> role, blocks |-> blocks]

OfKind(blocks, kind) == SelectSeq(blocks, LAMBDA b : b.kind = kind)
Has(turn, kind)      == \E j \in DOMAIN turn.blocks : turn.blocks[j].kind = kind

\* The tool calls of a turn, by which the cache keeps its reasoning.
CallIds(turn) == [j \in DOMAIN OfKind(turn.blocks, "ToolUse") |-> OfKind(turn.blocks, "ToolUse")[j].id]

(***************************************************************************)
(* Ingress.                                                                *)
(***************************************************************************)
Shared == [text |-> "Text", tool_use |-> "ToolUse", tool_result |-> "ToolResult"]

MessagesKind == Shared @@ [thinking |-> "Thinking", redacted_thinking |-> "Redacted",
                           server_tool_use |-> "AnthropicSearch",
                           web_search_tool_result |-> "AnthropicSearch",
                           native |-> "NativeAnthropicBlock"]

ResponsesKind == Shared @@ [reasoning |-> "Reasoning", search |-> "ResponsesSearch",
                            native |-> "NativeResponseItem"]

Read(kinds, blocks) == [j \in DOMAIN blocks |-> [blocks[j] EXCEPT !.kind = kinds[@]]]

MessagesTurns(history) ==
    [j \in DOMAIN history |-> Turn(history[j].role, Read(MessagesKind, history[j].blocks))]

\* Items of one role side by side are one turn.
AppendTo(turns, role, blocks) ==
    IF blocks = <<>> THEN turns
    ELSE IF turns # <<>> /\ Last(turns).role = role
    THEN [turns EXCEPT ![Len(turns)].blocks = @ \o blocks]
    ELSE Append(turns, Turn(role, blocks))

ResponsesTurns(history) ==
    FoldLeft(LAMBDA turns, msg : AppendTo(turns, msg.role, Read(ResponsesKind, msg.blocks)), <<>>, history)

\* Tool results side by side are one user turn.
AddToolResult(turns, result) ==
    IF turns # <<>> /\ Last(turns).role = "user"
       /\ \A j \in DOMAIN Last(turns).blocks : Last(turns).blocks[j].kind = "ToolResult"
    THEN [turns EXCEPT ![Len(turns)].blocks = Append(@, result)]
    ELSE Append(turns, Turn("user", <<result>>))

\* Chat Completions: reasoning is not read back, an empty message is none.
ChatTurns(history) ==
    LET said(msg) == SelectSeq(msg.blocks, LAMBDA b : b.kind = "tool_use" \/ (b.kind = "text" /\ b.body # <<>>))
        Assistant(turns, msg) == IF said(msg) = <<>> THEN turns
                                 ELSE Append(turns, Turn("assistant", Read(Shared, said(msg))))
        User(turns, b) == IF b.kind = "ToolResult" THEN AddToolResult(turns, b)
                          ELSE Append(turns, Turn("user", <<b>>))
    IN  FoldLeft(LAMBDA turns, msg : IF msg.role = "assistant" THEN Assistant(turns, msg)
                                     ELSE FoldLeft(User, turns, Read(Shared, msg.blocks)),
                 <<>>, history)

(***************************************************************************)
(* Claude.                                                                 *)
(***************************************************************************)
\* What an opaque item holds.  Another program's blob, or one of a version
\* this build cannot read, is like none; ord -1 is a damaged envelope.
Unpack(item) ==
    IF item.sig = <<>> THEN "Foreign" ELSE IF item.sig[1].ord < 0 THEN "Malformed" ELSE "Ok"

\* The block in the envelope; nothing is rebuilt from the readable summary.
Enveloped(item) == [Block("signed", 0, item.sig[1].over) EXCEPT !.sig = item.sig]

\* Altered: a signature is enough.
ReplayableSigned(b) == b.kind = "Redacted" \/ b.sig # <<>>

\* A signature over text that was never streamed cannot be sent back.
Replayable(b) == b.kind = "Redacted" \/ (b.body # <<>> /\ b.sig # <<>>)

Gathered == [out |-> <<>>, ordinals |-> <<>>, lost |-> 0, native |-> FALSE, err |-> FALSE]

\* One block of a turn, kept in its place.
Gather(turn, acc, b) ==
    LET Push(x) == [acc EXCEPT !.out = Append(@, x)]
        lost(a) == [a EXCEPT !.lost = @ + 1]
        signed  == [b EXCEPT !.kind = "signed"]
    IN  CASE b.kind = "NativeResponseItem" -> [acc EXCEPT !.err = TRUE]
          [] b.kind \in {"Thinking", "Redacted"} ->
                [IF Replayable(b) THEN Push(signed) ELSE lost(acc) EXCEPT !.native = TRUE]
          [] b.kind = "Reasoning" ->
                IF Unpack(b) = "Ok" /\ Replayable(Enveloped(b))
                THEN [Push(Enveloped(b)) EXCEPT !.ordinals = Append(@, b.sig[1].ord)]
                ELSE lost(acc)
          [] b.kind = "Text"            -> IF turn.role = "user" \/ b.body # <<>> THEN Push(b) ELSE acc
          [] b.kind = "ToolUse"         -> IF Parses(b.body) THEN Push(b) ELSE [acc EXCEPT !.err = TRUE]
          [] b.kind = "ResponsesSearch" -> acc
          [] OTHER                      -> Push(b)

\* The thinking blocks the cache holds for the calls of a turn.
CachedReplay(items) == [j \in DOMAIN items |-> [Block("signed", 0, items[j].text) EXCEPT !.sig = items[j].sig]]

\* Altered: a turn that lost a block sends the others.
SettleRest(acc, replay) ==
    LET disordered == \E j \in DOMAIN acc.ordinals : acc.ordinals[j] # j - 1
    IN  IF acc.native THEN Ok(acc.out, <<>>)
        ELSE IF acc.ordinals # <<>> THEN IF disordered THEN Err(acc.out) ELSE Ok(acc.out, <<>>)
        ELSE Ok(replay \o acc.out, <<>>)

\* Which signed blocks of a turn go upstream: a fraction of a signed turn is
\* altered, none of it merely thinner.  The cache's count catches a block
\* dropped from the end, whose ordinals still read 0..n-1.
Settle(acc, replay) ==
    LET fraction   == acc.lost > 0 \/ Len(acc.ordinals) < Len(replay)
        disordered == \E j \in DOMAIN acc.ordinals : acc.ordinals[j] # j - 1
    IN  CASE acc.native -> Ok(acc.out, <<>>)
          [] ~acc.native /\ acc.ordinals = <<>> -> Ok(replay \o acc.out, <<>>)
          [] ~acc.native /\ acc.ordinals # <<>> /\ fraction ->
                Ok(SelectSeq(acc.out, LAMBDA b : b.kind # "signed"), <<>>)
          [] OTHER -> IF disordered THEN Err(acc.out) ELSE Ok(acc.out, <<>>)

\* Altered: a turn with a call and a search.
DropsAnySearch(turn) == Has(turn, "ToolUse") /\ Has(turn, "ResponsesSearch")

\* A turn with a call and a search that never completed: Claude stopped at
\* the call.  Only a Responses item has a status.
DropsSearch(turn) ==
    Has(turn, "ToolUse") /\ \E j \in DOMAIN turn.blocks :
                               turn.blocks[j].kind = "ResponsesSearch" /\ turn.blocks[j].st # "completed"

Note == Block("dropped_search", 0, <<>>)

\* The conversation as Messages turns, and the cache after its use.
ClaudeRequest(turns, cache) ==
    LET Add(r, turn) ==
            LET acc     == FoldLeft(LAMBDA a, b : IF a.err THEN a ELSE Gather(turn, a, b), Gathered, turn.blocks)
                found   == Get(r.cache, CallIds(turn))
                settled == IF acc.err THEN Err(<<>>) ELSE Settle(acc, CachedReplay(found.items))
                content == settled.s \o IF turn.role = "user" /\ r.dropped THEN <<Note>> ELSE <<>>
            IN  IF r.err THEN r
                ELSE [cache   |-> IF acc.err THEN r.cache ELSE found.cache,
                      dropped |-> turn.role = "assistant" /\ DropsSearch(turn),
                      err     |-> settled.err,
                      turns   |-> IF content = <<>> THEN r.turns
                                  ELSE Append(r.turns, Turn(turn.role, content))]
        all == FoldLeft(Add, [cache |-> cache, dropped |-> FALSE, err |-> FALSE, turns |-> <<>>], turns)
    IN  [ok |-> ~all.err /\ all.turns # <<>> /\ all.turns[1].role = "user",
         turns |-> all.turns, cache |-> all.cache]

(***************************************************************************)
(* Codex.                                                                  *)
(***************************************************************************)
\* A thinking block must carry one of our envelopes over its very text.
ThinkingItem(b) ==
    IF b.sig = <<>> \/ b.body # b.sig[1].over THEN Err(<<>>)
    ELSE Ok(<<[b EXCEPT !.kind = "signed"]>>, <<>>)

\* The items of one block; the cache's go before the first call.
BlockItems(b, cached) ==
    CASE b.kind = "Thinking"             -> ThinkingItem(b)
      [] b.kind = "Reasoning"            -> Ok(<<[b EXCEPT !.kind = "signed"]>>, <<>>)
      [] b.kind = "AnthropicSearch"      -> Ok(<<>>, <<>>)
      [] b.kind \in {"NativeAnthropicBlock", "Redacted"} -> Err(<<>>)
      [] b.kind = "ToolUse"              -> IF Parses(b.body) THEN Ok(Append(cached, b), <<>>) ELSE Err(<<>>)
      [] OTHER                           -> Ok(<<b>>, <<>>)

TurnItems(turn, cache) ==
    LET own    == Has(turn, "Reasoning") \/ Has(turn, "Thinking") \/ Has(turn, "Redacted")
        found  == IF own THEN [items |-> <<>>, cache |-> cache] ELSE Get(cache, CallIds(turn))
        cached == [j \in DOMAIN found.items |-> [found.items[j] EXCEPT !.kind = "signed"]]
        Add(r, b) ==
            LET one == BlockItems(b, IF r.called THEN <<>> ELSE cached)
            IN  IF r.err THEN r
                ELSE [out |-> r.out \o one.s, called |-> r.called \/ b.kind = "ToolUse", err |-> one.err]
        all == FoldLeft(Add, [out |-> <<>>, called |-> FALSE, err |-> FALSE], turn.blocks)
    IN  [err |-> all.err, out |-> all.out, cache |-> found.cache]

CodexRequest(turns, cache) ==
    LET Add(r, turn) ==
            LET one == TurnItems(turn, r.cache)
            IN  IF r.err THEN r
                ELSE [cache |-> one.cache, err |-> one.err, turns |-> Append(r.turns, Turn(turn.role, one.out))]
        all == FoldLeft(Add, [cache |-> cache, err |-> FALSE, turns |-> <<>>], turns)
    IN  [ok |-> ~all.err, turns |-> all.turns, cache |-> all.cache]
=============================================================================
