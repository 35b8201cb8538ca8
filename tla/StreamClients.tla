---------------------------- MODULE StreamClients ---------------------------
(***************************************************************************)
(* The three clients of a stream, as acceptors: each assembles the answer  *)
(* from the frames it is sent and is "bad" once a frame breaks the         *)
(* protocol of its dialect.  They observe the encoders for the properties  *)
(* and model no code of the proxy.                                         *)
(***************************************************************************)
EXTENDS StreamEvents, SequencesExt

Fresh == [phase |-> "start", seq |-> 0, open |-> FALSE, stage |-> <<>>,
          blocks |-> <<>>, final |-> <<>>]

Bad(c) == [c EXCEPT !.phase = "bad"]
Into(c, phase) == [c EXCEPT !.phase = phase]

\* Anthropic Messages: one open block, rising indices, deltas of the block's
\* kind, a server tool's use followed by its result.
Deltas(kind) ==
    CASE kind = "text"     -> {"text_delta", "citations_delta"}
      [] kind = "thinking" -> {"thinking_delta", "signature_delta"}
      [] kind = "tool_use" -> {"input_json_delta"}
      [] OTHER             -> {}

Paired(blocks) ==
    LET n == Len(blocks)
    IN  n = 0 \/ blocks[n].kind # "server_tool_use"

MessagesAccept(c, fr) ==
    LET n     == Len(c.blocks)
        inner == c.phase = "open" /\ c.open /\ n > 0
    IN  CASE fr.f = "message_start" /\ c.phase = "start" -> Into(c, "open")
          [] fr.f = "block_start" /\ c.phase = "open" /\ ~c.open /\ fr.i = n
             /\ (Paired(c.blocks) \/ (/\ fr.block.kind = "web_search_tool_result"
                                      /\ fr.block.id = c.blocks[n].id)) ->
                [c EXCEPT !.open = TRUE, !.blocks = Append(@, fr.block)]
          [] fr.f = "delta" /\ inner /\ fr.i = n - 1 /\ fr.type \in Deltas(c.blocks[n].kind) ->
                CASE fr.type = "signature_delta" -> [c EXCEPT !.blocks[n].sig = fr.x]
                  [] fr.type = "citations_delta" -> [c EXCEPT !.blocks[n].cites = @ \o fr.x]
                  [] OTHER                       -> [c EXCEPT !.blocks[n].body = @ \o fr.x]
          [] fr.f = "block_stop" /\ inner /\ fr.i = n - 1 -> [c EXCEPT !.open = FALSE]
          [] fr.f = "message_delta" /\ c.phase = "open" /\ ~c.open /\ Paired(c.blocks) ->
                Into(c, "reason")
          [] fr.f = "message_stop" /\ c.phase = "reason" -> [Into(c, "over") EXCEPT !.final = c.blocks]
          [] fr.f = "error" /\ c.phase = "open" -> Into(c, "failed")
          [] OTHER -> Bad(c)

\* Responses: consecutive sequence numbers; an item is added, gets its part,
\* its deltas, the part's end and one `done` that shows what was streamed.
ItemAccept(c, fr) ==
    LET at    == fr.pos
        stage == c.stage[at]
        item  == c.blocks[at]
        To(s) == [c EXCEPT !.stage[at] = s]
    IN  CASE fr.f = "part" /\ stage = "added" /\ item.kind \in {"text", "reasoning"} -> To("part")
          [] fr.f = "delta" /\ stage = "part" -> [c EXCEPT !.blocks[at].body = @ \o fr.x]
          [] fr.f = "cite" /\ stage = "part"  -> [c EXCEPT !.blocks[at].cites = Append(@, fr.x)]
          [] fr.f = "text_done" /\ stage = "part" /\ fr.x = item.body  -> To("text")
          [] fr.f = "part_done" /\ stage = "text" /\ fr.x = item.body  -> To("closed")
          [] fr.f = "args" /\ stage = "added" /\ item.kind = "tool_use" ->
                [c EXCEPT !.blocks[at].body = @ \o fr.x]
          [] fr.f = "args_done" /\ stage = "added" /\ item.kind = "tool_use" /\ fr.x = item.body ->
                To("closed")
          [] fr.f \in {"searching", "searched"} /\ stage = "added" /\ item.kind = "search" -> c
          [] fr.f = "done" /\ fr.x.kind = item.kind /\ fr.x.id = item.id /\ fr.x.body = item.body
             /\ fr.x.cites = item.cites
             /\ stage = (IF item.kind \in {"text", "tool_use"} \/ stage = "closed" THEN "closed"
                         ELSE "added") ->
                [To("done") EXCEPT !.blocks[at] = fr.x]
          [] OTHER -> Bad(c)

ResponsesAccept(c, fr) ==
    LET next    == [c EXCEPT !.seq = @ + 1]
        settled == \A j \in DOMAIN c.stage : c.stage[j] = "done" \/ c.blocks[j].kind = "search"
    IN  IF fr.seq # c.seq \/ (c.phase # "open" /\ fr.f # "created") THEN Bad(c)
        ELSE CASE fr.f = "created" /\ c.phase = "start" -> Into(next, "open")
               [] fr.f = "added" /\ fr.pos = Len(c.blocks) + 1 ->
                     [next EXCEPT !.blocks = Append(@, fr.x), !.stage = Append(@, "added")]
               [] fr.f \in {"completed", "incomplete"} /\ settled ->
                     [Into(next, "over") EXCEPT !.final = fr.x]
               [] fr.f = "error" -> Into(next, "failed")
               [] fr.f \notin {"created", "added", "completed", "incomplete", "error"}
                  /\ fr.pos \in DOMAIN c.blocks -> ItemAccept(next, fr)
               [] OTHER -> Bad(c)

\* Chat Completions: text, reasoning and calls gathered by position, a
\* finish reason, the usage, and the [DONE] sentinel at the very end.
ChatAccept(c, fr) ==
    LET calls == Len(c.blocks) - 2
    IN  CASE fr.f = "role" /\ c.phase = "start" ->
                [Into(c, "open") EXCEPT !.blocks = <<Block("text", 0, <<>>), Block("reasoning", 0, <<>>)>>]
          [] fr.f = "text" /\ c.phase = "open"      -> [c EXCEPT !.blocks[1].body = Append(@, fr.x)]
          [] fr.f = "cite" /\ c.phase = "open"      -> [c EXCEPT !.blocks[1].cites = Append(@, fr.x)]
          [] fr.f = "reasoning" /\ c.phase = "open" -> [c EXCEPT !.blocks[2].body = @ \o fr.x]
          [] fr.f = "call" /\ c.phase = "open" /\ fr.pos = calls ->
                [c EXCEPT !.blocks = Append(@, Block("tool_use", fr.id, fr.x))]
          [] fr.f = "args" /\ c.phase = "open" /\ fr.pos = calls - 1 ->
                [c EXCEPT !.blocks[Len(c.blocks)].body = Append(@, fr.x)]
          [] fr.f = "finish" /\ c.phase = "open"    -> Into(c, "reason")
          [] fr.f = "usage" /\ c.phase = "reason" /\ ~c.open -> [c EXCEPT !.open = TRUE]
          [] fr.f = "[DONE]" /\ c.phase = "reason"  -> [Into(c, "over") EXCEPT !.final = c.blocks]
          [] fr.f = "error" /\ c.phase = "open"     -> Into(c, "failing")
          [] fr.f = "[DONE]" /\ c.phase = "failing" -> Into(c, "failed")
          [] OTHER -> Bad(c)

Take(dialect, c, fr) ==
    CASE dialect = "messages"  -> MessagesAccept(c, fr)
      [] dialect = "responses" -> ResponsesAccept(c, fr)
      [] dialect = "chat"      -> ChatAccept(c, fr)

Accept(dialect, c, frames) ==
    InTurn(LAMBDA acc, fr : LET s == acc IN Take(dialect, s, fr), c, frames)

\* What an answer holds, in order.
Of(blocks, kind) == SelectSeq(blocks, LAMBDA b : b.kind = kind)
Texts(blocks)    == FlattenSeq([j \in DOMAIN Of(blocks, "text") |-> Of(blocks, "text")[j].body])
Cites(blocks)    == FlattenSeq([j \in DOMAIN Of(blocks, "text") |-> Of(blocks, "text")[j].cites])
Calls(blocks)    == [j \in DOMAIN Of(blocks, "tool_use") |->
                       [id |-> Of(blocks, "tool_use")[j].id, args |-> Of(blocks, "tool_use")[j].body]]
Signed(blocks)   == SelectSeq(blocks, LAMBDA b : b.sig # <<>>)
=============================================================================
