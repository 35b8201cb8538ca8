------------------------------- MODULE Replay -------------------------------
(***************************************************************************)
(* A conversation over several requests: the upstream signs reasoning, the *)
(* decoder and the encoder hand it to the client in its dialect's form,    *)
(* the client sends the conversation back, with faults, and the next       *)
(* request is rendered from it and from the reasoning cache, which other   *)
(* conversations share and a restart empties.                              *)
(***************************************************************************)
EXTENDS Requests, FiniteSets

CONSTANTS MaxAnswers, MaxFaults,
          Others,          \* calls of other conversations, negative
          Shapes(_)        \* the answers of an upstream, as sequences of block kinds

M  == INSTANCE MessageEncoder
R  == INSTANCE ResponseEncoder
C  == INSTANCE ChunkEncoder
CL == INSTANCE ClaudeDecoder
CX == INSTANCE CodexDecoder

VARIABLES dialect,  \* the route the client calls
          who,      \* the upstream that serves its model
          history,  \* the client's conversation
          cache,    \* the upstream's reasoning cache
          sent,     \* the last request, rendered
          phase,    \* whose turn it is
          faults,   \* how often the client altered its history
          said,     \* what the upstream said, for the properties
          knew      \* the answers the cache knew when `sent` was rendered

vars == <<dialect, who, history, cache, sent, phase, faults, said, knew>>

(***************************************************************************)
(* The upstream's answers, as event streams (block j of them is i).        *)
(***************************************************************************)
\* The text a signature is over; of a redacted block, its data.
Sig(i, over) == [of |-> i, over |-> over, ord |-> 0]

ClaudeBlock(kind, i) ==
    LET Start(k)    == [t |-> "start", kind |-> k, i |-> i, id |-> i, data |-> Sig(i, <<i>>),
                        phase |-> IF kind = "failed" THEN "failed" ELSE "completed"]
        Delta(d, x) == [t |-> "delta", d |-> d, x |-> x]
        stop        == <<[t |-> "stop", i |-> i]>>
    IN  CASE kind = "think"    -> <<Start("thinking"), Delta("thinking", i), Delta("signature", Sig(i, <<i>>))>> \o stop
          [] kind = "silent"   -> <<Start("thinking"), Delta("signature", Sig(i, <<>>))>> \o stop
          [] kind = "redacted" -> <<Start("redacted")>> \o stop
          [] kind = "text"     -> <<Start("text"), Delta("text", i)>> \o stop
          [] kind = "call"     -> <<Start("tool_use"), Delta("json", "whole")>> \o stop
          [] kind = "cut"      -> <<Start("tool_use"), Delta("json", "half")>> \o stop
          [] kind = "open"     -> <<Start("search")>> \o stop
          [] kind \in {"search", "failed"} -> <<Start("search")>> \o stop \o <<Start("result")>> \o stop

CodexBlock(kind, i) ==
    LET Item(k, body, st) == [Block(k, i, body) EXCEPT !.st = st]
        Done(item)        == <<[t |-> "done", item |-> item]>>
        signed(over)      == [Item("reasoning", over, "completed") EXCEPT !.sig = <<Sig(i, over)>>]
    IN  CASE kind = "think"  -> <<[t |-> "thinking", x |-> i, id |-> i]>> \o Done(signed(<<i>>))
          [] kind = "silent" -> Done(signed(<<>>))
          [] kind = "text"   -> <<[t |-> "text", x |-> i]>> \o Done(Item("text", <<i>>, "completed"))
          [] kind = "call"   -> Done(Item("tool_use", <<"whole">>, "completed"))
          [] kind = "cut"    -> Done(Item("tool_use", <<"half">>, "completed"))
          [] kind = "search" -> <<[t |-> "added", item |-> Item("search", <<>>, "in_progress")]>>
                                \o Done(Item("search", <<>>, "completed"))
          [] kind = "failed" -> Done(Item("search", <<>>, "failed"))

Number(j) == 10 * (Len(said) + 1) + j

Events(shape) ==
    FlattenSeq([j \in DOMAIN shape |-> IF who = "claude" THEN ClaudeBlock(shape[j], Number(j))
                                       ELSE CodexBlock(shape[j], Number(j))])
    \o (IF who = "codex" THEN <<[t |-> "completed", output |-> <<>>]>>
        ELSE <<[t |-> "message_delta", reason |->
                  IF Contains(shape, "cut") THEN "max_tokens"
                  ELSE IF Contains(shape, "call") THEN "tool_use" ELSE "end_turn"]>>)

(***************************************************************************)
(* The proxy's way from events to the client's blocks.                     *)
(***************************************************************************)
Feed(d, e)   == IF who = "claude" THEN CL!Decode(d, e) ELSE CX!Decode(d, e)
Drain(d)     == IF who = "claude" THEN CL!Finish(d) ELSE CX!Finish(d)
One(s, ev)   == CASE dialect = "messages"  -> M!One(s, ev)
                  [] dialect = "responses" -> R!One(s, ev)
                  [] dialect = "chat"      -> C!One(s, ev)
Finish(s, x) == CASE dialect = "messages"  -> M!Finish(s, x)
                  [] dialect = "responses" -> R!Finish(s, x)
                  [] dialect = "chat"      -> C!Finish(s, x)
Encoder      == CASE dialect = "messages"  -> M!New
                  [] dialect = "responses" -> R!New
                  [] dialect = "chat"      -> C!New
Result(s)    == CASE dialect = "messages"  -> M!Result(s)
                  [] dialect = "responses" -> R!Result(s)
                  [] dialect = "chat"      -> C!Result(s)

\* All of an answer's events, through the decoder and the encoder.
Streamed(shape) ==
    LET Step(r, e) ==
            LET d == Feed(r.dec, e)
                x == Encode(r.enc, d.out, One)
            IN  IF r.err \/ d.err THEN [r EXCEPT !.err = TRUE]
                ELSE [dec |-> d.s, enc |-> x.s, err |-> x.err]
    IN  FoldLeft(LAMBDA r, e : LET q == r IN Step(q, e),
                 [dec |-> IF who = "claude" THEN CL!New ELSE CX!New, enc |-> Encoder, err |-> FALSE],
                 Events(shape))

\* The decoder is drained: what it signed is cached under all its calls.
Remember(dec) == Put(cache, dec.calls, IF who = "claude" THEN dec.signed ELSE dec.items)

Request(conversation) ==
    LET turns == CASE dialect = "messages"  -> MessagesTurns(conversation)
                   [] dialect = "responses" -> ResponsesTurns(conversation)
                   [] dialect = "chat"      -> ChatTurns(conversation)
    IN  IF who = "claude" THEN ClaudeRequest(turns, cache) ELSE CodexRequest(turns, cache)

Nothing == [ok |-> TRUE, turns |-> <<>>]

Init ==
    /\ dialect \in {"messages", "responses", "chat"}
    /\ who \in {"claude", "codex"}
    /\ history = <<>> /\ cache = <<>> /\ said = <<>>
    /\ sent = Nothing /\ phase = "client" /\ faults = 0 /\ knew = {}

\* What the client says next: its calls' results and a text, or nothing, to
\* have the upstream go on.
NextUser ==
    LET calls == IF history = <<>> THEN <<>> ELSE OfKind(Last(history).blocks, "tool_use")
    IN  <<[role |-> "user",
           blocks |-> [j \in DOMAIN calls |-> Block("tool_result", calls[j].id, <<>>)]
                      \o <<Block("text", 0, <<Len(history)>>)>>]>>

Ask ==
    /\ phase = "client" /\ Len(said) < MaxAnswers + 1
    /\ \E more \in {NextUser} \cup (IF history = <<>> THEN {} ELSE {<<>>}) :
       \E r \in {Request(history \o more)} :
          /\ history' = history \o more
          /\ sent' = [ok |-> r.ok, turns |-> r.turns]
          /\ cache' = r.cache
          /\ phase' = IF r.ok THEN "upstream" ELSE "refused"
    /\ knew' = {a \in DOMAIN said : ToSet(said[a].calls) \cap Ids(cache) # {}}
    /\ UNCHANGED <<dialect, who, faults, said>>

\* The upstream answers; the client has it all, or hangs up (or loses its
\* connection) after the last block, before the answer is closed.  An answer
\* that fails on the way is not kept.
Answer ==
    /\ phase = "upstream" /\ Len(said) < MaxAnswers
    /\ \E shape \in Shapes(who) : \E r \in {Streamed(shape)} : \E d \in {Drain(r.dec)} :
       \E end \in {Finish(r.enc, d.out)}, closed \in BOOLEAN :
          LET mine  == Result(IF closed THEN end.s ELSE r.enc)
              calls == OfKind(mine, "tool_use")
          IN  /\ ~r.err /\ ~end.err /\ mine # <<>>
              /\ history' = Append(history, [role |-> "assistant", blocks |-> mine])
              /\ said' = Append(said, [shape |-> shape, at |-> Len(history) + 1,
                                       calls |-> [j \in DOMAIN calls |-> calls[j].id]])
              /\ cache' = IF closed THEN Remember(r.dec) ELSE cache
    /\ phase' = "client"
    /\ UNCHANGED <<dialect, who, sent, faults, knew>>

(***************************************************************************)
(* Faults and other traffic.                                               *)
(***************************************************************************)
\* A client that carries reasoning drops or exchanges blocks of it; an
\* Anthropic one may leave a turn's thinking out, a Responses one damages
\* items, shortens their summaries, has them from another program, or from an
\* earlier build that wrapped a block without its text.
Altered(blocks) ==
    LET at == {j \in DOMAIN blocks : blocks[j].sig # <<>>}
        thinner == {RemoveAt(blocks, j) : j \in at}
        swapped == {[blocks EXCEPT ![j] = blocks[k], ![k] = blocks[j]] : j, k \in at}
        All(Change(_)) == [j \in DOMAIN blocks |-> IF j \in at THEN Change(blocks[j]) ELSE blocks[j]]
    IN  CASE dialect = "messages"  -> thinner \cup swapped \cup {SelectSeq(blocks, LAMBDA b : b.sig = <<>>)}
          [] dialect = "chat"      -> {}
          [] dialect = "responses" ->
                thinner \cup swapped
                \cup {[blocks EXCEPT ![j].sig[1].ord = -1] : j \in at}
                \cup {[blocks EXCEPT ![j].sig[1].over = <<>>] : j \in at}
                \cup {All(LAMBDA b : [b EXCEPT !.body = <<>>]), All(LAMBDA b : [b EXCEPT !.sig = <<>>])}

Alter ==
    /\ phase = "client" /\ faults < MaxFaults
    /\ \E m \in {said[a].at : a \in DOMAIN said} : \E blocks \in Altered(history[m].blocks) \ {history[m].blocks} :
          history' = [history EXCEPT ![m].blocks = blocks]
    /\ faults' = faults + 1
    /\ UNCHANGED <<dialect, who, cache, sent, phase, said, knew>>

Other ==
    /\ phase = "client"
    /\ \E id \in Others : cache' = Put(cache, <<id>>, <<[text |-> <<>>, sig |-> <<>>]>>)
    /\ UNCHANGED <<dialect, who, history, sent, phase, faults, said, knew>>

Restart ==
    /\ phase = "client"
    /\ cache' = <<>>
    /\ UNCHANGED <<dialect, who, history, sent, phase, faults, said, knew>>

Next == Ask \/ Answer \/ Alter \/ Other \/ Restart

Spec == Init /\ [][Next]_vars
-----------------------------------------------------------------------------
(***************************************************************************)
(* Properties.                                                             *)
(***************************************************************************)
\* The conversation and the cache keep their shape; the cache its limit.
TypeOK ==
    /\ phase \in {"client", "upstream", "refused"}
    /\ \A j \in DOMAIN history : history[j].role \in {"user", "assistant"} /\ IsFiniteSet(ToSet(history[j].blocks))
    /\ Len(cache) <= Limit /\ Cardinality(Ids(cache)) = Len(cache)
    /\ faults \in 0..MaxFaults /\ knew \subseteq DOMAIN said

\* The signed blocks of an answer, and those of them in the last request.
SignedKinds   == IF who = "claude" THEN {"think", "redacted"} ELSE {"think", "silent"}
Signed(a)     == LET js == SetToSortSeq({j \in DOMAIN said[a].shape : said[a].shape[j] \in SignedKinds}, <)
                 IN  [k \in DOMAIN js |-> 10 * a + js[k]]
AllSent       == FlattenSeq([j \in DOMAIN sent.turns |-> sent.turns[j].blocks])
SentOf(a)     == LET mine == SelectSeq(OfKind(AllSent, "signed"), LAMBDA b : b.sig # <<>> /\ b.sig[1].of \div 10 = a)
                 IN  [k \in DOMAIN mine |-> mine[k].sig[1].of]

\* Answers the client put side by side: Responses reads them as one turn.
Merged(a) == dialect = "responses" /\ \E b \in DOMAIN said : said[b].at \in {said[a].at - 1, said[a].at + 1}

\* The signed blocks of an answer that the client still holds, as it holds them.
Held(a) == LET mine == SelectSeq(history[said[a].at].blocks,
                                 LAMBDA b : b.sig # <<>> /\ Contains(Signed(a), b.sig[1].of))
           IN  [k \in DOMAIN mine |-> mine[k].sig[1].of]

\* Claude is sent an answer's signed blocks whole and in order or not at all,
\* whatever a Responses client did to its reasoning items and whatever a Chat
\* client's answers left in the cache.  Two exceptions: native thinking that
\* a Messages client dropped or exchanged is passed on just as the client
\* holds it, nothing of the cache added (request.rs:390-395); and a block
\* dropped from the end goes unseen when the cache no longer knows the answer
\* (thinking.rs:12-16).
WholeOrNone ==
    phase = "upstream" /\ who = "claude" => \A a \in DOMAIN said : ~Merged(a) =>
        \/ SentOf(a) \in {<<>>, Signed(a)}
        \/ dialect = "messages" /\ SentOf(a) = Held(a)
        \/ dialect = "responses" /\ a \notin knew /\ IsPrefix(SentOf(a), Signed(a))

\* No signature over a text that never arrived goes to Claude, however the block
\* came back: natively, in an envelope of a build that still wrapped such
\* blocks (request.rs:216-222), or from the cache.
TextArrived ==
    phase = "upstream" /\ who = "claude" =>
        \A b \in ToSet(OfKind(AllSent, "signed")) : b.sig # <<>> => b.sig[1].over # <<>>

\* A conversation sent back as it was handed out is taken, with each answer's
\* reasoning whole and in order, after any restart, eviction or hang-up
\* ("signed reasoning round-trips statelessly", docs/behaviour.md:48); a Chat
\* client's for as long as the cache knows the answer.
RoundTrip ==
    /\ phase # "client" /\ faults = 0
    /\ \A a \in DOMAIN said : ~Merged(a) /\ ~Contains(said[a].shape, "cut")
    => /\ phase = "upstream"
       /\ \A a \in DOMAIN said :
             SentOf(a) = IF dialect # "chat" \/ a \in knew THEN Signed(a) ELSE <<>>

\* Claude is told of a search that did not complete beside a call, once, with
\* that call's result, in every later request, and of no other search.
SearchTold ==
    LET Undone(a)  == Contains(said[a].shape, "open") \/ Contains(said[a].shape, "failed")
        Notes(t)   == Len(OfKind(t.blocks, "dropped_search"))
        Results(t) == {b.id : b \in ToSet(OfKind(t.blocks, "ToolResult"))}
    IN  phase = "upstream" /\ who = "claude" /\ dialect = "responses" /\ ~(\E a \in DOMAIN said : Merged(a)) =>
            \A j \in DOMAIN sent.turns :
                Notes(sent.turns[j]) = IF \E a \in DOMAIN said : Undone(a) /\ Results(sent.turns[j]) \cap ToSet(said[a].calls) # {}
                                       THEN 1 ELSE 0
=============================================================================
