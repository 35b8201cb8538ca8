------------------------------- MODULE Streams ------------------------------
(***************************************************************************)
(* One streamed answer: an upstream's SSE events through the transport     *)
(* (providers/transport.rs), a provider's decoder, a dialect's encoder and *)
(* the response body (http/sse.rs) to the client.                          *)
(***************************************************************************)
EXTENDS Upstreams, StreamClients

CONSTANT Burst  \* events the transport holds before the body takes one

ASSUME BurstAssumption == Burst \in Nat \ {0}

M  == INSTANCE MessageEncoder
R  == INSTANCE ResponseEncoder
C  == INSTANCE ChunkEncoder
CL == INSTANCE ClaudeDecoder
CX == INSTANCE CodexDecoder

VARIABLES dialect,   \* the route the client called
          up,        \* the upstream
          data,      \* transport: the frame collected so far
          ready,     \* transport: events, or an error, not yet taken
          terminal,  \* transport: a terminal event has been read
          finished,  \* transport: nothing more will be read
          dec, enc,  \* the decoder and the encoder
          events,    \* body: the upstream stream is still held
          client     \* what the client has assembled

vars == <<dialect, up, data, ready, terminal, finished, dec, enc, events, client>>

Failure == [t |-> "Err"]

Feed(d, e)   == IF up.who = "claude" THEN CL!Decode(d, e) ELSE CX!Decode(d, e)
Drain(d)     == IF up.who = "claude" THEN CL!Finish(d) ELSE CX!Finish(d)
One(s, ev)   == CASE dialect = "messages"  -> M!One(s, ev)
                  [] dialect = "responses" -> R!One(s, ev)
                  [] dialect = "chat"      -> C!One(s, ev)
Finish(s, x) == CASE dialect = "messages"  -> M!Finish(s, x)
                  [] dialect = "responses" -> R!Finish(s, x)
                  [] dialect = "chat"      -> C!Finish(s, x)
Start(way)   == CASE way = "messages"  -> M!Start(M!New)
                  [] way = "responses" -> R!Start(R!New)
                  [] way = "chat"      -> C!Start(C!New)
Result       == CASE dialect = "messages"  -> M!Result(enc)
                  [] dialect = "responses" -> R!Result(enc)
                  [] dialect = "chat"      -> C!Result(enc)

\* The mid-stream failure frame; only Responses has one of its own.
ErrorFrame(s) == IF dialect = "responses" THEN R!Error(s) ELSE Ok(s, <<[f |-> "error"]>>)

\* Altered: no stream has a sentinel.
SentinelForgotten == <<>>

\* Anonymous streams end with a sentinel.
Sentinel == IF dialect = "chat" THEN <<[f |-> "[DONE]"]>> ELSE <<>>

TerminalEvents ==
    IF up.who = "claude" THEN {"message_stop", "error"}
    ELSE {"completed", "incomplete", "failed", "error"}

\* The upstream has answered with a stream of events.
Opened ==
    /\ up \in {Silent("claude", TRUE), Silent("codex", TRUE), Silent("codex", FALSE)}
    /\ ready = <<>> /\ terminal = FALSE /\ finished = FALSE

\* Claude has answered a request for zero tokens with a whole message, which
\* becomes the events of a stream.
MessageEvents ==
    \E reason \in {"max_tokens", "end_turn"} :
       /\ up = [Silent("claude", TRUE) EXCEPT !.phase = "over"]
       /\ ready = <<[t |-> "message_delta", reason |-> reason], [t |-> "message_stop"]>>
       /\ terminal = TRUE /\ finished = TRUE

Init ==
    /\ dialect \in {"messages", "responses", "chat"}
    /\ Opened \/ MessageEvents
    /\ data = <<>> /\ events = TRUE
    /\ dec = IF up.who = "claude" THEN CL!New ELSE CX!New
    /\ enc = Start(dialect).s
    /\ client = Accept(dialect, Fresh, Start(dialect).out)

\* The data lines of a frame arrive from the upstream.
DataLine ==
    /\ events /\ ~finished /\ Len(ready) < Burst /\ data = <<>>
    /\ \E say \in UpstreamSays(up) : up' = say.u /\ data' = <<say.e>>
    /\ UNCHANGED <<dialect, ready, terminal, finished, dec, enc, events, client>>

\* A blank line ends the frame: its lines are one payload.
Payload ==
    /\ events /\ ~finished /\ data # <<>>
    /\ ready' = ready \o data
    /\ terminal' = (terminal \/ data[1].t \in TerminalEvents)
    /\ data' = <<>>
    /\ UNCHANGED <<dialect, up, finished, dec, enc, events, client>>

\* The connection breaks, stays silent past the read timeout, or carries
\* something that is not UTF-8 or no JSON object.
Fail ==
    /\ events /\ ~finished
    /\ ready' = Append(ready, Failure)
    /\ finished' = TRUE
    /\ UNCHANGED <<dialect, up, data, terminal, dec, enc, events, client>>

\* Altered: an upstream that closes has finished.
EndQuietly ==
    /\ events /\ ~finished
    /\ ready' = ready
    /\ finished' = TRUE
    /\ UNCHANGED <<dialect, up, data, terminal, dec, enc, events, client>>

\* The upstream closes or sends its sentinel, with or without having finished;
\* a frame no blank line ended is dropped.
End ==
    /\ events /\ ~finished
    /\ ready' = IF terminal THEN ready ELSE Append(ready, Failure)
    /\ finished' = TRUE
    /\ UNCHANGED <<dialect, up, data, terminal, dec, enc, events, client>>

\* Altered: a failure is told, and the upstream kept.
SendOn(outcome, last) ==
    /\ enc' = outcome.s
    /\ events' = ~last
    /\ client' = Accept(dialect, client, IF outcome.err THEN ErrorFrame(outcome.s).out
                                         ELSE outcome.out \o IF last THEN Sentinel ELSE <<>>)

\* What the body sends for an outcome of the encoder, the failure included.
Send(outcome, last) ==
    LET failed == ErrorFrame(outcome.s)
    IN  /\ enc' = IF outcome.err THEN failed.s ELSE outcome.s
        /\ events' = ~(outcome.err \/ last)
        /\ client' = Accept(dialect, client,
                            (IF outcome.err THEN failed.out ELSE outcome.out)
                            \o IF outcome.err \/ last THEN Sentinel ELSE <<>>)

\* The body takes one event; a decoder's or an encoder's error ends it.
Advance ==
    /\ events /\ ready # <<>>
    /\ ready' = Tail(ready)
    /\ LET e == Head(ready)
           d == IF e = Failure THEN Err(dec) ELSE Feed(dec, e)
       IN  /\ dec' = d.s
           /\ Send(IF d.err THEN Err(enc) ELSE Encode(enc, d.out, One), FALSE)
    /\ UNCHANGED <<dialect, up, data, terminal, finished>>

\* The upstream has nothing more: the decoder is drained, the answer closed.
Complete ==
    /\ events /\ ready = <<>> /\ finished
    /\ LET d == Drain(dec)
       IN  /\ dec' = d.s
           /\ Send(Finish(enc, d.out), TRUE)
    /\ UNCHANGED <<dialect, up, data, ready, terminal, finished>>

Next == DataLine \/ Payload \/ Fail \/ End \/ Advance \/ Complete

\* The body's task runs.  Of the steps of Next only Advance takes the head
\* of `ready`, and only Complete lets the upstream go once it is empty.
Takes   == events /\ ready # <<>> /\ ready' = Tail(ready)
LetsGo  == events /\ ready = <<>> /\ finished /\ events' = FALSE

\* The read timeout bounds how long an upstream may stay silent.
Fairness == WF_ready(Takes) /\ WF_events(LetsGo) /\ WF_vars(Fail \/ End)

Spec == Init /\ [][Next]_vars /\ Fairness
-----------------------------------------------------------------------------
(***************************************************************************)
(* Properties.                                                             *)
(***************************************************************************)
\* The upstream, the queue and the client's view keep their shape.
TypeOK ==
    /\ dialect \in {"messages", "responses", "chat"}
    /\ Len(data) <= 1 /\ Len(ready) <= Burst + 1
    /\ {terminal, finished, events} \subseteq BOOLEAN
    /\ client.phase \in {"open", "over", "failed", "bad"}
    /\ up.phase \in {"open", "reason", "over", "failed"}

\* Whatever the upstream streams, the client never sees a frame its dialect
\* forbids: one open block under rising indices (messages_egress.rs:3-6), a
\* search's use only with its result (:145-148), consecutive sequence numbers
\* and items done once with what was streamed, calls counted from 0, nothing
\* after the end.
ClientOrder == client.phase # "bad"

\* A client that streams assembles the answer a client that does not stream is
\* given: the encoder keeps one and sends the other.
SameAnswer == client.phase = "over" => client.blocks = Result /\ client.final = Result

\* An answer that looks complete is: the upstream said it had finished, not
\* merely closed (docs/behaviour.md: a stream that ends before its terminal
\* event fails instead of looking complete).
NoFalseEnd == client.phase = "over" => up.phase = "over"

\* A finished answer holds everything the upstream said, once and in its
\* order, whatever way its pieces came: texts, calls with their arguments,
\* and the citations (Responses has no message to put a citation on before
\* its first text).
Kept(cites) ==
    LET Told(c) == c.url \/ dialect = "messages"
    IN  [j \in DOMAIN SelectSeq(cites, Told) |-> SelectSeq(cites, Told)[j].x]

Whole ==
    /\ Texts(client.blocks) = up.texts
    /\ Calls(client.blocks) = up.calls
    /\ (dialect # "responses" \/ up.who = "codex") => Cites(client.blocks) = Kept(up.cites)

NothingLost == client.phase = "over" => Whole

\* The client holds each signed or encrypted block whole, in order, under the
\* text its signature covers; Responses envelopes count them from 0, for the
\* next request to tell a dropped block.
SignedShown ==
    LET held == Signed(client.blocks)
        Names(b) == [of |-> b.sig[1].of, over |-> b.sig[1].over]
        Said(g)  == [of |-> g.of, over |-> g.over]
    IN  dialect # "chat" =>
          /\ \A j \in DOMAIN held :
                /\ j \in DOMAIN up.signed /\ Names(held[j]) = Said(up.signed[j])
                /\ held[j].kind \in {"thinking", "reasoning"} => held[j].body = held[j].sig[1].over
                /\ (dialect = "responses" /\ up.who = "claude") => held[j].sig[1].ord = j - 1
          /\ client.phase = "over" => Len(held) = Len(up.signed)

\* Every stream ends: with its last frame or with an error frame.
StreamEnds == <>(client.phase \in {"over", "failed"} /\ ~events)
=============================================================================
