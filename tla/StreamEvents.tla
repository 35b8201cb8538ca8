---------------------------- MODULE StreamEvents ----------------------------
(***************************************************************************)
(* What decoders and encoders share: a step that returns a new state, what *)
(* it emits and whether it failed (Rust's Result and `?`), the driving of  *)
(* an encoder over a decoder's events, the order of a hosted search's      *)
(* phases, and the content block, the unit of every response.              *)
(*                                                                         *)
(* Content is abstract: a text, an argument fragment or a citation is a    *)
(* token of the upstream event that carried it.  A signature names the     *)
(* upstream block it is `of` and the text it was computed `over`.  An      *)
(* Option is a sequence of at most one element.                            *)
(***************************************************************************)
EXTENDS Integers, Sequences, Functions

\* Step over a sequence, its first element first.  (SequencesExt!FoldLeft
\* says the same, but five modules are instanced over this one, and each
\* would bring all of SequencesExt into every proof about a stream.)
InTurn(Step(_, _), start, seq) ==
    MapThenFoldSet(LAMBDA x, acc : Step(acc, x), start, LAMBDA i : seq[i],
                   LAMBDA left : CHOOSE last \in left : \A i \in left : last >= i, DOMAIN seq)

Ok(s, out) == [s |-> s, out |-> out, err |-> FALSE]
Err(s)     == [s |-> s, out |-> <<>>, err |-> TRUE]

\* `step(r?)`: an error ends the chain, and what was collected is dropped.
Joined(r, w) ==
    IF r.err THEN r
    ELSE [s |-> w.s, out |-> IF w.err THEN <<>> ELSE r.out \o w.out, err |-> w.err]

Then(r, Step(_)) == LET q == r IN Joined(q, Step(q.s))

\* base.rs `encode`: every event through `one`, frames in order.
Encode(enc, events, One(_, _)) ==
    InTurn(LAMBDA r, ev : Then(r, LAMBDA s : One(s, ev)), Ok(enc, <<>>), events)

\* A map with one more entry.
With(map, key, value) ==
    [x \in DOMAIN map \cup {key} |-> IF x = key THEN value ELSE map[x]]

\* ir.rs `hosted_tool_step`: only a later phase counts.
PhaseRank(phase) ==
    CASE phase = "started"   -> 0
      [] phase = "searching" -> 1
      [] OTHER               -> 2

Advances(seen, id, phase) ==
    id \in DOMAIN seen => PhaseRank(phase) > PhaseRank(seen[id])

\* One content block or output item: `body` is its text, arguments or input,
\* `sig` its signature or encrypted content, `st` its status.
Block(kind, id, body) ==
    [kind |-> kind, id |-> id, body |-> body, sig |-> <<>>, cites |-> <<>>,
     st |-> "in_progress"]

\* Tool arguments the upstream may stream; the last one is cut short.
JsonTexts == {<<>>, <<"{}">>, <<"whole">>, <<"half", "rest">>}
Parses(body) == body \in JsonTexts
=============================================================================
