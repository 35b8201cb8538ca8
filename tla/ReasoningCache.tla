--------------------------- MODULE ReasoningCache ---------------------------
(***************************************************************************)
(* reasoning.rs: signed reasoning kept by tool-call id for clients that    *)
(* cannot carry it, at most Limit ids, the least recently used out first.  *)
(* A cache is a sequence of [id, items], the most recently used last.      *)
(***************************************************************************)
EXTENDS Integers, Sequences, SequencesExt

CONSTANT Limit
ASSUME LimitAssumption == Limit \in Nat \ {0}

Ids(cache) == {cache[j].id : j \in DOMAIN cache}
Without(cache, id) == SelectSeq(cache, LAMBDA entry : entry.id # id)
Used(cache, id, items) == Append(Without(cache, id), [id |-> id, items |-> items])

\* The items kept for the first of `calls` the cache knows, and the cache
\* after that use.
Get(cache, calls) ==
    LET known == SelectSeq(calls, LAMBDA id : id \in Ids(cache))
        found == cache[CHOOSE j \in DOMAIN cache : cache[j].id = known[1]].items
    IN  IF known = <<>> THEN [items |-> <<>>, cache |-> cache]
        ELSE [items |-> found, cache |-> Used(cache, known[1], found)]

\* Altered: the oldest are dropped before the new ones come in.
PutAfter(cache, calls, items) ==
    LET over == Len(cache) - Limit
        kept == IF over > 0 THEN SubSeq(cache, over + 1, Len(cache)) ELSE cache
    IN  IF items = <<>> THEN cache
        ELSE FoldLeft(LAMBDA c, id : Used(c, id, items), kept, calls)

Put(cache, calls, items) ==
    LET full == FoldLeft(LAMBDA c, id : Used(c, id, items), cache, calls)
        over == Len(full) - Limit
    IN  IF items = <<>> THEN cache
        ELSE IF over > 0 THEN SubSeq(full, over + 1, Len(full)) ELSE full
=============================================================================
