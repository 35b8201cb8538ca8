------------------------------ MODULE UsageBars ------------------------------
(***************************************************************************)
(* providers/limits.rs: the usage bars of one slot.  They are read by a    *)
(* task of its own, at most one at a time, when a read is due; `clear`     *)
(* forgets them when the slot's login changes.                             *)
(*                                                                         *)
(* Bars are told apart by the grant whose usage they show.  The generation *)
(* is only compared with the one a reading began in, so a flag stands for  *)
(* both: whether `clear` has run since.  Of next_read the model keeps      *)
(* whether it has come; the 30 and 300 seconds are left out.               *)
(***************************************************************************)
CONSTANTS
  Grants,  \* logins the slot has had or will have
  NoGrant  \* no login

VARIABLES
  bars,  \* State: whose bars they are, whether a read is due and under way
  stale  \* generation # state.generation, of the read under way

barsVars == <<bars, stale>>

Bars == [of : Grants \cup {NoGrant}, due : BOOLEAN, reading : BOOLEAN]

Shown(of, due, reading) == [of |-> of, due |-> due, reading |-> reading]

BarsTypeOK == bars \in Bars /\ stale \in BOOLEAN

\* LimitsStore::new: no bars, nothing read yet.
FreshBars == Shown(NoGrant, TRUE, FALSE)

BarsInit == bars = FreshBars /\ stale = FALSE

\* `current`, when a read is due: it is spawned, in this generation.  Otherwise
\* it returns what is there.
BeginReading ==
  /\ bars.due /\ ~bars.reading
  /\ bars' = Shown(bars.of, bars.due, TRUE)
  /\ stale' = FALSE

\* `refresh` has read the bars of a grant, or kept the last ones after an
\* error; after a `clear` it only ends.
Land(of) ==
  /\ bars' = IF stale THEN Shown(bars.of, bars.due, FALSE)
                      ELSE Shown(of, FALSE, FALSE)
  /\ stale' = FALSE

\* next_read has come.
ReadFallsDue ==
  /\ ~bars.due
  /\ bars' = Shown(bars.of, TRUE, bars.reading)
  /\ UNCHANGED stale

\* Altered: the generation stays.
ClearBarsOnly ==
  /\ bars' = Shown(NoGrant, TRUE, bars.reading)
  /\ UNCHANGED stale

\* `clear`: the bars go, a read is due, and the one under way belongs to an
\* earlier generation.
ClearBars ==
  /\ bars' = Shown(NoGrant, TRUE, bars.reading)
  /\ stale' = (stale \/ bars.reading)
=============================================================================
