---------------------------- MODULE AccountPool ----------------------------
(***************************************************************************)
(* providers/pool.rs: AccountPool, the accounts of one provider, the rests *)
(* and errors observed on them, the session table, and the failover loop   *)
(* every upstream request runs.  One mutex guards the pool's State, so     *)
(* each locked section is one step; everything between two awaits of       *)
(* `stream` interleaves with the other requests and with the dashboard.    *)
(*                                                                         *)
(* Time is wall_clock() in abstract units.  The clock is taken to be       *)
(* monotone and fine enough to tell two locked sections apart, so "oldest  *)
(* first" in the session table is "least recently served".                 *)
(***************************************************************************)
EXTENDS Integers, FiniteSets, SequencesExt

CONSTANTS
  Accounts,            \* slot ids
  Requests,            \* request tasks in flight at once
  Sessions,            \* client session keys
  NoSession,           \* the request names no session
  Keys,                \* bound: the sessions, or none, that requests name
  NoAccount,           \* "no account", where an id is expected
  Unsaid,              \* the 429 names no rest
  Asked,               \* rests an upstream may name, in seconds
  Affinity,            \* [Sessions -> [Accounts -> Nat]]: sha256(session, id)
  Provider,            \* "claude" or "codex": whose logins these are
  RateLimitCooldown,   \* RATE_LIMIT_COOLDOWN_SECONDS
  MaxCooldown,         \* MAX_COOLDOWN_SECONDS
  AuthFailureCooldown, \* AUTH_FAILURE_COOLDOWN_SECONDS
  SessionTtl,          \* SESSION_TTL_SECONDS
  SessionLimit,        \* SESSION_LIMIT
  CursorWrap,          \* bound: the round-robin cursor is kept modulo this
  MaxTime              \* bound: the clock stops here

ASSUME SecondsAssumption ==
  /\ RateLimitCooldown \in Nat \ {0}
  /\ MaxCooldown \in Nat \ {0}
  /\ AuthFailureCooldown \in 1..MaxCooldown
  /\ SessionTtl \in Nat
  /\ Asked \subseteq Nat
  /\ Unsaid \notin Nat

ASSUME PoolAssumption ==
  /\ SessionLimit \in Nat \ {0}
  /\ CursorWrap \in Nat \ {0}
  /\ MaxTime \in Nat
  /\ Provider \in {"claude", "codex"}
  /\ NoSession \notin Sessions
  /\ Keys \subseteq Sessions \cup {NoSession}
  /\ NoAccount \notin Accounts
  /\ Affinity \in [Sessions -> [Accounts -> Nat]]

ASSUME FiniteAssumption == IsFiniteSet(Sessions) /\ IsFiniteSet(Accounts)

VARIABLES
  now,           \* wall_clock()
  signedIn,      \* auth.signed_in() of each slot, set by the login flows
  finishing,     \* slots between auth.finish and clear_account_error
  removing,      \* the slot `remove` has found signed out, under accounts_lock
  accounts,      \* State.accounts
  cursor,        \* State.cursor
  cooldown,      \* State.cooldown: a deadline, 0 for no entry
  accountErrors, \* State.account_errors: the ids with an entry
  sessions,      \* State.sessions: an unpinned session has account NoAccount
  req            \* the locals of each running call of `stream`

poolVars == <<accounts, cursor, cooldown, accountErrors, sessions>>
loginVars == <<signedIn, finishing, removing>>
vars == <<now, loginVars, poolVars, req>>

Times == Nat

Pin == [account : Accounts \cup {NoAccount}, served : Times]
Unpinned == [account |-> NoAccount, served |-> 0]

\* Where a call of `stream` is: idle, asking each account for its login
\* ("checking"), awaiting an account's first event ("trying"), or ended.
Pcs == {"idle", "checking", "trying", "served", "refused", "exhausted"}

Request ==
  [ pc         : Pcs,
    session    : Sessions \cup {NoSession},
    unchecked  : Seq(Accounts),              \* slots still to ask for a login
    available  : Seq(Accounts),              \* signed-in slots, in slot order
    kept       : Accounts \cup {NoAccount},  \* the account the session is on
    candidates : Seq(Accounts),              \* the order they are tried in
    at         : Nat ]                       \* index of the one being tried

Idle ==
  [ pc |-> "idle", session |-> NoSession, unchecked |-> <<>>, available |-> <<>>,
    kept |-> NoAccount, candidates |-> <<>>, at |-> 0 ]

TypeOK ==
  /\ now \in Times
  /\ signedIn \in [Accounts -> BOOLEAN]
  /\ finishing \subseteq Accounts
  /\ removing \in Accounts \cup {NoAccount}
  /\ accounts \in Seq(Accounts)
  /\ cursor \in 0..(CursorWrap - 1)
  /\ cooldown \in [Accounts -> Times]
  /\ accountErrors \subseteq Accounts
  /\ sessions \in [Sessions -> Pin]
  /\ req \in [Requests -> Request]

\* Pooled::new: every stored slot becomes an account; the pool starts blank.
Init ==
  /\ now = 0
  /\ signedIn \in [Accounts -> BOOLEAN]
  /\ finishing = {}
  /\ removing = NoAccount
  /\ accounts \in SetToAllKPermutations(Accounts)
  /\ \A a \in Accounts : signedIn[a] => a \in ToSet(accounts)
  /\ cursor = 0
  /\ cooldown = [a \in Accounts |-> 0]
  /\ accountErrors = {}
  /\ sessions = [s \in Sessions |-> Unpinned]
  /\ req = [r \in Requests |-> Idle]

-----------------------------------------------------------------------------
(* Selection: AccountPool::candidates.                                     *)

Lesser(a, b) == IF a <= b THEN a ELSE b

Ready(a) == cooldown[a] <= now

\* The signed-in accounts that are not resting, or all of them when all rest.
Eligible(available) ==
  LET all == ToSet(available)
      ready == {a \in all : Ready(a)}
  IN  IF ready = {} THEN all ELSE ready

\* The account the session was last served by, if that is recent enough.
Kept(session) ==
  IF session = NoSession THEN NoAccount
  ELSE IF now - sessions[session].served < SessionTtl
       THEN sessions[session].account
       ELSE NoAccount

\* An account's index among the choices, in slot order.
Place(a, choices, available) ==
  LET slot(x) == CHOOSE i \in DOMAIN available : available[i] = x
  IN  Cardinality({b \in choices : slot(b) < slot(a)})

\* Round robin: the account at `start` first, then the others in slot order.
Rotated(place, start, count) == (place + count - start) % count

\* A session's accounts by descending affinity, the others by rotation.
Order(a, session, choices, available) ==
  IF session = NoSession
  THEN LET count == Cardinality(choices)
       IN  Rotated(Place(a, choices, available), cursor % count, count)
  ELSE 0 - Affinity[session][a]

\* Altered: room counts for more than the session's account.
BeforeRoomFirst(a, b, kept, full, order, place) ==
  \/ a \notin full /\ b \in full
  \/ /\ (a \in full) <=> (b \in full)
     /\ \/ a = kept /\ b # kept
        \/ /\ (a = kept) <=> (b = kept)
           /\ \/ order[a] < order[b]
              \/ order[a] = order[b] /\ place[a] < place[b]

\* The sort key: the kept account, then accounts with room, then the order;
\* the sort is stable, so slot order settles what is left.
Before(a, b, kept, full, order, place) ==
  \/ a = kept /\ b # kept
  \/ /\ (a = kept) <=> (b = kept)
     /\ \/ a \notin full /\ b \in full
        \/ /\ (a \in full) <=> (b \in full)
           /\ \/ order[a] < order[b]
              \/ order[a] = order[b] /\ place[a] < place[b]

\* Altered: the kept account is put first and left where it was, too.
OrderingKeptTwice(session, available, kept, full, choices) ==
  LET place == [a \in choices |-> Place(a, choices, available)]
      before(a, b) == Before(a, b, NoAccount, full, place, place)
      sorted == {c \in SetToSeqs(choices) : IsSorted(c, before)}
  IN  IF kept \in choices THEN {<<kept>> \o c : c \in sorted} ELSE sorted

\* The order the choices are tried in.
Ordering(session, available, kept, full, choices) ==
  LET order == [a \in choices |-> Order(a, session, choices, available)]
      place == [a \in choices |-> Place(a, choices, available)]
      before(a, b) == Before(a, b, kept, full, order, place)
  IN  {c \in SetToSeqs(choices) : IsSorted(c, before)}

-----------------------------------------------------------------------------
(* What an attempt's outcome does to the pool.                             *)

\* Altered: the rest goes and the error stays.
ClearRestOnly(a) ==
  /\ cooldown' = [cooldown EXCEPT ![a] = 0]
  /\ UNCHANGED accountErrors

\* clear_account_error: the account works, so its error and its rest go.
ClearAccountError(a) ==
  /\ accountErrors' = accountErrors \ {a}
  /\ cooldown' = [cooldown EXCEPT ![a] = 0]

\* mark_account_error: unusable credentials.
MarkAccountError(a) ==
  /\ accountErrors' = accountErrors \cup {a}
  /\ cooldown' = [cooldown EXCEPT ![a] = now + AuthFailureCooldown]

\* Altered: what the upstream names is not bounded.
RestUnbounded(asked) == IF asked = Unsaid THEN RateLimitCooldown ELSE asked

\* Altered: the last second is not counted.
RestOffByOne(asked) ==
  Lesser(IF asked = Unsaid THEN RateLimitCooldown ELSE asked, MaxCooldown) - 1

\* How long a 429 rests its account.  Zero says it was about the request.
Rest(asked) ==
  Lesser(IF asked = Unsaid THEN RateLimitCooldown ELSE asked, MaxCooldown)

\* mark_rate_limited
MarkRateLimited(a, asked) ==
  /\ cooldown' = IF Rest(asked) = 0 THEN cooldown
                 ELSE [cooldown EXCEPT ![a] = now + Rest(asked)]
  /\ UNCHANGED accountErrors

\* Sessions with an entry in the table.
PinnedIn(table) == {s \in Sessions : table[s].account # NoAccount}

\* Altered: one entry too many is kept.
EvictedOneLate(table) ==
  IF Cardinality(PinnedIn(table)) <= SessionLimit + 1 THEN {table}
  ELSE {[table EXCEPT ![s] = Unpinned] : s \in PinnedIn(table)}

\* A table that is over its limit loses its oldest entry.
Evicted(table) ==
  IF Cardinality(PinnedIn(table)) <= SessionLimit THEN {table}
  ELSE {[table EXCEPT ![s] = Unpinned] :
          s \in {t \in PinnedIn(table) :
                   \A u \in PinnedIn(table) : table[t].served <= table[u].served}}

\* remember: the session is now on this account.
Remember(session, a) ==
  IF session = NoSession THEN UNCHANGED sessions
  ELSE sessions' \in Evicted([sessions EXCEPT ![session] =
                                [account |-> a, served |-> now]])

-----------------------------------------------------------------------------
(* One request: AccountPool::stream.  `call` is the same loop without      *)
(* ServeEmpty.                                                             *)

\* candidates() copies the account vector.
Begin(r, session) ==
  /\ req[r].pc = "idle"
  /\ req' = [req EXCEPT ![r] = [Idle EXCEPT !.pc = "checking",
                                            !.session = session,
                                            !.unchecked = accounts]]
  /\ UNCHANGED <<now, loginVars, poolVars>>

\* It then awaits each account's signed_in() in turn.
Check(r) ==
  /\ req[r].pc = "checking"
  /\ req[r].unchecked # <<>>
  /\ LET a == Head(req[r].unchecked) IN
     req' = [req EXCEPT ![r].unchecked = Tail(@),
                        ![r].available = IF signedIn[a] THEN Append(@, a) ELSE @]
  /\ UNCHANGED <<now, loginVars, poolVars>>

\* Altered: gives up on the first account that is signed out.
NoneSignedInYet(r) ==
  /\ req[r].pc = "checking"
  /\ req[r].available = <<>>
  /\ req' = [req EXCEPT ![r].pc = "exhausted"]
  /\ UNCHANGED <<now, loginVars, poolVars>>

\* Nobody is signed in: the request is answered with failover.no_account.
NoneSignedIn(r) ==
  /\ req[r].pc = "checking"
  /\ req[r].unchecked = <<>>
  /\ req[r].available = <<>>
  /\ req' = [req EXCEPT ![r].pc = "exhausted"]
  /\ UNCHANGED <<now, loginVars, poolVars>>

\* The locked half of candidates().  `full` is what the usage bars say: they
\* are read only for a request that starts a conversation and has a choice.
\* The first candidate is then asked.
Choose(r, full) ==
  LET available == req[r].available
      session == req[r].session
      choices == Eligible(available)
      kept == Kept(session)
  IN  /\ req[r].pc = "checking"
      /\ req[r].unchecked = <<>>
      /\ available # <<>>
      /\ full \subseteq ToSet(available)
      /\ full # {} => Len(available) > 1
      /\ \E c \in Ordering(session, available, kept, full, choices) :
           req' = [req EXCEPT ![r] = [Idle EXCEPT !.pc = "trying",
                                                  !.session = session,
                                                  !.kept = kept,
                                                  !.candidates = c,
                                                  !.at = 1]]
      /\ cursor' = IF session = NoSession THEN (cursor + 1) % CursorWrap ELSE cursor
      /\ UNCHANGED <<now, loginVars, accounts, cooldown, accountErrors, sessions>>

\* The account being tried.
Current(r) == req[r].candidates[req[r].at]

\* The first event arrives: the account took the request, and keeps it.
Serve(r) ==
  /\ req[r].pc = "trying"
  /\ ClearAccountError(Current(r))
  /\ Remember(req[r].session, Current(r))
  /\ req' = [req EXCEPT ![r].pc = "served"]
  /\ UNCHANGED <<now, loginVars, accounts, cursor>>

\* The stream ends without an event.
ServeEmpty(r) ==
  /\ req[r].pc = "trying"
  /\ ClearAccountError(Current(r))
  /\ req' = [req EXCEPT ![r].pc = "served"]
  /\ UNCHANGED <<now, loginVars, accounts, cursor, sessions>>

\* Altered: the last candidate is never asked.
AdvanceShort(r) ==
  req' = [req EXCEPT ![r].at = @ + 1,
                     ![r].pc = IF req[r].at + 1 < Len(req[r].candidates)
                               THEN "trying" ELSE "exhausted"]

\* Altered: after the last candidate the first is asked again.
AdvanceRound(r) ==
  req' = [req EXCEPT ![r].at = (@ % Len(req[r].candidates)) + 1]

\* fails_over moved the request on: to the next candidate, or past the last.
Advance(r) ==
  req' = [req EXCEPT ![r].at = @ + 1,
                     ![r].pc = IF req[r].at < Len(req[r].candidates)
                               THEN "trying" ELSE "exhausted"]

\* A 429 from the provider.
Limited(r, asked) ==
  /\ req[r].pc = "trying"
  /\ MarkRateLimited(Current(r), asked)
  /\ Advance(r)
  /\ UNCHANGED <<now, loginVars, accounts, cursor, sessions>>

\* The account's credentials are unusable.
Unavailable(r) ==
  /\ req[r].pc = "trying"
  /\ MarkAccountError(Current(r))
  /\ Advance(r)
  /\ UNCHANGED <<now, loginVars, accounts, cursor, sessions>>

\* Any other error is the request's answer.
Refuse(r) ==
  /\ req[r].pc = "trying"
  /\ req' = [req EXCEPT ![r].pc = "refused"]
  /\ UNCHANGED <<now, loginVars, poolVars>>

\* The call is over: it returned, or its client hung up and it was dropped.
End(r) ==
  /\ req[r].pc # "idle"
  /\ req' = [req EXCEPT ![r] = Idle]
  /\ UNCHANGED <<now, loginVars, poolVars>>

-----------------------------------------------------------------------------
(* The dashboard: slots and logins.                                        *)

\* AccountPool::add, which refuses a second account with the same id.
AddSlot(a) ==
  /\ removing = NoAccount
  /\ a \notin ToSet(accounts)
  /\ accounts' = Append(accounts, a)
  /\ UNCHANGED <<now, loginVars, cursor, cooldown, accountErrors, sessions, req>>

\* "remove" finds the slot signed out.  It holds accounts_lock to its end, but
\* a login of the slot may still complete before it goes on.
FindSignedOut(a) ==
  /\ removing = NoAccount
  /\ a \in ToSet(accounts)
  /\ ~signedIn[a]
  /\ removing' = a
  /\ UNCHANGED <<now, signedIn, finishing, poolVars, req>>

\* AccountPool::remove: what the pool knew of the slot goes with it, and the
\* slot's files, its login among them, are deleted.
RemoveSlot(a) ==
  /\ removing = a
  /\ removing' = NoAccount
  /\ signedIn' = [signedIn EXCEPT ![a] = FALSE]
  /\ \E i \in DOMAIN accounts :
       /\ accounts[i] = a
       /\ accounts' = RemoveAt(accounts, i)
  /\ cooldown' = [cooldown EXCEPT ![a] = 0]
  /\ accountErrors' = accountErrors \ {a}
  /\ sessions' = [s \in Sessions |->
                    IF sessions[s].account = a THEN Unpinned ELSE sessions[s]]
  /\ UNCHANGED <<now, finishing, cursor, req>>

\* A login completes.  Claude's finish_login goes on to clear the pool's
\* record of the slot; Codex's background exchange ends here.
SignIn(a) ==
  /\ a \in ToSet(accounts)
  /\ signedIn' = [signedIn EXCEPT ![a] = TRUE]
  /\ finishing' = IF Provider = "claude" THEN finishing \cup {a} ELSE finishing
  /\ UNCHANGED <<now, removing, poolVars, req>>

FinishLogin(a) ==
  /\ a \in finishing
  /\ finishing' = finishing \ {a}
  /\ ClearAccountError(a)
  /\ UNCHANGED <<now, signedIn, removing, accounts, cursor, sessions, req>>

\* Pooled::logout leaves the pool as it is.
SignOut(a) ==
  /\ signedIn[a]
  /\ signedIn' = [signedIn EXCEPT ![a] = FALSE]
  /\ UNCHANGED <<now, finishing, removing, poolVars, req>>

Tick ==
  /\ now < MaxTime
  /\ now' = now + 1
  /\ UNCHANGED <<loginVars, poolVars, req>>

-----------------------------------------------------------------------------

\* What one request does by itself.
Step(r) ==
  \/ Check(r)
  \/ NoneSignedIn(r)
  \/ \E full \in SUBSET Accounts : Choose(r, full)
  \/ Serve(r)
  \/ ServeEmpty(r)
  \/ \E asked \in Asked \cup {Unsaid} : Limited(r, asked)
  \/ Unavailable(r)
  \/ Refuse(r)
  \/ End(r)

RequestNext ==
  \E r \in Requests :
    \/ \E session \in Keys : Begin(r, session)
    \/ Step(r)

AdminNext ==
  \E a \in Accounts :
    \/ AddSlot(a) \/ FindSignedOut(a) \/ RemoveSlot(a)
    \/ SignIn(a) \/ FinishLogin(a) \/ SignOut(a)

Next == RequestNext \/ AdminNext \/ Tick

Spec == Init /\ [][Next]_vars
=============================================================================
