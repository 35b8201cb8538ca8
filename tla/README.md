# llm-local-proxy: specification, model checking and proofs

`llm-local-proxy` is a single-process Rust server (tokio, multi-threaded) that
speaks the Anthropic Messages, OpenAI Responses and Chat Completions dialects to
local clients and forwards every request to one of the user's Claude or ChatGPT
(Codex) subscription accounts. This directory is a verification project kept
beside that code: TLA+ modules translated from the source, TLC runs that check
them on small instances, and TLAPS proofs of the results that matter most for
every instance.

Paths below are relative to the repository root.

## 1. The system

| Component (source) | State | Operations | Talks to |
|---|---|---|---|
| Account pool (`src/providers/pool.rs`, `AccountPool`) | `State` under one mutex: account list, round-robin cursor, cooldowns, account errors, session table | `candidates`, `stream`, `call`, `mark_*`, `clear_account_error`, `remember`, `add`, `remove` | logins (`signed_in`), usage bars (`draining`), upstream clients |
| Slots and catalog (`pool.rs`, `Pooled`, `AccountStore`) | `slots.json`, account directories, catalog cache, two async locks | `login`, `logout`, `manage_accounts` add/remove, `forget`, `live_catalog`, `status` | pool, logins, dashboard |
| Claude login (`providers/claude/auth.rs`) | credential file held by `JsonFile` behind a tokio mutex; the pending PKCE attempt | `start`, `finish`, `sign_out`, `access_token` / `refresh`, `hydrate_profile` | token endpoint, `atomic.rs` |
| Codex login (`providers/codex/auth.rs`) | credential file, the device-code flow and its background task | `start`, `complete`, `sign_out`, `token`, `refresh` | device and token endpoints, `atomic.rs` |
| Atomic files (`atomic.rs`) | file, its temporary, the parsed copy with the stamp it was read at | `write_bytes`, `JsonFile::read` / `write` / `remove` | file system, external editors |
| Usage bars (`providers/limits.rs`) | last reading, back-off, a refresh in flight, generation | `current`, `last`, `clear` | Claude and Codex usage endpoints |
| Token ledger (`ledger.rs`) | per-caller day and hour counters, the flush flag | `record`, `flush`, `load`, `windows`, `UsageTracker` | response streams, `atomic.rs` |
| Upstream clients (`claude/upstream.rs`, `codex/upstream.rs`) | none beyond the request | open with one forced refresh on 401, error and cooldown classification | logins, transport |
| Transport and SSE (`providers/transport.rs`, `http/sse.rs`) | frame buffers, idle timers | `read_events`, `body`, `guarded` | sockets |
| Decoders (`claude/events.rs`, `codex/events.rs`) | per-stream block state | upstream event -> IR events | encoders |
| Encoders (`dialects/*_egress.rs`) | per-stream items, sequence numbers | IR events -> client events | HTTP body |
| Request translation (`dialects/*_ingress.rs`, `*/request.rs`, `ir*.rs`, `tools.rs`, thinking, `json.rs`) | none | client request -> IR -> upstream request | |
| Reasoning cache (`reasoning.rs`) | LRU of 128 entries | `get`, `put` | encoders, request builders |
| HTTP front (`http/server.rs`, `handler.rs`, `security.rs`, `keys.rs`, `service.rs`, `main.rs`) | connection semaphore, key store | routing, authorisation, body limits, shutdown | everything |

A request arrives in `http/handler.rs`, is authorised, parsed by its dialect's
ingress into the IR, and handed to the provider that owns the model. The provider
calls `AccountPool::stream` with a closure that opens the upstream stream on one
account; the pool retries that closure on another account until the first event.
From then on the stream is passed through the decoder, the ledger's
`UsageTracker` and the client dialect's encoder to the SSE body. Every account has
its own login, usage bars, ledger and state files.

What is hard here:

* *Interleaving.* Each request is a task; a step is what lies between two awaits,
  on any worker thread. What a request read before an await (the account list, who
  was signed in, who was nearly full) may be stale when used. Outcomes of
  concurrent requests on one account are applied in the order they arrive.
* *Cancellation.* A client that hangs up drops its request at the await it is at,
  wherever that is.
* *Credentials that rotate.* A refresh spends the old token; losing the answer
  loses the login.
* *Files shared with other writers*, written by rename, cached by stamp, flushed
  later by a background task, and a process that may stop at any point.
* *Streams* that end early, twice, or not at all.
* *The dashboard*, which adds, removes, signs in and signs out accounts while all
  of that runs.

What makes each component correct:

* pool: nobody usable is skipped; an account is asked once; no retry after output;
  rests and the session table are bounded; sessions stay; every request ends;
* slots: ids are unique, the registry and the pool agree, at most one slot is
  waiting for its first login, nothing of a removed slot comes back but by what
  outlives it, and one catalog discovery serves all who wait for it;
* logins: one refresh at a time, never with a spent token; a rotated pair is not
  lost; only a rejected grant ends a login; a sign-out wins over an older attempt;
* files: a reader sees an old or a new file, never a mixture; the cache is never
  older than the last write of this process;
* ledger: a request is recorded exactly once, and what is recorded reaches the disk;
* limits: one reading at a time, one that belongs to the login that is there now;
* streams: one terminal event, nothing after it, balanced items, the same answer for
  a client that streams and one that does not, nothing lost and nothing twice;
* requests: what an upstream signed comes back to it whole and in order or not at
  all, and a conversation sent back as it was handed out is taken.

## 2. Modules

| Module | Models |
|---|---|
| `AccountPool` | the pool, the failover loop of each request and what the dashboard does to them |
| `Failover` | abstract: what the loop promises the caller of one request |
| `PoolPromises` | what the pool promises; a history variable, the fair specification, the refinement mapping |
| `PoolRests` | how long a rest lasts; a history variable |
| `MCPool`, `MCPoolRests` | instances for TLC |
| `PoolProofs` | theorems |
| `ClaudeLogin` | one slot's Claude login: the pair of tokens, the login attempt, the lock, every call that uses them |
| `LoginPromises` | what it promises; two history variables, the fair specification |
| `MCLogin` | instances for TLC |
| `LoginProofs` | theorems |
| `UsageBars` | one slot's usage bars and the reading that is under way |
| `CodexLogin` | one slot's Codex login with its device codes; extends `UsageBars`, whose reader is one of its callers |
| `CodexPromises` | what both promise; two history variables, the fair specification |
| `MCCodex` | instances for TLC |
| `CodexProofs` | theorems |
| `Ledger` | one account's token ledger, from the tracker of a stream to the file, by system call |
| `LedgerPromises`, `LedgerExit` | what it promises while it runs, and at a shutdown; history variables |
| `MCLedger`, `MCLedgerExit` | instances for TLC |
| `LedgerProofs` | theorems |
| `Slots` | the slots of one provider: registry, directories, accounts, who writes into which directory and when, the model catalog |
| `MCSlots` | instance for TLC |
| `SlotsProofs` | theorems |
| `StreamEvents` | what decoders and encoders share: a step's outcome, `Encoder::encode`, the phases of a hosted search, the content block |
| `ClaudeDecoder`, `CodexDecoder` | upstream events to canonical events |
| `MessageEncoder`, `ResponseEncoder`, `ChunkEncoder` | canonical events to the events of the three dialects, and the answer a client that does not stream gets |
| `Upstreams`, `StreamClients` | external: what the upstreams may stream, and the three clients as acceptors |
| `Streams` | one streamed answer: transport, decoder, encoder, body, client |
| `ReasoningCache` | the bounded map from calls to the reasoning they belong to |
| `Requests` | a client's messages to turns, and turns to the requests of both upstreams |
| `Replay` | a conversation over several requests, through decoder, encoder, client, request and cache |
| `MCStreams`, `MCReplay` | instances for TLC |
| `FoldFacts` | theorems about folds over sequences, for the decoders, encoders and clients |
| `EncoderProofs`, `StreamsProofs` | theorems about the three encoders and their clients, and about the decoders and `Streams` |

Definitions whose comment starts with "Altered" are never used by the
specifications: each is a plausible slip in the definition that follows it, kept to
show that a property would notice it.

### AccountPool

The state is the fields of `State` (`accounts`, `cursor`, `cooldown`,
`accountErrors`, `sessions`), the clock, whether each slot's login is there
(`signedIn`, owned by the login modules), the two places where the dashboard is
between two awaits (`finishing`: `auth.finish` has returned and
`clear_account_error` has not run; `removing`: "remove" has found the slot signed
out and not yet removed it) and `req`, the locals of every running call of
`stream`. The pool's mutex makes each locked section one action:

| Action | Code |
|---|---|
| `Begin`, `Check`, `NoneSignedIn`, `Choose` | `candidates`: the account list is copied, each login is awaited on its own, then the locked half orders the eligible accounts |
| `Serve`, `ServeEmpty` | the first event, or the end, of the attempt's stream: `clear_account_error`, `remember` |
| `Limited`, `Unavailable`, `Refuse` | `fails_over` and what it does to the pool, or the request's answer |
| `End` | the call returns, or its client hangs up at any await |
| `AddSlot`, `FindSignedOut`, `RemoveSlot`, `SignIn`, `FinishLogin`, `SignOut` | the dashboard's calls as far as they touch the pool |

Each attempt's `create` and first `next` are one step: between them the pool is not
touched. `call` is the same loop without `ServeEmpty`. The sort is modelled by its
key (`Before`), with slot order as the last component because the sort is stable.
`draining` is an input of `Choose`: any set of nearly full accounts, none when there
is only one account. Equal timestamps in the session table may evict either entry;
the code evicts the one inserted first, which is among them. A request that is in flight
when its slot is removed goes on to rest, to blame and to remember the removed id, and a
slot added later under it starts with that: the model has it and no property forbids it.

### Failover and the refinement

`Failover` says only what a caller can tell: a request asks accounts one after
another, never one twice, moves on after a refusal, is answered by at most one, and
asks nobody once it is answered. `PoolPromises!F` maps the pool to it: a request is
open while it checks and tries, `tried` is the prefix of its candidates that has
refused, `server` the account whose event it got.

### ClaudeLogin

`login` is what `JsonFile::read` returns and `disk` what the file holds: they differ
once the disk has refused a write, and a restart reads `disk`. A pair of tokens is a
number in the order the endpoint issued it; `valid` are the pairs whose refresh token
the endpoint still accepts, so a refresh takes the old pair out of `valid` and puts the
new one in (`Rotates`). `memory` and `filed` are the two copies of the pending PKCE
attempt, `probed` is `profile_attempted`, `lock` the tokio mutex and `task` the locals
of each call in flight.

| Action | Code |
|---|---|
| `Ask`, `NotSignedIn`, `TakeToken`, `StartRefresh` | `access_token`: the lock, the credentials read under it, a refresh when the token is nearly over or was refused |
| `Refreshed`, `Profiled`, `Rejected`, `RefreshFails` | the answer, the profile read a login without one makes before the write, the three ways to fail |
| `Answered`, `Unauthorized` | the loop of `open` and `get` around the token |
| `Start`, `Paste`, `PasteRefused`, `StartExchange`, `Exchanged`, `Welcomed`, `ExchangeFails` | `start` and `finish` |
| `SignOut`, `Hydrate`, `Hydrated` | `sign_out`, `hydrate_profile` |
| `HangUp`, `Restart` | the client of a call goes away at any await; the process starts again |

The lock is held over the awaits of `Holding`, so an action between two awaits is one
step. `Rotates`, `RefreshUnheard` and `ExchangeUnheard` are what the code takes the
endpoint to do: it accepts a refresh token once, and may have acted on a request whose
answer is lost.

### CodexLogin and UsageBars

As above `login`, `disk`, `issued` and `valid` are the file and the endpoint, here with
the grant a pair belongs to. A device code stands for the grant its approval gives, so
`Codes` is `Grants`. `start[a]` is where the call of `start` for a code is, `poll[a]`
the task it has spawned (`complete`), `polling` the abort handle the slot keeps, `out`
the call of `sign_out`. The mutex has no variable: it is held by whoever is
refreshing, storing, clearing or revoking (`Free` is the absence of those), which is
how the guards of the code hold it.

| Action | Code |
|---|---|
| `Ask`, `Read`, `NotSignedIn`, `TakeToken`, `StartRefresh`, `Refreshed`, `Rejected`, `RefreshFails` | `token` and `persist`, called by requests and by the reader of the bars |
| `Answered`, `Unauthorized` | the loops of `open` and `backend` |
| `Start`, `StartFails`, `Spawn`, `Register` | `start`: the task is spawned first, then its handle replaces and aborts the one before |
| `Approved`, `GivesUp`, `Exchanged`, `Queue`, `TakeMutex`, `Persist`, `ForgetLimits` | `complete` |
| `SignOut`, `RemoveLogin`, `SignOutForgets`, `Revoked`, `SignOutDropped` | `sign_out`, and its client hanging up |
| `BeginReading`, `Land` with `LandBars`, `ReadFallsDue`, `ClearBars` | `LimitsStore::current`, `refresh` and `clear` |
| `HangUp`, `Restart` | clients and the process |

`Aborted` says when an abort takes effect: at once in a task that awaits, at the next
await that has to wait in one that runs. A task that has its tokens in hand when it is
aborted, and finds the mutex free, therefore still stores them; `cancelled` (history)
are the codes for which that cannot happen. An abort that arrives while the task is
between two awaits of its polling, before the exchange, is taken as one that arrives at
the await.

`bars.of` is the grant whose usage is shown. The generation counter is only ever
compared with the value a reading began with, and at most one reading is under way, so
the flag `stale` is that comparison.

### Ledger

A record is told apart by its stream. `stream` is each `UsageTracker`, with `owes` for
the moment between the push and `schedule_flush`; `pending` is `flush_pending`; `at`
and `copy` are the stage and the copied records of each flush (`Tasks` in the
background, `Main` at shutdown); `file` holds the two names of the file, each with its
state (absent, torn, whole), contents and the flush that still has it open, so that a
rename moves an open file. `phase` is the process. `LedgerPromises` adds history:
`accounted`, the streams this process has to have a record of (they broke off after an
event, or their terminal event came with the usage known, whatever `record` then did),
`copied`, `met`, `refused`, and `unread`, whether a start ever failed to read the file.

| Action | Code |
|---|---|
| `Observe`, `Drop`, `Schedule` | `UsageTracker::observe`, its `Drop`, `record` and `schedule_flush` |
| `Begin`, `Copy`, `Remove`, `Create`, `Write`, `WriteFails`, `Rename`, `CleanUp` | `flush` and `write_bytes`, one action per lock and per system call |
| `Signal`, `Exit`, `Kill`, `Restart` | `main.rs` and `service.rs`; a kill at any point; `load`, which takes a file it cannot read for an empty ledger |

A file that could not be read at a start is replaced by the next flush, and what it held
is gone: `SavedStays` excepts such runs (`unread`) as it does flushes that meet (`met`).

### Slots

`registry` is `slots.json`, `files` what the directories of each id hold (the login,
the pending login attempt, the ledger), `pool` the accounts. An account is an object:
a slot that is removed and added again has another one under the same id, told apart
by `life`, and requests, polls and flushes go on holding the one they started with.
`tasks` is where each request is, `polls` and `flushes` the background tasks that are
left behind. `accounts_lock`, `refresh` and the mutex of a login are held from one step
to another, so who holds one is read off `tasks` (`Managed`, `Discovering`, `Busy`).
`unused` and `strays` are history: registered ids nobody has signed in to, and ids whose
directories were written to by an account the pool had let go, or left by a kill or by a
disk that refused to delete them.

| Action | Code |
|---|---|
| `Add`, `RequireNoUnsigned`, `Register`, `Open`, `Forget` | "add": the lock, each account's login looked at in turn, the registry (the disk may refuse), the pool, the catalog dropped |
| `Remove`, `Unregister`, `Close`, `Erase` | "remove": the lock and the login looked at, the registry, the pool, one directory (Claude) or two (Codex) after another; a directory the disk does not let go stays, and nobody looks |
| `Start`, then `Attempted` (Claude) or `Started`, `Complete` (Codex) | a login is started: the account is looked up, and may have left the pool by the time its mutex is free or Codex has answered; the attempt Claude writes; the device poll Codex leaves behind, which stores a login or gives up |
| `Start`, `FinishLogin`, `Finished` | a pasted code: the account looked up, its mutex, the exchange |
| `Logout`, `SignedOut`, `Revoked` | a sign-out: the poll is aborted, the mutex waited for, the login removed and (Codex) revoked |
| `Chat`, `Renew`, `Renewed`, `Recorded`, `Flush` | a client's request, the refresh on its way, its usage and the deferred flush |
| `Models`, `LiveCatalog`, `Discovered`, `Tick` | the catalog: served, waited for, discovered, run out |
| `HangUp`, `Restart` | a client goes away at any await; the process is killed at any step and reads the registry again |

Where this differs from a careless reading of the code: an account cannot fail to be
built (`new_account` of both providers returns `Ok`), so the roll-back of an "add" is
unreachable and not modelled; `Backend::closed` is overridden by neither, so nothing stops
the poll of a removed Codex account; and the guard of "add" looks at logins, not at who
was ever signed in, so sign-outs can leave several slots waiting, which
`docs/architecture.md:171` does not say ("only one unsigned slot may exist").

### Streams

One answer on its way. Content is abstract: a text, an argument fragment or a citation
is a token of the upstream event that carried it, and a signature names the block it
belongs to and the text it was computed over, so that a property can tell which text
ended up under which signature. The decoders and encoders are operators: `One(s, ev)`
takes a state and an event to a state, what is emitted and whether it failed, one
operator per handler of the code (`BlockStart`, `CloseThinking`, `Item`,
`TerminalResponse`, `CompleteReasoning`, `EnsureMessage`, ...).

| Action | Code |
|---|---|
| `Opened`, `MessageEvents` | the answer as it begins: a stream of events, or the whole message Claude gives a request for zero tokens, made into events (`claude/upstream.rs`) |
| `DataLine`, `Payload` | `transport.rs`: the data lines of a frame arrive, and the blank line that makes them a payload |
| `Fail`, `End` | `transport.rs`: a broken or silent connection or nonsense, and the upstream closing before or after a terminal event or inside a frame, which is then dropped |
| `Advance`, `Complete`, `Send` | `http/sse.rs`: the body takes one event through decoder and encoder, drains them when there is no more, sends an error frame when one fails, and lets the upstream go |

`Upstreams` says what the two services may stream: any well-formed answer of up to
`MaxBlocks` blocks, each ordinary one, a signed or encrypted or redacted one, a call
whose arguments come whole, in pieces or cut, a search that completes, fails or stays open,
an item of a kind the proxy does not know; Codex lists its items again at the end, or
does not. `StreamClients` assembles what each dialect's client would and turns "bad" on
the first frame that client must not be sent.

### Replay

`history` is the client's copy of the conversation, `cache` the upstream's
`ReasoningCache`, `sent` the last request as rendered. `Ask` sends the conversation with
the results of its calls (or nothing new) through the dialect's parser and the
upstream's `request.rs`; `Answer` streams one of `Shapes` through the decoder and the
encoder, and a client that hangs up before the answer is closed has its blocks but
nothing is cached; `Alter` is a client that changes its history (drops, damages or
exchanges reasoning items, shortens their summaries, loses their signatures, sends an
envelope an earlier build made of a block whose text never arrived, or leaves all or some
of a turn's native thinking out or exchanges it); `Other` is another conversation filling the shared cache;
`Restart` empties it. `Requests` has the rules: `Gather` and `Settle` decide whether a
turn's signed blocks are taken from the client, restored from the cache or left out,
`Note` tells Claude of a search that was dropped beside a call.

What these two do not promise, and the properties except:

* Native thinking goes to Claude as a Messages client holds it: whatever the client
  dropped or exchanged is passed on so, and the cache is not asked (`request.rs:390-395`).
  `WholeOrNone` promises for it only that nothing is added, lost or moved on the way.
* A block dropped from the end of a Responses turn goes unseen when the answer had no
  call, or its calls are no longer cached (`thinking.rs:12-16` counts blocks from the
  front).
* Two answers a Responses client puts side by side are read as one turn. Their counts
  start again in the middle, so the turn is refused, or a dropped block goes unseen.
* A call whose arguments were cut at the limit is passed on in Chat and Responses and
  refused when it is sent back; Messages fails the answer itself.
* A Chat client has no place for signatures: its reasoning comes back only from the
  cache, and is put before everything else of the turn (`request.rs:422`).
* A citation Claude sends before the first text of an answer has no message to go on in
  Responses (`responses_egress.rs:269`).
* A search that failed beside a call is told to Claude as one that did not run; a
  search that is open when Claude pauses or reaches its limit stays open in Responses.

## 3. Runs

| Run | Question | Result |
|---|---|---|
| `pool_traffic` | Do concurrent requests keep the promises while every outcome interleaves? | holds |
| `pool_slots` | Do they while the dashboard changes the accounts? Does the loop implement `Failover` and end? | holds |
| `pool_rests` | Does a rest last as long as the 429 said? | violated |
| `claude_login` | Do two calls of a slot keep its pair usable, its sign-outs final and its attempts in order while clients hang up, writes fail and the process restarts? Does every call end? | holds |
| `claude_hangup` | Is a refreshed pair kept, whoever hangs up? | violated |
| `codex_login` | Do they while two device codes are polled for, stored, replaced and cancelled, and are the bars those of the login in hand? | holds |
| `codex_ends` | Does every request, reading, sign-out and code's task end, and does none wait for the mutex for ever? | holds |
| `ledger` | Is every stream that breaks off or completes recorded, and once, and is a record never forgotten, never taken out of the file again, and written? | holds |
| `slots` | Is there at most one new slot, do registry and pool agree, is a free id's directory empty but for what outlived its slot or could not be deleted, and is no discovery needless, while two requests, a poll or flush left behind, hang-ups and kills interleave? | holds |
| `streams` | Does every client of every dialect get a well-formed, complete answer, or an error, and an end? | holds |
| `replay` | Does every later request carry what the upstream signed whole or not at all, is no signature over text that never arrived passed on, and is an unaltered conversation always taken? | holds |
| `ledger_exit` | Are the records made before a signal in the file when the process has exited? | violated |

Bounds of the pool runs. Two accounts are enough for every branch of the order
(kept or not, full or not, ready or not) and for failover to move once and to run
out. Two requests (`pool_traffic`, `pool_rests`) give every pair of outcomes on one
account in both orders; one request against six dashboard actions (`pool_slots`)
gives every order of those around one request's awaits. Times are scaled: the
default rest is 1, the longest 2 and the upstream may ask for 4, so all three cases
of the bound occur; one tick (`MaxTime`) lets a rest and a session's hour expire.
`SessionLimit` is 1 with two sessions, so the table is at its limit and evicts.
`CursorWrap` keeps the cursor modulo the number of accounts. The clock does not move
in `pool_slots`: every rest taken in it lasts. `pool_traffic` takes requests as
symmetric; it checks no liveness.

Bounds of `slots`. Two requests are two adds, an add beside a removal, two callers of the
catalog, or one of these beside a login, a sign-out or a chat. Two ids are enough for a
second slot, for the lowest free id to lie below a used one and for an id to come back.
`MaxLives` is how many accounts of one id are told apart at once, not how often a slot is
added: numbers are used again, and adds and restarts are unbounded. `MaxBehind` leaves one
poll or flush behind: each writes on its own. `Served` lets clients' requests go to
the first id alone. The requests are symmetric and no liveness is checked.

Bounds of `streams`. Three blocks give a block before, between and after others of any
kind, a call after a search's use and result, and two signed blocks with something in
between; two deltas in all give a block in two pieces or two blocks in one piece each.
`Burst` is how far the transport reads ahead; with one event in hand every failure
still comes before, on or after the event it follows. Deadlock is not checked: a stream
stops.

Bounds of `replay`. Two answers and a third request give every answer a later request
and one after that. The shapes have from no signed block to three, before, between and
after calls, and the searches, texts and cut calls whose presence the rules look at. Two
alterations are the least that can drop one block and hide it by another. The cache
holds two, so two calls of one answer and one of another conversation already evict.
Deadlock is not checked: a conversation ends after its last answer or a refusal.

Fairness. `FairSpec` asks weak fairness of each request's own steps: the runtime
polls every task that can go on, and an upstream call always comes back, because
the HTTP client has a connect and a read timeout (`providers/transport.rs`,
`claude/upstream.rs`). No fairness is assumed of the dashboard, of new requests or
of the clock.

Bounds of the login runs. Two calls (`claude_login`) give every pair of flows on one
slot, in every order of their awaits: two refreshes, a refresh and a code exchange, a
profile read and a sign-out. Three pairs are the stored one, the one a refresh or a
login gives and its successor; two attempts are the least with an older one. In
`codex_login` one request and the reader are the two callers, the two codes are each
other's predecessor and the stored login's successor, and the endpoint issues three
pairs. `codex_ends` has one code, because a second adds nothing to whether a flow
ends, only to its state space. `MaxPairs` ends the endpoint's answers, not the flows:
with no pair left a refresh can still fail and an exchange still give up. In the ledger
runs two streams and two background flushes besides the one at shutdown give every
collision of two writers.

Fairness of the logins. tokio's mutex is a queue, so a call that asks for it again and
again while it is free gets it: strong fairness on `Acquire`, `TakeMutex` and
`RemoveLogin` (the sign-out that waits for it). Every
await of the login code ends, after 30 seconds at the latest (`TIMEOUT`; the
revocation after ten), and upstream calls after the transport's read timeout: weak
fairness on `Resume`, on the reader's `LandBars`, on what a code's task does by itself
(it stops polling after the 15 minutes of `LOGIN_WINDOW`) and on the sign-out's last two
steps. Nothing is assumed of the user, of clients, of the disk or of restarts; a code
that nobody approves gives up. With Claude, `CallsEnd` follows every request, pasted code and profile read;
`start`, `sign_out` and the status page's call take the lock in their first step there,
and how long they queue for it is not stated. With Codex it follows the sign-out from
its first step, the wait for the mutex included.

Fairness of the ledger. The runtime runs every flush that can go on, its sleep ends
after a second, and a call that has pushed a record goes on to schedule the flush: weak
fairness on `Flush` and `Schedule`. Streams need not end.

Fairness of streams. The body's task is polled while it has something to take or to
finish, and the transport's read timeout bounds how long an upstream may stay silent:
weak fairness on taking the head of the queue, on letting the upstream go, and on the
connection's failing or ending. Nothing is assumed of what the upstream says.

### What the violated runs show

* `pool_rests` (`src/providers/pool.rs:340`, `:278`): two requests are in flight on
  one account. The second gets a 429 and rests the account; then the first event of
  the first arrives and `clear_account_error` removes the rest. The documentation
  says a 429 rests the account for as long as the upstream names
  (`docs/architecture.md:140`). The next request asks the account again at once.
* `claude_hangup` (`src/providers/claude/auth.rs:301`): a refresh of a login that has
  no email or plan yet awaits a profile read between the endpoint's answer and the
  write, inside the request's own future. A client that hangs up there drops the new
  pair from memory and disk alike, and the old refresh token is spent. The
  documentation says "a refreshed pair is kept even if the disk refuses it, since the
  old refresh token is spent" (`docs/architecture.md:151-152`).
* `ledger_exit` (`src/atomic.rs:25`): all writes of one file go through one temporary,
  named after the file and the process, and the flush at shutdown does not wait for a
  deferred one that is writing. Either may remove or rename the other's temporary, find
  it in the way, or write an older copy last; the process then exits in good order
  without records made before the signal, which `main.rs:151-152` says are flushed. The
  same collision can leave the file torn for a moment and is why `SavedStays` and
  `RecordsReachDisk` are stated for flushes that do not meet (`met`).

## 4. Proofs

All theorems hold for any set of accounts, requests and sessions and any values of
the times, under the named assumptions of the modules (`SecondsAssumption`,
`PoolAssumption`, `FiniteAssumption`: the rests are positive, a failed login's rest
is no longer than the longest one, the table holds at least one session, and there
are finitely many accounts and sessions).

| Theorem | Property | Argument |
|---|---|---|
| `PoolProofs!TypesHold` | `TypeOK` | inductive with `Pointing`: a request that has chosen points at one of its candidates, so `Current` is an account |
| `RestsStayInOrder` | `RestsInOrder` (`RestIsBounded` and `ErrorKeepsRest`) | inductive given types: `Rest` is at most `MaxCooldown` and every action that records an error records a rest, every action that drops a rest drops the error |
| `TableBounded` | `TableIsBounded` | remembering adds at most one entry and eviction takes one out (cardinalities of finite sets) |
| `SessionsStay` | `SessionStays` | `KeptFirst`: in a sequence sorted by `Before`, the kept account can only be first |
| `NobodySkipped` | `NoUsableAccountSkipped` | not inductive by itself; `SteadyInv` says where a steady account is at each stage of the request: still to be checked or already listed, then among the candidates, in the end among those that refused |
| `PoolImplementsFailover` | `ImplementsFailover` | step simulation; `Fresh` (all candidates differ) is what makes the next account one that has not refused |
| `LoginProofs!LoginTypes`, `RefreshesDoNotRace`, `OnlyLastAttempt`, `SignOutsAreFinal` | `TypeOK`, `InHandIsValid`, `LastAttemptWins`, `SignOutIsFinal` | `AtWork`: a call holds the lock exactly while it awaits the endpoint, so what it read under it is still in the file when the answer comes, and the pair it was issued is still accepted; `AttemptIsLast`: an attempt in memory, in its file or in a call's hands after the check is the last one started, and newer than any sign-out; `InHand` is the property with the pair that is being completed excepted |
| `CodexProofs!CodexTypes`, `CodexRefreshesDoNotRace`, `CodesCanBeStopped`, `BarsBelong`, `CodexSignOutsAreFinal` | `TypeOK`, `InHandIsValid`, `OneLoginInProgress`, `BarsAreOurs`, `SignOutIsFinal` | `Mutex`: of the three kinds of flow at most one holds the mutex; `Current`: what it read is still the login; `Tokened`: the tokens of a code that are not stored yet are in no other hands, so that no refresh and no revocation spends them; `Polled`: a cancelled code's task is over; `Reading`: a reading that is not stale asked for the login in hand, unless the bars are about to be cleared |
| `LedgerProofs!LedgerTypes`, `StreamsRecordedOnce`, `NoRecordForgotten`, `FileOnlyGrows` | `TypeOK`, `RecordedOnce`, `NothingForgotten`, `SavedStays` | `CountedOnce`: a stream that has not ended is recorded nowhere; `AccountedIsRecorded`: a stream that is to be accounted for is past the stage where its end records it, and one record is there; `FlagIsKept`: the flag is set only while a flush is due, so a record that finds it set will be copied; `WritesAlone`: while no two flushes have met, and every start could read the file, the one that writes has a copy of all that the file holds, and the temporary to itself |
| `SlotsProofs!SlotsTyped`, `OneNew`, `SlotsInStep`, `OneDiscovery` | `TypeOK`, `OneNewSlot`, `SlotsAgree`, `NoNeedlessDiscovery` | `OneManager`: one request holds `accounts_lock`; `Managers`: what it has looked at is still so, because only it changes the registry and the pool; `InStep`: registry and pool differ by at most the one id it is at work on; `NotYetUsed`: a slot nobody has signed in to has no login on disk, so the next add finds it and is refused; `Leftover` and `HalfErased`: what lies under a free id is being erased, could not be, or was written by somebody who outlived the slot |
| `FoldFacts!FoldKeeps`, `FoldConcat`, `FoldOne` | | what every step of a left fold keeps, the fold keeps; a fold over a concatenation is the fold over the second half, begun where the first ends |
| `StreamsProofs!StreamsTypes`, `NoFalseEnds` | `TypeOK`, `NoFalseEnd` | `Shape`, `Queue` and `Cause`: how far a decoder has come, what is still queued for it, and why a stream that is over ended as it did |
| `StreamsProofs!ClientsInOrder`, `AnswersAgree` | `ClientOrder`, `SameAnswer`, in every dialect | `Talk` and `HeardInv`: see below |

The login theorems assume `LoginAssumption` and `CodexAssumption` (the names of nobody
and no grant are not those of a task or a grant, the reader is not a request, the
bounds are naturals), the ledger's `LedgerAssumption` (likewise); they hold for any set of
calls, codes, streams and flushes, any bound on pairs and attempts, and with restarts. Those
of `Slots` assume `SlotsAssumption` (at least one id and one account of an id) and hold for
any number of requests and ids, and with kills at any step.
The stream theorems assume `BurstAssumption` (the transport holds
at least one event); they hold for both upstreams, any limits and answers of any length.
Why the invariants have to be strengthened: none of the properties says who holds
the lock, and every one of them is broken by a flow that comes back from an await with
what somebody else has replaced; that this flow cannot exist is what `AtWork`, `Mutex`
and `Current` add.

`ListedOnce`, `ListedWhole` and `Candidates` are the lemmas about the order's
sequences the last three rest on: an ordering of the eligible accounts contains each
of them exactly once.

The stream operators are folds over sequences of events (`InTurn`). A theorem cannot take
the folded operator as a parameter here, so `FoldFacts` has it as a CONSTANT operator: a
module that proves about a fold takes one instance of `FoldFacts` for each operator it
folds, and gets the induction with it. `FoldFacts` states the induction over the naturals
it needs as a hypothesis (`Induction`), so that each of its many instances stays small;
`EncoderProofs!SetInduction` proves it once, from the library's well-foundedness of `<`.

The proof about one streamed answer has two halves.

`EncoderProofs` says what a client holds after any events its encoder is given. A
Messages encoder refuses what would break its dialect by itself, so its client is in step
whatever comes (`Sim`, and between two events `Good`: no search's use without its
result). The Chat and Responses encoders trust their decoder: a fragment of arguments is
appended to the call that is open, a finished reasoning item replaces the text that was
streamed. Their clients are in step only for events that make sense together. `Hear`
gathers what has been told so far (the open call, the indices used, the reasoning no item
has closed, each search's phase), `Fit` says which event may come next, and `SeesC` and
`SeesR` relate encoder, client and what was told: for Responses, that the message, the
reasoning, the call and the searches that the encoder has open are exactly the items that
the client has open, and every other item is done (`RS`). One lemma per event handler
keeps each of them.

`StreamsProofs` proves the inductive invariant. `StreamInv` has four parts: `Shape` types
the upstream, the decoder and the encoder; `Queue` says which events can still be read;
`Cause` says that an upstream that failed has left a failure in the queue for as long as
the body reads it, so an end is told only after a terminal event; `Talk` ties the Messages
client to its encoder. `HeardInv` adds what Chat and Responses need. The upstream is
ahead of its client by the events that still wait, so the invariant is about a run (`Run`)
of the decoder over all of them, begun with what the client has been told: all that it
says fits, and it ends in a decoder that stands where the upstream does. `RelA` says this
of Claude (the decoder collects the block that is open, with its deltas so far; no call
index is used twice), `RelX` of Codex (what was thought of an open item is what it has
streamed; reasoning that an item or the terminal response lists again was taken before, so
it is not told again). An event the upstream adds then extends the run (`SayTells`), and an
event the body takes is the run's first step (`FirstTells`). A failure, which ends the
run, closes every open item or the answer as failed (`BrokenHeard`); a decoder drained
after a terminal event says nothing that an encoder refuses and leaves no call open
(`Drains`). `EventOK` is the part of the contract that the Messages lemmas need.

Only model-checked: `NothingLost` and `SignedShown` (they compare the answer with all the
upstream has said, so they need the decoders' lists of what was shown as well), everything
about `Replay` (`TypeOK`, `WholeOrNone`, `TextArrived`, `RoundTrip`, `SearchTold`), `RequestsEnd`,
`StreamEnds`, `CallsEnd` (both logins), `RecordsReachDisk` (liveness under fairness and
`ENABLED` are outside what the prover does), and that an ordering always exists, i.e. that
`Choose` is enabled (part of `RequestsEnd`).

## 5. Not modelled

* Of the slots: which models a catalog lists, how a status card is put together, a
  registry file that cannot be read, and a disk that refuses a login or a ledger (in the
  login and ledger models). A failed discovery keeps serving the last list; the model only
  has when it is asked for again. A discovery that is under way when the login changes
  stores what it read for the old login (`pool.rs:693`), for a minute at most.
* `JsonFile`'s stamp, writers outside the process and a file that cannot be unlinked.
  The logins take the file as memory and disk.
* In the logins: a Claude grant without inference scope, a Codex refresh whose answer
  leaves the refresh token out, a login without account id or refresh token, the order
  of the timers. A token may be stale, and a code expire, whenever someone looks.
* In the ledger: token counts, callers, the partial flag, windows, and the pruning of
  records older than a week.
* Usage bars: the 30 and 300 seconds between two readings, which are a moment that comes.
* A status card reads who is signed in, awaits the bars and shows both
  (`codex/auth.rs:501-508`): a new login in between shows up for one answer.
* Of the streams: the cutting of bytes into lines, keep-alives, a client that
  hangs up in the middle (what it leaves is in `Ledger` and `Replay`), identifiers,
  timestamps and usage numbers, and a Codex answer in which one reasoning item is encrypted
  and another is not (`Upstreams` takes all or none to be).
* Of the requests: system prompts, tool declarations, images, sampling parameters, cache
  hints and output formats, which are stateless layout; a conversation that changes from
  one upstream to the other.
* Upstream clients' classification of statuses, and routes, authorisation and keys of the
  HTTP front: single decisions without state, better tested than modelled. The accept loop
  and configuration are I/O.
* Dashboard assets, tests, container and build files: no logic of their own.

## 6. Plan

1. Proofs about the streams: `NothingLost` and `SignedShown`, by adding to `RelA` and
   `RelX` what of the upstream's texts and signatures has been told; then `TypeOK` of
   `Replay`.
2. `ReasoningCache`: that `Put` keeps ids distinct and the limit, as lemmas over sequences.
3. A `SlotLogin` specification (signed out, signed in, in between) that `ClaudeLogin`
   and `CodexLogin` both implement, and the theorems that they do; then `Slots` over it.
4. `StampedFile`: `JsonFile` with its stamp against a plain register, with an external
   writer.
