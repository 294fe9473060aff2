# A TLA+ model of lobsterai-proxy

`lobsterai-proxy` is a local HTTP proxy.  It speaks the Anthropic Messages and
the OpenAI Responses protocol to its clients and one chat-completions protocol
to the LobsterAI upstream, for which it keeps a pool of accounts.  This
directory holds a model of it in TLA+, the TLC configurations that check the
model on small instances, and theorems checked by TLAPS.  Paths are relative
to the repository's root.

## The system

| part | source | state | operations |
|---|---|---|---|
| account pool | `src/lobsterai/pool.rs` | entries (`RwLock`), learned health, credits and the sticky table (`Mutex`) | `pick`, `load_files`, `prune`, `note_*`, `set_credits`, `refresh_due` |
| credential | `src/lobsterai/credential.rs` | tokens in memory, one file per account | `apply_refresh`, `atomic_write`, `needs_refresh` |
| token refresh | `src/lobsterai/refresh.rs` | one refresh lock per credential | `ensure_fresh`, `force_refresh` |
| generation | `src/lobsterai/upstream.rs` | locals of one call | `generate`, `peek_stream_error` |
| housekeeping, check-in | `src/lobsterai/housekeep.rs`, `checkin.rs` | timers | the pass each minute, `checkin_all` |
| Anthropic stream | `src/anthropic/stream.rs`, `src/server/orchestrator.rs` | open blocks, tool slots, the pump's buffer | `feed_chunk`, `finish`, the pump task |
| Responses stream | `src/responses/stream.rs`, `src/server/responses_pump.rs` | open items, sequence numbers | `feed_chunk`, `finish`, the pump task |
| watchdog | `src/stream_watch.rs` | four timers | `check`, `next_deadline` |
| reasoning shadow | `src/reasoning_shadow.rs` | reasoning of turns with tool calls, per session | `store`, `restore_into`, `enforce_limits` |
| handlers | `src/server/orchestrator.rs` | in-flight guard, counters | `messages`, `responses` and their ways out |
| shutdown | `src/shutdown.rs` | signal count, in-flight gauge | `drain_until_idle`, the signal listener |
| policies | `src/deepseek/policy.rs` | none | epoch boundary, stripping, canonical arguments |
| request conversion | `src/anthropic/request.rs`, `src/responses/request.rs` | none | pure translation |
| OAuth login | `src/lobsterai/oauth.rs` | none in the server | writes a credential file from another process |
| the rest | `config`, `cli`, `error`, `models`, `redaction`, `session`, headers, metrics | none, or counters | tables, formatting, hashing |

A request is converted, stripped of old reasoning, given its shadowed
reasoning, and handed to `generate`.  That picks an account, sends, and on
some answers refreshes the token or fails over.  The started stream is
converted event by event by a pump task, under the watchdog, and at its end
the shadow store is written.  Meanwhile one housekeeping task rescans the
credential directory, refreshes tokens that are about to expire and reports
credits to the pool.  The parts share the pool's two locks, the credential's
data lock and refresh lock, the shadow store's lock and the in-flight gauge.

What is hard, by part:

* **pool**: the two locks are taken one after the other in `pick` and in
  `prune`; the map and the deque of the sticky table must agree after any mix
  of touch, rebind, 429, prune and eviction; cooldowns of several kinds.
* **refresh**: the refresh token rotates, so a token sent twice, a lost answer
  or a crash between answer and file logs the account out; waiting for a lock
  across a network call.
* **generation**: which answers may be replayed and on which account, a bound
  on attempts while the pool changes, the head of a stream in arbitrary chunks.
* **streams**: block lifecycles under any order of deltas; timers, client
  disconnects and the end of the upstream racing.
* **shadow**: limits and expiry with two kinds of accounting.
* **housekeeping**: passes over a copy of the entries while the pool changes,
  and a select without order over two tickers and the shutdown.
* **requests**: which turns may be rewritten although their bytes are in the
  upstream's prefix cache, and which result belongs to which call.
* **shutdown**: a second signal, the deadline and the last request racing.

`PROJECT.json` lists every such hazard at its line.

## Modules

| module | models | instance |
|---|---|---|
| `Deque` | `retain` on a sequence, in a form theorems can be proved about | |
| `Sticky` | the sticky table as a value: touch, bind, evict, remove | |
| `Pool` | the pool, its callers, the credential directory and time | `MCPool` |
| `Housekeeping` | the housekeeping task over the pool; it implements `Pool` | `MCHousekeeping` |
| `Refresh` | the refresh of one token, its file, crashes, a login from outside | `MCRefresh` |
| `Generate` | one generation after the other against a pool that changes | `MCGenerate` |
| `MessageStream` | what a client of the streamed Messages protocol relies on (abstract) | |
| `AnthropicStream` | the Messages converter, and a client that reads its events | itself |
| `ResponseItems` | what a client of the streamed Responses API relies on (abstract) | |
| `ResponsesStream` | the Responses converter, and a client that reads its frames | itself |
| `Watch` | the stall watchdog as a value | |
| `Pump` | the pump task of a stream with client, upstream, watchdog and time | `MCPump` |
| `Shadow` | the reasoning shadow under the conversations that use it | `MCShadow` |
| `Policy` | chat messages, the epoch boundary, the strip, canonical arguments | |
| `AnthropicRequest`, `ResponsesRequest` | the two request conversions as functions | |
| `Requests` | conversations, and what the upstream gets of each of their requests | `MCRequests` |
| `Server` | requests, their counters and guards, signals, drain and exit | itself |
| `DequeProofs`, `PoolProofs`, `RefreshProofs`, `ServingProofs`, `AnthropicProofs`, `ResponsesProofs`, `ExchangeProofs`, `ShadowProofs` | the theorems | |

`Pool` uses `Sticky` and `Deque`, `Pump` uses `Watch`, `Shadow` uses `Deque`,
`Housekeeping` extends `Pool` with the task that calls it and implements it,
`Requests` instantiates both conversions over `Policy`, `AnthropicStream`
implements `MessageStream`, and `ResponsesStream` implements `ResponseItems`.
The others meet through what they show of each other: `Generate` uses what
`Pool` and `Refresh` show, `Pump` leaves the events to the converters and the
store to `Shadow`, and `Server` takes of a pump that it ends or is abandoned.

### Pool, Sticky, Deque

Each critical section is one action.  `PickRetain` is the first block of
`pick`, `PickSelect` the second (`StickyHit`, `NoCandidate` and `RankedPick`
are its three ways out); `Prune` and `PruneState` are the two halves of
`prune`; `Load` is the directory listing with `load_files`.  `NoteStatus` (401
and 403, and a failed proactive refresh), `NoteRateLimit` (429),
`NoteHardCredit`, `NoteError` and `SetCredits` are what callers report, of any
account whose credential was ever handed out (`known`), because a task may
hold it long after the entry is gone.  Mutated definitions (named "Mutant of"
in a comment) stand before the definition they mutate; no specification uses
them.

An `Instant` is its distance to now: a cooldown is the ticks it has left, a
binding the ticks since its last use, and `Tick` moves them all.  An absent
entry of `err_counts` or `fail_until` is 0, of `credits` and of `model_fail`
-1, which is how the code reads them.  Eviction is written as the set of keys
popped (the longest prefix each element of which is popped when it becomes the
front), not as a loop.

A credential is the file it was read from and the account it is of *by now*:
`Refresh` is the end of `apply_refresh`, which writes the new tokens into
whatever the file holds by then (`Rewritten`) and takes the account in memory
from the result.  So a file that was replaced by that of another account
makes an entry one of that account, although a second entry may be of it
already.  `own` says that an entry is still of the account it was loaded for;
only the properties read it.  A task that holds a credential may also see
the change late, so `entries` may follow a refresh or not: that covers a
credential which was dropped and loaded again, and has two objects.

Simplified: within the state lock `pick` reads `entries` twice, here once, so a
reload, or a refresh that changes an account, between the two reads is not
modelled; the listing of the directory and the load are one step;
`seed_from_dirs` and `note_success` have no caller and are left out.  As in the
code, what the pool has learned of an account whose entry `pick` dropped is
not cleaned by the next `prune`, which finds nothing to drop.

### Housekeeping

`at` is the place of the task in its loop, `todo` the copy of the entries that
a pass works through.  `CheckinDue`, `Stop` and the first half of `Rescan` are
the branches of the select (`CheckinDue` and `Stop` also end the delay before
it).  `Rescan` takes the actions of `Pool` itself: `Prune`, `PruneState`,
`Load`.  `StartRefresh` copies the entries, `RefreshOk` and `RefreshFails` are
one account of `refresh_due`, and `Checkin`, `Retry` and `FetchCredits` one
account of `checkin_all`.  A call to the upstream is one step with any result;
what a refresh does to the token is in the module `Refresh`, what it does to
file and account is `Renew`, the action `Refresh` of `Pool`.  `Others` are
requests, the directory and time, and `OthersRefresh` is a refresh by a
request, which may change the account of a credential that the task holds.
`ImplementsPool` says that every step of all this is a step of `Pool`, or
changes nothing in it.

### Refresh

Tasks share one credential.  Keepers call `ensure_fresh`, requests
`force_refresh`.  tokio's mutex is fair, so the lock is a queue whose head
holds it.  `Call`, `AlreadyFresh`, `Send`, the server's `Grant`, then `Persist`
(the file) and `Publish` (the memory) are the steps of a refresh; `Reject`,
`GiveUp` (timeout or transport), `PersistFails` and `PublishFails` its errors.
`apply_refresh` holds the data lock, so no task reads the tokens between
`Persist` and `Publish` (`Unread`), but the process may die there (`Restart`).
`Login` is `lobsterai-proxy login` in another process: it replaces the file,
and the running proxy does not re-read it.  The server may rotate the refresh
token and then honours the new one only.

Not modelled: an empty refresh token (an early return), and a credential
dropped and loaded again while a task still holds the old object, which has a
lock of its own.

### Generate

One generation follows another; each step of the loop of `generate` is an
action.  The other tasks are the environment: `PoolChanges` loads, drops, cools
or revives any account between any two steps.  `pick` is represented by what
`Pool` shows of it (`PickIsSound`, proved for every pool), `force_refresh` by
what `Refresh` shows of it (it returns).  A 200 body is a sequence of frames,
each received in two halves, so that a chunk may end within a frame; the scan
(`FoundAt`) and the stop conditions (`HeadSeen`) are those of
`scan_prefix_for_stream_error` and `peek_stream_error`.  A frame may be `huge`,
beyond `MAX_PREFIX_INSPECT_BYTES` before it is complete: then the head is
`Inconclusive` and handed over as healthy, whatever the frame is.  `left` is a history
variable: the accounts the generation had to leave and nobody has revived
since.  Credits, which only rank accounts, are not kept here.

### MessageStream, AnthropicStream

`MessageStream` is the promise of `docs/ANTHROPIC_COMPATIBILITY.md`: one
message, blocks with consecutive indexes opened and closed once, fragments in
open blocks only, thinking closed before text and tools go on, and no block
open at the end.  `AnthropicStream` is the converter: `Reasoning`,
`HiddenReasoning`, `Content`, `ToolCall`, `FinishReason` and `NoDelta` are the
branches of `feed_chunk`, and `Finish` is `StreamPump::finish` with
`finish_with_stop`.  A chunk with several deltas is fed as several chunks in
the order of the branches.  Block indexes count from 1, and 0 stands for a
block that is not open.  `ClientReads` applies one event to the view a client
builds (`phase`, `blocks`, `failed`), which is the view that must behave like
`MessageStream`; a text is the number of its fragments.

Not modelled: ids and names of tools, usage and stop reason, which are
data, and the response that is not streamed, which is built from the
accumulators `NothingLost` compares with the client's view.

### ResponseItems, ResponsesStream

`ResponseItems` has two specifications.  `Lifecycle` is the order that the head
of `responses/stream.rs` and `docs/RESPONSES_API.md` write down: one item after
the other, added, filled and done.  The converter does not keep it, see
below.  `Spec` is what it does keep: frames numbered without a gap, items
added before their parts and fragments and done once, one terminal frame, and
every item done before a response that did not fail.  Besides the steps of
`Lifecycle` it has two kinds of step and no more: an item is added while others
are open (`AddBeside`), though the first function call finds the message
closed, and text comes for the message that the calls have closed
(`LateText`).
`ResponsesStream` is the converter: `Reasoning`, `HiddenReasoning`, `Text`,
`ToolCalls`, `FinishReason` and `NoDelta` are the branches of `feed_chunk`.  The
tool calls of one chunk stay one step, because the code walks them twice, the
second time with the fragments.  `Finish` and `FinishFailed` are the two ends,
and `TerminalItem` builds the output of the terminal response from the
accumulators.  An output index counts from 1, and 0 stands for an item that
has none.  `ClientReads` applies one frame to the client's view (`stage`,
`items`, `output`).

### Watch, Pump

`Watch` is the watchdog.  An `Instant` is the time since then, so `check`
compares ages and `next_deadline` is the time left.  `Pump` is the pump task:
the branches of its biased `select` are `ClientLeft`, `Ping`, `Stall`, and the
reads (`Line`, `Done`, `UpstreamEnds`), each guarded against the branches
before it; then come `Send`, `Flush` and `SendFinished` with the channel to the
body, `SendFails` when the body is gone, and `Record`, the summary task.
`Return` drops what the task owns, the in-flight guard among it.  The variable
`frontend` chooses between the pumps of `orchestrator.rs` and
`responses_pump.rs`.  They differ in two places: what `[DONE]` without a finish
reason is recorded as, and that the Responses pump returns without an outcome
when the client leaves before its last events are sent.

The unit of time is the ping interval.  `Tick` is possible only while the pump
waits for a timer, for bytes or for room: the steps between two waits take no
time.  That is the best case for the timers; `Stall` may still come late, when
the pump waited for room meanwhile.

Not modelled: the aggregated answers (`stream=false`), which have no client
to wait for, and several lines in one chunk of bytes, which have the effect of
several chunks.

### Policy, AnthropicRequest, ResponsesRequest, Requests

A chat message is a record of what the rules tell apart: role, whether it has
reasoning, its call ids and whether their arguments are canonical, the id it
answers, and `src`, the position in the client's history it was made from,
which only the properties read.  `ConvertMessages` and `ConvertInputItems` are
the loops of the two conversions as recursive functions, with the code's pending
ids; `Applied` is what the handlers do to the result: `restore_into` of the
shadow, the strip of old reasoning, the canonical form of arguments.
`Requests` lets a client extend its history by anything of its alphabet and
send all of it, again and again; `wire` is what the upstream gets, and
`restored` says to which turns the shadow gave their reasoning back.  Here that
is any subset of the turns `restore_into` asks about (`Restorable`): which
entries the shadow still has is the business of `Shadow`.  `Accepted` is the
part of the history that was sent last.

Not modelled: text, images and the schemas of tools; the canonical form
itself, of which only whether a message has it is kept; the billing header and
the token estimate.  A message or an item that is refused by itself, for
whichever of the many reasons, is one letter of the alphabet.

### Server

Each request has a connection (`stage`), perhaps a pump (`pump`: the pump task
and then the task that records its summary) and perhaps a guard (`guards`).
`Unauthorized`, `RejectBody`, `Accept`, `Answer` and `StartStream` are the ways
through a handler, `FinishPump`, `AbandonPump` and `Summarize` those of a
stream.  `ClientGone` drops the connection and with it a handler at an await, but
not a pump.  `Arm` and `Receive` are the signal listener, which makes its
streams anew for every signal: a signal in between is lost (`Signal`).  The
drain's three stages are `drain`; a stage that prefers a branch guards the
others against it (`Forced`, `ServeResolved`).  Everything ends with the exit,
tasks under way included.

Simplified: a connection serves one request; the deadline comes at any
time after the first signal; and `Answer` drops the guard and counts the
outcome in one step, while `orchestrator.rs:401` does so one after the other
without an await, so that an exit between the two loses a count.

### Shadow

The store is the value `[map, lru, total]`, and `Without`, `Evict`,
`EnforceLimits` and `Insert` are the functions of `reasoning_shadow.rs` on it.
Eviction is the least number of sessions popped from the front after which
both limits hold, not a loop.  Around it is what uses it: `Request` is
`restore_into` followed by `strip_historical_reasoning`, `ToolTurn` and `Answer`
are the bookkeeping of `StreamPump::finish` (and of
`apply_shadow_bookkeeping`), `Breaks` is an end without a finish reason.
`Asks` and `Restarts` are the client's, `OtherTurn` and `OtherAnswer` belong to
a second conversation of the same session, which `session.rs` allows.  `lost` is
a history variable: the sessions that were cleared or evicted since the last
human message.  The upstream is taken to give fresh ids to tool calls.

## Runs

| run | states | shows |
|---|---|---|
| `pool_health` | 177,040 | the sticky table at its limit, and the answers of `pick`, under every interleaving of outcomes, the halves of `pick` and `prune`, a file that is deleted, refreshes and time |
| `pool_reload` | 568,424 | the roster and the cooldowns while credential files appear, vanish and are replaced between any two steps, refreshes of replaced files included |
| `housekeeping` | 130,400 | the task implements `Pool`, ends when asked to, and loads every file that stays |
| `refresh` | 60,430 | the token, its file and the server, with lost answers, failed writes, restarts and a login |
| `generate` | 47,912 | attempts, replays, the head of the stream, and that a generation ends |
| `anthropic` | 105,168 | the block protocol, and that nothing is lost, for every order of deltas and every end |
| `responses` | 261,504 | what of the protocol of items is kept, and that the terminal response is what was streamed |
| `pump` | 315,922 | both pumps with pings, stalls, a full channel, and clients and upstreams that end in every way |
| `shadow` | 395,640 | the store's accounting and what requests get back, under expiry, eviction and a second conversation |
| `requests` | 340,500 | calls and results stay paired, reasoning is that of the epoch or of the shadow, and a prefix once sent is sent again but for the shadow's part |
| `server` | 64,712 | the drain ends, cuts off only what it may, and the counters account for every request |
| `requests_prompt` | violation | the system prompt of an accepted request is not in what the upstream gets |

**Bounds.**  The pool runs take two accounts, one model and two files: two
accounts are what ranking, failover and a duplicate need.  `pool_health` has
three sessions and room for two bindings (`StickyMax`): the table gets full, a
third session makes `bind_sticky` evict, and there is an order of the deque to
get wrong.  Its first file may be deleted (`Deletions`), and a refresh writes it
again, so `prune` and its cleaning happen between the halves of `pick`.
Callers report 429s and refusals for want of credits; one level of credits
besides none makes the ranks.  `StickyTtl` is 1 and `ModelCooldown` 2 ticks, so
that a binding may be fresh, at the ttl and beyond it, and a 429 older and
younger than a binding.  `pool_reload` has no sessions and lets every file
become anything at any time, with the other kinds of cooldown, one tick each;
`ErrThreshold` is 2 in place of 3.
`MaxPicking` 1 bounds the callers between the halves of `pick`; that other
callers run meanwhile is in the model as the other actions.  `RrModulus` 2
stands for the wrap of `usize`.  Sessions and accounts are symmetric (no
liveness is checked there).  `refresh` takes one keeper and two requests, two
access tokens per login and one login from outside.  `generate` takes two
accounts, so that two failovers precede the last attempt when the environment
revives one of them, and bodies with each kind of head, an error and data
beyond the limit of the peek, an error behind data, and an error behind a
frame without data.

`anthropic` feeds six chunks over two tools (`MaxTools`), enough for two
thinking blocks, a text and both tools to interleave.  `pump` takes a channel
of one, three arrivals of which two may wait, and two configurations: all four
timers on, in the order of the defaults, and the two timers on progress alone.
`MaxAge` is the largest limit: an age beyond it is no different.  `shadow`
takes two sessions, room for one, three bytes, entries of one byte, and
histories of three messages with a turn of two calls and a turn of one: the
limit on sessions evicts the other session, the limit on bytes the session
itself, once its bytes count entries that have expired and are gone.  `Ttl` is
1, so an entry may be fresh, at the ttl and beyond.

`housekeeping` takes two accounts and two files, the first of which comes and
goes while the second may hold anything, an account that is loaded already
included.  It has no sessions, one kind of outcome with a cooldown of 0, and
one level of credits, because the task reads none of these.  `responses` takes
four chunks (`MaxChunks`) with up to two calls each (`MaxCalls`) over two
upstream indexes (`MaxTools`): a text, two calls, a late text or a late
fragment, and the finish reason; a failure may end it at any of them.
`requests` takes histories of four messages or of five items over two call ids,
enough for two turns of tools with a word by the human in between, for a reused
id, for results that are late, doubled or in another order, and for texts that
are empty, as blocks and as strings; each time, the shadow has any of the
turns.  `server` takes two requests, so that one may hold up the drain while
the other ends, and three signals, of which one may be lost.  The theorems need
no bounds.

**Fairness.**  Safety runs assume none.  In `Refresh`, a task that holds the
lock goes on, a request ends by its 15-second timeout (`GiveUp`) and a write
ends; nothing is assumed of the server.  In `Generate`, `ProxyFairness` covers
the proxy's own steps and the end of a refresh; `FairSpec` adds that the
upstream answers or the connection breaks, which the code takes for granted:
sending and the look at the head have no timeout, and the watchdog starts only
after `generate` returned.  Without the assumption `GenerationEnds` is false.

In `Pump` the runtime runs both tasks, time passes while the pump waits
(`WF` of `Tick`), and a client reads or leaves.  Nothing is assumed of the
upstream: the watchdog must end what it does not, so `PumpAssumption` asks for
timers that bound its silence (the configuration may disable all of them, and
then nothing does).  `ClientKeepsUp` says that in the end the client reads
within a ping interval.  It is needed: the `select` prefers pings, so a client
that is always slower keeps the pump sending pings, and neither the deadline
nor the bytes get their turn.

In `Server` the runtime polls the listener and the drain, and the deadline
comes; nothing is asked of clients, handlers, pumps or the upstream, so the
drain is shown to be bounded by itself.  In `Housekeeping` the task is polled
and its calls end by their timeouts of 15 and 30 seconds (`WF` of `TaskStep`).
The select takes its branches at random, so a branch that is ready again and
again is taken in the end (`SF` of `Stop` and of `Rescan`); without that a
ticker of the check-in that is always ready could keep the others out.

**Deadlock** is checked in every run but those of `Requests`, where a client
may have nothing more to say.

## Where documents and code disagree

The run `requests_prompt` checks invariant 4 of `docs/ARCHITECTURE.md:70`, that
nothing is silently dropped, for the system prompt, and TLC refutes it:
`anthropic/request.rs:47` normalises `system` inside the request, the body it
returns is built from the messages alone, and `responses/request.rs` does not
read `instructions`.

Twelve more definitions state what a document or a comment says and TLC refutes
them under an existing configuration.  No run checks them; each becomes one
when it is made the only property of a copy of that configuration.

| definition | configuration | who says it | what the code does |
|---|---|---|---|
| `Pool!CheckInRevives` | `MCPoolHealth` | `docs/RUNBOOK.md:59`: the next check-in revives an account out of credits | `set_credits` records the number; the cooldown of 12 hours stands |
| `Pool!OneEntryPerAccount` | `MCPoolReload` | `pool.rs:101`: a uid is loaded once; `credential.rs:237-239`: a refresh never changes the identity | a refresh takes the account of the file, which may have been replaced by that of an account that is loaded |
| `Refresh!FailuresShareRefresh` | `MCRefresh` | `docs/LOBSTERAI_AUTH.md:50`: failures share one refresh call | `force_refresh` does not look again under the lock |
| `Generate!FailsOver` | `MCGenerate` | `lobsterai/upstream.rs:8`: a 429 leads to another account | after a 401 and a refresh the account stays pinned |
| `Generate!ErrorHeadNoticed` | `MCGenerate` | `upstream.rs:526-531`: an error at the head is noticed before the stream is handed over | a head beyond `MAX_PREFIX_INSPECT_BYTES` without a frame boundary is handed over unseen |
| `Pump!IdleMeansSilence` | `MCPump` | `stream_watch.rs:60`: no bytes from the upstream | a pump that waited for its client looks at the deadline before it reads |
| `Shadow!LeastRecentGoesFirst` | `MCShadow`, with `MaxSessions = 2`, `MaxTotal = 2` | `reasoning_shadow.rs:22`: eviction by least recent use | a session is queued when new and never moved |
| `ResponsesStream!AddedNamesCall` | `MCResponses` | head of `responses/stream.rs`: never an item without call id and name | a call whose first delta has no id is added without one |
| `ResponsesStream!KeepsLifecycle` | `MCResponses` | `docs/RESPONSES_API.md:11-30` and `responses/stream.rs:467-469`: output items are sequential | calls are open side by side, an item of reasoning stays open until the end, and text behind a call goes to the message that is done |
| `Requests!ResultsFollowCalls` | `MCRequests` | `anthropic/request.rs:135-136`, its errors (159, 224), `docs/ANTHROPIC_COMPATIBILITY.md:33-36`: uses are resolved in the next user message | only the end of the history is asked to have none pending; a user message in between is accepted and sent between call and result |
| `Requests!PrefixKept` | `MCRequests` | `orchestrator.rs:273`, `deepseek/policy.rs:244`: the policy keeps the prefix stable | an entry of the shadow that expires, is evicted or cleared between two requests takes its reasoning out of a turn sent before |
| `Requests!CountSeesWire` | `MCRequests` | `orchestrator.rs:212`: exactly the normalizations of the wire path | `count_tokens` does not ask the shadow; system messages and empty texts move its epoch boundary |

With `FairSpec` replaced by `Spec`, the safety properties among them are found
sooner.  Smaller ones, which the modules follow without a definition: a
`message` item does not flush the pending calls, although
`responses/request.rs:185` says that calls are never merged across one;
`housekeep.rs:38` says that a pass is never cancelled halfway, but `serve` does
not wait for the task; a second signal is lost while the listener makes its
streams anew (`shutdown.rs:87`); `keepalive_due` (`pool.rs:463`) never refreshes
a token that is not expiring; a check-in that succeeds on its retry skips the
credits (`checkin.rs:457`).

## Proofs

`PoolProofs` proves, for every value of the constants allowed by
`StickyAssumption` and `PoolAssumption`, each property the pool runs check:
`TypeCorrect`, `StickyTableConsistent`, `RateLimitUnbinds`, `EntriesDistinct`,
`CooldownHolds`, `PickSound`, `SessionKeepsAccount`, `NoExpiredBindingSurvives`.

The argument is one inductive invariant, `IInv`, and none of the properties
is inductive alone:

* `RosterInv`: types, distinct paths, distinct accounts among the entries that
  are still of the account they were loaded for (`own`), and that the ids
  `prune` carries from the entries lock to the state lock still cover the
  accounts of those.  That is what makes `PruneState` harmless: only
  housekeeping loads entries, and it does so after the cleaning.  An entry that
  a refresh has moved to another account is excepted from both: two entries
  may be of that account then, and `PruneState` may forget its cooldown.
* `HealthInv`: types, and that no cooldown has more left than its limit.
  Without the bound a repeated outcome could shorten a cooldown.
* `Good(Table)`: types of the table and `Consistent`: every key once in the
  deque, in order of use, within the limit.  The first section of the module
  shows that each operation keeps it.  The order is what lets eviction stop at the first fresh
  front.
* `ReboundAfter429`: a binding of a cooling account is younger than its 429.

`InitIInv` and `StepIInv` establish it; each action property then follows from
`IInv` and one step.  `DequeProofs` holds the lemmas about increasing
enumerations that make `retain` usable: what it keeps, in which order.

Its last section proves that `Housekeeping` implements `Pool`
(`Implementation`), for any directory and any number of accounts, so everything
above holds of the pool under this task; `EntriesDistinctInPasses` is one such
consequence, in the passes that refresh tokens.  The step that is not obvious
is a report: `Pool` lets `NoteStatus` and `SetCredits` happen to accounts whose
credential was handed out only, and `Refresh` to such credentials.  `InHand`
says so of everything the task has in `todo`: the copy was taken of loaded
entries, loaded credentials are known, and `known` never shrinks (`KnownStep`),
however many of the accounts are dropped or replaced meanwhile.

`RefreshProofs` proves every safety property of the run `refresh`, for any
number of tasks, logins and tokens (`TokenHonoured`, `FileIsNew`,
`NewerWhenOk`, `KeeperRefreshesOnce`).  None of them is inductive.  `IInv` adds
that only the holder of the lock is at work (`OnlyHolderWorks`), so that what a
call has read is still what memory holds (`CallsReadMemory`) and an answer on
its way is newer than memory and honoured by the server (`AnswersAreNewer`);
that the file is of the login in memory or has the first tokens of a later one
(`FileInv`); and that, while every answer was stored, memory and file both have
the token the server honours, but for an answer on its way (`SettledInv`).  The
last is what a restart needs: whichever write the process died before, either
the login is unsettled or the file is good.

`ServingProofs` proves every safety property of the run `generate`, for any
number of accounts and a pool that changes at will (`Bounded`, `HeadIsHealthy`,
`SafeReplays`, `RetryIsPinned`, `NeverReturns`).  `BudgetInv` says what each
attempt was paid with: the beginning, a failover or the one refresh.  The
failovers stay within the number of accounts because the code compares their
count with the accounts loaded at that moment, which are never more than all;
the accounts themselves do not enter, as the pool may bring one back.
`AnswerInv` says which answers lead to another attempt, and that after a 401
the account to retry is the one that was used.  `LeftIsCooling` is why `NoReturn`
holds: what a generation left is in its cooldown until somebody revives it.
Both properties of the head and of the return have an exception that the code
makes: `HeadIsHealthy` a head that the peek gave up on, `NeverReturns` the
account pinned by a refresh, which is tried again without being asked for its
health.

Its second half proves the safety properties of `Server` for any number of
requests and signals (`Balance`, `GaugeSound`, `CutsOffLate`).  `ServerInv` has four
parts beyond types: the listener has counted no signal that was not sent
(`Counted`); a pump runs only behind a handler that returned (`PumpHasBody`);
exactly what runs holds a guard (`Guarded`); and there is no outcome before the
exit.  `Guarded` is what makes the gauge authoritative, and it is inductive only
because the guard moves into the pump in the same step in which the handler
lets go of it.  The balance of the counters is carried along with `ServerInv`, one
step moving at most one request from one of its summands to another.

`AnthropicProofs` proves that `AnthropicStream` with its client implements
`MessageStream` (`KeepsProtocol`) and that nothing is lost (`NothingIsLost`), for
any number of parallel tool calls and of chunks.  The difficulty is that the
client is behind: a chunk writes up to several events, and each is read on its
own.  The unread events are always a *script*: at most the beginning or an
error, then the ends of some blocks, one new block, one fragment and the end of
the message, in this order.  `Final` is the view a client has when it has read
a script, and the invariant says that it is what the converter remembers: which
blocks are open, of which kind, with how many fragments.  Each branch of
`feed_chunk` and `finish` writes a script of which this holds; reading takes its
head, which is a step of `MessageStream`, and leaves a script with the same
final view.  That needs three facts about the converter: tools have distinct
blocks; while it holds a thinking block, what starts or grows is that block; and
its end closes exactly what it holds.

`ResponsesProofs` proves that `ResponsesStream` with its client implements
`Spec` of `ResponseItems` (`KeepsProtocolOfItems`; not the documented
`Lifecycle`, which the code leaves) and that the terminal response is what the
client has assembled (`TerminalIsComplete`), for any number of calls in a
response and in a chunk and of chunks.  The client is behind here too, but a
chunk may write any number of frames, so they are not a script of a fixed form.
`Allowed(v, f)` is what the protocol allows a client with view `v` to read,
`Read(v, f)` its view behind that, and `Run(F, v, w)` says that the frames `F`,
read one after the other, are allowed and lead from `v` to `w`.  The invariant
`Ahead` is that the unread frames are a run from the client's view to one that
`Matches` what the converter remembers: item by item its kind, its fragments
and whether it is open, or, behind the end, the output of the terminal
response.  Runs compose (`RunConcat`), so each piece a chunk writes has a lemma
of its own: the new calls (`AddedRun`), their fragments (`FragmentsRun`), an
item that is closed (`CloseRun`), the calls that `finish` closes
(`CloseToolsRun`). `RunAlong` is the induction behind those, over the length of
a run, by its first frame that would break it.  The converter has to contribute
that an index belongs to one item and the item knows it (`Owners`), that the
two passes over a chunk agree on the slots (`SlotsAre`): the second finds each
fragment the index that the first gave its call; that only the message is
closed early (`Shows`), which is why a fragment for an item that is done can be
late text only; and that the first call closes it (`CallMayStart`).
`NextFrame` then gives both theorems: the head of a run is allowed, which is a
step of `ResponseItems` (`ReadsProtocol`), and behind a terminal frame nothing
is, so a client that has read one has read all.

`ExchangeProofs` is about the two halves of an exchange, the request and the
pump of its answer.  Its first half proves the three properties of the run
`requests`, for histories of any length over any alphabet that
`AlphabetAssumption` allows (messages and items with the fields the conversions
read) and any set of call ids: `PairsToolCalls`, `KeepsReasoningOfEpoch`,
`KeepsPrefix`.  The loops of the conversions are recursive functions.  What they
compute is reached through their sequence of states, a `MessageRun` or an
`ItemRun`, which `Iterates` shows to exist and whose last state they return;
an invariant of the loop is then a set of positions that has 0 and, with each,
the next one (`UpTo`, from the least element of a set of naturals).

* `Open(ms, P)` is the invariant behind the pairing: in `ms` every call is
  answered but those of `P`, each of which still waits.  A call may be appended
  when its id is not in `P` (`CallsOpen`), results of ids in `P` close them
  (`AnswersClose`), and `Open(ms, {})` is `Paired(ms)`.  For messages `P` is
  `pending_tool_uses`, so every accepted request is paired.  For items
  `Balanced` says that the calls without an output are those waiting in the
  messages and those in `pending_calls`; a history that is paired itself leaves
  none of either, so nothing is left to the last flush.
* `Traced(o, ms, i)` says which message each converted one was made from.  It
  gives that results stand right behind their calls, if they are all in the
  message after them (`ResultsBehind`), and that the last user message on the
  wire is made from the last one in which a human speaks (`ReasoningSince`);
  `CountedAlike` compares it with what `count_tokens` takes for the boundary,
  in a request without system messages and without empty texts.
* `AppliedIs` says message by message what the policy does when the shadow has
  the turns of a given set.  `RestoredSince` says of those turns that they are
  turns with calls behind the last human message, without thinking of their
  own, so what the shadow adds is apart from what the client sent
  (`ReasoningIs`).
* A run on a longer history goes through the same states first
  (`MessageRunsAgree`, `ItemRunsAgree`), so the conversion of the shorter one
  begins that of the longer.  `AppliedBegins` carries it over the policy: with
  the same epoch boundary the strip does the same to both, and in a paired
  request each call is before its last action (`CallsBeforeLastAction`), which
  is why the arguments were in canonical form when they were first sent.  What
  is left is the shadow: a message is sent again as it was if it is restored in
  both requests or in neither, and else differs in its reasoning only
  (`SentAgain`).

`WireInv` ties this to the states of `Requests`: what was sent is the
conversion of the accepted part of the history with the policy applied, for
some set of turns that may be restored.

Its second half proves the invariants the run `pump` checks, for every
configuration of the timers allowed by `PumpAssumption`, every capacity of the
channel and any number of arrivals: `TypeCorrect`, `ShadowIsReady`,
`EndBeforeRecord`, `NoSpin`.  The first three are not inductive, and
`PhaseInv` is what they need: what each phase of the pump has done.  Before
the end is decided on, nothing of it is written and the shadow is as before;
when it is, the outcome is known and the shadow is up to date, and stays so,
because no step after it writes either; the end is in the channel, or the
client gone, before the outcome is sent.  `AppendWrites` and
`ReadKeepsWritten` say how the channel's operations bear on that.

Its section on `Watch` proves `DeadlineIsStall`: for all limits and times within a year
of the start, `next_deadline` has passed exactly when `check` finds a stall.
`WakesToStall` is one half of it, in the states of `Pump`.  The other half is
that the pump never sleeps past a stall.  The argument takes one timer after
the other: the smallest of several times left is at most 0 exactly when one of
them is.

`ShadowProofs` proves every property of the run `shadow`, for any number of
sessions, any limits and histories of any length (`StoreIsBounded`,
`OwnReasoningOnly`, `ToolLoopKeepsReasoning`).  Sums of bytes are stated as the
number of units there are (`SumOf`), so that splitting a sum is splitting a set.
`Agrees` is the consistency of the store as a value.  `InsertAgrees` and
`WithoutRestricts` show that it survives an insertion and a removal, and
`EvictFits` that popping the front ends with both limits kept: if nothing else
helps, the empty store has no bytes, because the count is exact.  `OwnInv` says
that an entry under a call of a turn is of that turn; `DueInv` that a turn the
client may still rely on has an entry under each of its calls, of the turn's own
age.  A request drops entries too, but only expired ones, and no turn that is
due has one of those.  The first message of a history is the human's, which is
why a turn behind the last human message is behind the epoch boundary
(`EpochIsLastHuman`).

The type invariants stand in the modules as `TypeOK`.  Those of `Pool`,
`Refresh`, `Generate`, `AnthropicStream`, `ResponsesStream` (parts of their
`IInv`) and `Pump` are proved, and so is what `ServingProofs` needs of
`Server`'s and `ShadowProofs` of `Shadow`'s; no run repeats them.

Checked by TLC only: the liveness properties, which are out of the prover's
reach (`TaskStops` and `NewAccountsLoaded` of the housekeeping task,
`EveryCallReturns`, `GenerationEnds`, the two ways in which `Pump`'s streams end,
`GuardReleased` and `StreamCompletes`, and `SignalEndsProcess`).  Every other
property of a passing run is a theorem.  `PromptReachesWire` is violated.

## Not modelled

* Text: canonical JSON, SSE framing, prompts, schemas, redaction, errors,
  headers, metrics rendering, model tables.  Formatting and tables without
  control.
* Configuration and command line: read once, the constants of the models.
* The OAuth flow but for its result, a new credential file: it runs in another
  process.
* The aggregated answers (`stream=false`): a loop over the same converters and
  the same watchdog without client, pings or channel.  In `Server` they are
  `Answer`.
* Read-only routes: health, metrics, models, admin.

## Plan

1. `Pool` and `Refresh` composed over several credentials, each with its tokens
   and its lock: `Pool` has the accounts of credentials, `Refresh` the tokens of
   one.
2. `Requests` over the store of `Shadow`, in place of any subset of its turns.
3. The aggregated answers in `Pump`.
