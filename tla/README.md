# Verification of xmpp-translate-bot

The bot sits in XMPP group-chat rooms. A message that begins with its nickname
is translated through LibreTranslate, or looked up in a wiki or an emoji
dataset, and the answer is sent back to the room. This directory holds TLA+
models of the program's control, TLC runs that check them on small instances,
and TLAPS proofs that hold for every instance.

## The system

| Part | Source | State it keeps | Operations |
|---|---|---|---|
| Worker pool | `internal/pipeline/worker.go` | job channel, `stopped`, RWMutex, WaitGroup, `done` | `Start`, `Submit`, `Stop`, `worker`, `runJob` |
| Job processing | `internal/pipeline/worker_lookup.go`, `formatter*.go`, `command.go` | none between jobs | `process`, `processTranslate`, `processLookup`, `recordOutcome`, `respond` |
| LibreTranslate client | `internal/translate/libretranslate.go` | none between calls | `doJSON` with retries, backoff and a shared deadline |
| InfluxDB writer | `internal/observability/influx.go` | event channel, `done`, error counter | `Enqueue`, `run`, `send`, `Close` |
| Process | `cmd/bot/main.go` | contexts, deferred calls | `run`, `dispatchIncoming` |
| XMPP client | `internal/xmpp` | connection, 32-place inbox | `Start`, `SendGroup`, `joinRooms`, `handleMessage`, `handleError` |
| Readiness | `internal/observability/health.go` | two flags | setters, `/readyz` |
| Lookup sources | `internal/lookup` | emoji list, made at boot | `Look` of the wiki over the retries of `httpjson`; `Look` of the emojis |
| Configuration | `internal/config` | none after boot | `Load`: defaults, file, environment, `validate` |
| Metrics, logging, HTTP server | rest of `internal/observability` | counters, the server's socket | `NewLogger`, `ListenAndServe`, `Shutdown` |

How they interact. `run` loads the configuration and starts the parts one by
one, each with the deferred call that stops it. The library's callback
`handleMessage` puts a message in the inbox and blocks when it is full; `dispatchIncoming` drops the bot's own
messages and chatter and calls `Submit`, which never blocks. A worker runs the
job: it calls LibreTranslate once or twice, or the wiki up to three times, under
one deadline, or searches the emojis; it calls `Enqueue` on the Influx writer
(for translations), then `SendGroup`. On a signal `run` stops the pool (up to
10 s), cancels the connection, waits for it, and its deferred calls cancel the
languages fetch, close the Influx writer and shut the HTTP server down. If the
connection ends by itself, the pool is stopped and the deferred calls follow.

What is hard here: `Submit` and `Stop` racing on one channel; a worker pool that
must survive panics; `Stop` with a deadline that leaves busy workers behind,
which then meet a closed connection and a closed writer; a deadline shared by
calls that each retry; queues that drop when full and must count it; callbacks
of a library that come in an order nobody chose; a boot that fails half way.

What makes each part correct:

- *Pool*: nobody sends on or closes a closed channel; jobs are neither lost,
  doubled nor reordered; a drained `Stop` left nothing behind; `Submit` and
  `Stop` return even if jobs hang.
- *Job*: one answer per job, in agreement with what was recorded; the deadline
  is kept across both calls.
- *Clients*: what is transient is retried and what is not is given up, as the
  comments say; "not found" is told only if the wiki has no such title and its
  search answered, and a failure of either of those gets is told as a failure (a
  failure of the third get is told as "not found" on purpose, `mediawiki.go:112-115`);
  the emojis shown are the best whatever the map's order.
- *Writer*: every loss is counted; `Close` drains.
- *Process*: unless the drain deadline passes, every accepted job is answered
  while the connection and the writer are open; the process ends.
- *XMPP and readiness*: every room is joined, or known not to be, in every
  session; live messages reach the inbox once and replays do not; `/readyz`
  counts the connection in every session, a resumed one included. That it counts
  none that is gone is not so (`xmpp_ready`).
- *Configuration and boot*: the environment has the last word; a failed boot
  stops what it had started.

## Modules

| Module | Models | State and actions |
|---|---|---|
| `Dispatcher` | `worker.go` | One variable per field of the struct (`jobs`/`closed`, `stopped`, `readers`/`writer` for the RWMutex, `wg`, `done`), a program counter per goroutine (`sub`, `wkr`, `stp`), the job each carries, two metrics. Every step of `Submit`, `Stop`, `Start`, `worker` and `runJob` that another goroutine could observe is an action. |
| `JobLedger` | the pool's promise | The status of each job and whether the pool is open, aborted or drained. No channel, no goroutine. |
| `DispatcherRefinement` | | The refinement mapping from `Dispatcher` to `JobLedger`. |
| `InfluxWriter` | `influx.go` | `queue`, `closed`, `done`, the goroutine `run`, one closer, and what became of each event. A send on the closed channel is an action of its own, since nothing in the code prevents it. |
| `JobContext` | what `net/http`, `context` and timers do to a job | A clock in ticks, the deadline and the cancellation of the job's context; an exchange of bounded length that is answered, fails, or is cut by the client's timeout, the deadline or the cancellation; a sleep. Shared by the two clients. |
| `LTClient` | `doJSON`, `doOnce`, `backoffDelay`, `defaultSleep` | The loop (`attempt`, `lastErr`, `result`) and a history of how each exchange ended. |
| `WikiLookup` | `MediaWiki.Look` over `httpJSON.get` | The get `Look` is in, the attempts of that get, what it returns, a history of how each get ended. |
| `EmojiStore` | `newEmojiStore`, `scoreEmoji`, `Look` | Pure operators, over every order in which a Go map may be walked, beside a definition of the best answer that knows no order. A sort gives each element the place that so many come before. |
| `JobLife` | `runJob`, as the rest of the process sees it | A job works, hands over an event if it has one, answers and returns; a panic ends it without an answer. No commands, no sources, no clock. |
| `JobProcess` | `process` and what it calls | Extends `EmojiStore` and instantiates the two clients: two calls of `LTClient`, a lookup of `WikiLookup`, a search of the emojis. `recorded` and `answers` are what the metrics and the room see. It implements `JobLife`. |
| `Connection` | the XMPP client's promise | The link, the inbox and what was heard: a message enters the inbox at most once, and none before the first session. |
| `XMPPClient` | `client.go`, `message.go`, the connection flag of `health.go` | The library's sessions, their loss and its being noticed; `joinRooms` room by room; one handler for each packet, waiting for room in the inbox; the flag. It implements `Connection`. |
| `Bot` | `run` from its select on, `dispatchIncoming` | Composes `JobLedger` (the pool by its promise), `Connection` (the client by its promise), `InfluxWriter` (in full, fed by jobs), the languages goroutine and `run`'s own program counter through the select, `Stop` and the deferred calls. Each job is one of `JobLife`. Once `run` has returned nothing moves. |
| `Config` | `config.go` | `Load` as an operator from a file and an environment to a configuration or the reasons to refuse it. |
| `Boot` | `run` up to its select | `run`'s program counter, the goroutines it started, the calls it owes, how it is ending. |
| `MC*` | | Symmetry sets and constants for TLC. |
| `*Proofs` | | The theorems about the module of that name; `JobProcessProofs` has those about its clients too, and `DispatcherProofs` the refinement of `JobLedger`. |

The composition: what `Bot` assumes of its pool is what `Dispatcher` is shown to
do (`KeepsTheLedger`), and what it assumes of the connection is what
`XMPPClient` is shown to do (`ImplementsConnection`); that it asks no more of
them than their contracts allow is the theorem `PartsAsPromised`. Its jobs do what
`JobLife` has of a job (`JobsAsPromised`), and so does `JobProcess`, which is one
job in full (`KeepsJobLife`); a panic is possible in `JobLife` and in `Bot`, and
`JobProcess` has none. `Boot` ends where `Bot` begins.

```
Boot ── Config      Bot ── JobLedger  <== Dispatcher
                     ├──── Connection <== XMPPClient
                     ├──── InfluxWriter
                     └──── JobLife    <== JobProcess ── LTClient, WikiLookup
                                             │                │
                                             ├─ EmojiStore    │
                                             └─ JobContext ───┘
```

Operators with a suffix after an underscore (`Quit_undone`, `Leave_silent`, ...)
stand beside the definition they vary. They are plausible faults of the code,
and each property is known to fail under one of them. No specification uses
them.

Three choices deserve a word. The Go memory model is taken as sequentially
consistent between the synchronisation operations, all of which are modelled.
A Go `select` with two ready cases takes either. An unbuffered or buffered
channel hands a job directly to a parked receiver before it buffers one.

## Runs

| Run | Question |
|---|---|
| `pool_safety` | Two submitters and two stoppers race over two workers, four jobs, one place and a context that may be cancelled. All safety properties of the pool, the rule that nothing is accepted after `stopped`, and that each step is a step of `JobLedger`. |
| `pool_liveness` | Two jobs, two of each other actor. `Submit` and `Stop` return though jobs may hang; if jobs end, accepted jobs are settled and `Start` returns. |
| `influx_writer` | Five events over two places: overflow, failed writes, `Close` at any moment. |
| `job_process` | Every command, every length on both sides of each limit, a source enabled or not; every way LibreTranslate and the wiki can answer or fail, one retry of each, any length of each exchange, cancellation at any tick; pairs in which a language occurs twice and one that leads to itself; an emoji dataset in all its orders. The safety properties of a job, and that each step is a step of `JobLife` or shows nothing of the job: one event for a translation that asked for something, before one answer, and for every other job the answer alone. |
| `xmpp_client` | Two rooms, a message in each, an inbox of one place, a session lost and resumed: joins that succeed, fail or are refused, replays, private messages and presences, callbacks in any order; the flag of `/readyz` in the first session and in the resumed one. |
| `bot` | Two mentions, their echoes, an inbox and a sink of one place: shutdown order, loss of the connection and signal in any order, jobs that may hang; the process ends and mentions are decided. |
| `boot` | A configuration that boots the bot, with up to two variables missing or written otherwise, or one and a file that writes one setting: some 20,900 configurations, each with every interleaving of the server and languages goroutines. |

Five runs are expected to find a violation; each shows a disagreement between
the code and what is written beside it.

- `bot_late_panic`: a job that outlives the drain deadline calls `Enqueue` after
  the deferred `Close` and panics on the closed channel. `runJob` recovers it,
  but its answer and its event are lost. JobTimeout's defaults are longer than
  the 10 s drain, so this is an ordinary slow shutdown.
- `job_timeout_message`: when the deadline falls in a backoff, the user is told
  that the service is unavailable and not, as `formatter.go:67-71` has it, that
  time ran out.
- `pool_no_workers`: with `WORKER_POOL_SIZE=0`, which the configuration accepts,
  `Stop` reports a drained pool with jobs still queued.
- `boot_no_emoji`: with `EMOJI_ENABLED=false` the boot panics at `main.go:122`, so
  the answer of a bot with !emoji disabled can never be given.
- `xmpp_ready`: a session can be lost, and the loss noticed, before its
  `joinRooms` runs, which then sets the flag all the same: `/readyz` reports a
  connection, though `health.go:9-10` and `health.go:23` have it say whether one is
  active at the moment.

More disagreements were seen and are not runs.

- `JobTimeout` claims to cover every attempt of one call but leaves out the
  backoffs between them.
- `httpjson.go:21-23` retries the network, 429 and 5xx, and `httpjson.go:95-97`
  adds errors of transport except the end of the context itself. The code also
  retries a 200 whose body does not decode (`httpjson.go:106`), and does not retry
  a request that the HTTP client's own timeout ended (`httpjson.go:103`), since
  that error wraps `DeadlineExceeded`. `WikiLookup` has both; `RetriesAsTold` says
  nothing of either.
- `libretranslate.go:146-148` calls a timeout transient, but one that falls within
  the body of a 200 makes it undecodable and is not retried. `LTClient` has it
  (`body_timeout`), and `RetriesAsTold` says nothing of it.
- The environment that the configuration's tests call required
  (`config_test.go:11-27`) does not load, for want of `WIKI_USER_AGENT`, and the
  same test wants a default target that `config.go:113` does not have.
- Nothing takes the flag of `/readyz` down when the client ends (`client.go:117-134`);
  the process is about to end as well.
- `worker.go:77-79` says the context of `Start` does not reach a job, but
  `worker_lookup.go:52` derives the job's context from it; `run` never cancels that
  context.
- `LT_MAX_RETRIES=-1` makes `doJSON` return without a request and without an
  error. A job notices, since `Detect` takes the list that was never filled for an
  error: every translation is refused (`NegativeRetriesTranslateNothing`). The
  languages fetch does not, and takes the empty list for LibreTranslate's answer.

### Bounds

Every run is finite by its constants, and the models count nothing beyond them.

- Jobs and events are offered once each. In `pool_safety` four jobs exceed what
  one place and two workers hold, so the channel fills and overflows and direct
  hand-off, buffering and dropping all occur. Two submitters, two stoppers and
  two workers give every pairwise race. `influx_writer` has more events than the
  channel and `run` hold.
- `JobContext`'s clock advances by whole waits and stops when the job does.
  `LTTimeout` is 6 ticks, `WikiTimeout` 3, `BackoffBase` 5, the budget 12: a
  backoff can be shorter or longer than what is left, and the wiki's three gets
  with their retries do not fit. One retry of each client has every case of the
  loop: the first attempt, another, none left.
- `bot` has no `Chatter`: what is said to others takes the branch of the echoes.
- The inbox of `Bot` and of `XMPPClient` has one place instead of 32: full and
  empty are what matter. `MaxSessions` is 2: the first session and one resumed,
  which is what `joinRooms` tells apart. Two rooms show what one failed join does
  to the next.
- `Boot` finds configurations that differ in two settings from one that works:
  every pair of faults, as the validation collects some, stops at others, and the
  wiki's replaces all. A value is a member of the few kinds the program can tell
  apart (`Config`, first comment).

### Fairness

- *Scheduling*: a goroutine that can take a step eventually does (weak fairness
  per goroutine). Calls that have not begun are never forced to begin.
- *Timers* fire: the drain deadline of `Stop` and the Shutdown deadline.
- *Jobs* are not fair in the specifications. `SettlesWhatItOwes` and `StartEnds`
  say so explicitly (`JobFairness => ...`); it holds in the program as every job
  has a deadline, which `job_process` checks (`JobEnds`).
- *Requests* of the Influx writer end, which assumes a positive
  `INFLUX_TIMEOUT_MS`. With 0 there is no limit and `Close` may wait for ever.
- *The XMPP library* ends when it is told to, within about twice its connect
  timeout (`client.go:121-128`). It is external.
- *Handlers* that wait for the inbox are served in turn, as a Go channel does
  (strong fairness of `HandleMessage`, of live messages only), and
  `dispatchIncoming` receives, since `Submit` returns (`CallsReturn`). Sessions,
  joins and people owe nothing.
- *A job's step*: `job_process` assumes that the worker goes on, answers and
  timers included; each is bounded by a timeout of `JobContext`.

## Proofs

Every safety property of the runs that pass is a theorem for every value of the
constants. Each module about a state machine has
one inductive invariant, a conjunction of named parts; the steps that preserve
it are lemmas, one for each group of actions, and a theorem is what the
invariant implies. A few theorems need a part of their own, which is proved
beside it. TLC checked each property on the small instance before it was
proved on all of them.

### `DispatcherProofs`: the pool

For any finite set of workers, any capacity and any sets of jobs, submitters and
stoppers:

| Theorem | Statement |
|---|---|
| `TypeCorrect` | `Spec => []TypeOK` |
| `ChannelSafety` | nobody sends on or closes a closed channel |
| `NoLateArrival` | nothing is accepted once `stopped` is set |
| `OrderKept` | first in, first out |
| `PanicsAreContained` | a panic never costs a worker |
| `DoneIsLast` | `done` is closed after the last worker left |
| `EachJobOnce` | a job is in one place |
| `DrainIsComplete` | with at least one worker, drained means settled |
| `GaugeCounts` | the gauge is the number of jobs being run |
| `BacklogBounded` | no more jobs are owed than the channel and the workers hold |
| `LedgerImplemented` | with at least one worker, `Dispatcher` implements `JobLedger!Safety` |

None of these invariants is inductive. The inductive one is `IInv`, in three
layers:

- `SafeInv` has the types, `LockInv`, `StopInv` and `QueueInv`. `LockInv` says
  that the readers of the mutex are exactly the submitters inside `Submit`, and
  that a stopper past `Lock` excludes them. `StopInv` then gives what `Stop`
  needs: a submitter about to send has seen `stopped` false and still holds its
  read lock, so the channel cannot be closed under it. `QueueInv` says that a
  parked worker means an empty channel, without which a hand-off would overtake
  the buffer.
- `CountInv` ties the WaitGroup and the gauge to the sets of workers they count.
  That the counters never go below zero, and that `wg = 0` after the spawning
  loop means that every worker has left, follow.
- `PlaceInv` says where each job is: who carries it, that it is buffered once,
  that an unsettled job is held by somebody.

`DrainIsComplete` combines them: `done` implies that all workers have left; one
leaves only when the channel is closed and empty; what is neither buffered nor
carried is settled. The assumption `Workers # {}` is what `pool_no_workers`
shows to be needed. `GaugeCounts` and `BacklogBounded` carry `CountInv`'s
workers over to the jobs: a worker carries one job and a job is in one place, so
the jobs in hand and those who hold them are in bijection. The refinement proof
takes each action to a ledger step or a stutter; the report that ends `Stop` uses
`DrainIsComplete`.

### `InfluxWriterProofs`: the writer

`SinkTypeCorrect`, which includes that the channel holds no more than its size,
`LossesCounted` and `CloseDrainsQueue`, for any finite set of events and any
size of the queue. `SinkInv` has the counter as the number of lost events, the
queue as the events that are queued, each once, the event in hand as the one
being sent, and what each state of `run` and of the closer says of the channel:
`run` leaves only a closed and empty one. Without the last a drained `Close`
could not be told from an early one; without the second the counts would not
follow.

### `XMPPClientProofs`: the client

`EveryRoomAccountedFor`, `ReadyOnceJoining` and `ConnectionImplemented`, for any
rooms and messages and any number of sessions. `ClientInv` has, beside the types,
`JoinInv`: until `joinRooms` has run for a session no room counts as joined, and
from then on every room is joined, given up or still to come; `FlagInv`: the flag
is set from the start of `joinRooms` until the loss of the session is noticed
(that it is down after that is false, see `xmpp_ready`); `HeardInv`: a live packet on the wire is of a message that was
said and not yet heard, which is why the inbox gets it once. The refinement takes
each action to a step of `Connection` or a stutter.

### `JobProcessProofs`: a job and its clients

For any retries, negative ones included, any timeouts, any list of pairs and any
dataset:

| Theorem | Statement |
|---|---|
| `JobTypeCorrect` | types and the bounds of the histories |
| `OneAnswer` | a job that ends answered once |
| `OneStory` | the recorded outcome and the answer agree |
| `NoFeignedTranslation` | a translation was made, a text left alone was in its target language |
| `OneBudget` | a job fits into one `JobTimeout` |
| `RetriedAsTold` | what may pass is given up only when the retries are used up or the context ended; what the comments rule out is not sent again |
| `NotFoundIsTold` | "not found" is the wiki's word |
| `AnswerIsWhole` | what is shown is what the wiki last sent, with its alternatives |
| `BestEmojisShown` | the emojis shown are the best, and "not found" means that none matches |
| `JobLifeImplemented` | `JobProcess` implements `JobLife` |
| `NegativeRetriesTranslateNothing` | with negative retries no translation is made and no text is left alone as translated |

`JobInv` has a part for each thing that is remembered across steps. `ClockInv`
keeps the deadline where the job set it; the lemmas `AskClock` and `LookClock`
show that no exchange and no pause goes beyond it. `CallInv` says of `doJSON` at
work that all its exchanges so far failed in a way that may pass and that the
attempt is one more than they, and that one returned was given up for one of
the reasons the comments allow; `IdleInv` that the clock starts before the first
call; `LookInv` says which answers led `Look` to the get
it is in. `AskInv`, `StoryInv` and `PageInv` tie them to the answer that is
chosen, from the moment it is chosen to the moment it is handed over. `OneStory` rests
on `ErrorsAgree`: the two functions that name an error for the metrics and the
two that word it for the room, written apart in the code, sort every error
alike. `NoFeignedTranslation` rests on `TargetOfFirst`: the loop of
`ResolveTarget` takes the first pair, whatever the list.

Three parts stand beside `JobInv`. `EmojiInv` says that the list is one that the
boot can have made and that the answer follows what `Look` made of it; the rest
of `BestEmojisShown` is about the operators (next section). `KindInv` says
where only a translation can be and where only a lookup, so that a lookup is
never at the stage that hands over an event. `NothingAsked` is what negative
retries leave of a job: no exchange, no language, no second call.

### `EmojiStoreProofs`: the emojis

| Theorem | Statement |
|---|---|
| `ListIsDeterministic` | the list is the same for every order of the map |
| `AnswerIsBest` | what `Look` finds in the list is the best of the dataset: the highest ranks, in order, as many as may be shown |
| `BestIsUnique` | there is one best answer, so `AnswerIsBest` leaves `Look` no choice |

They hold for any dataset and any query. What `sort.Slice` does is usually an
induction over the sequence; here it is none. Where a strict order tells the
elements of a finite set apart, what comes before an element is a proper part of
what comes before any later one (`BeforeGrows`). So no two elements have equally
many before them, and as all these numbers lie between none and one less than
there are elements, each is taken by one element (`PlacesTaken`, by the
pigeonhole principle for injections). `SortedTakesAll` reads the sorted sequence
off that. `RankIsStrict` shows that score, length of name and character together
are such an order, which is where a comparison that forgot the last tie-break
would fail. `Look` sorts positions of the list and the answer is
defined over characters: `LookIsBest` carries one to the other through the
list's own order (`ListOfNamed`). `BestInPlace` is the converse, that in any best
answer each emoji stands behind as many as outrank it. The two inductions that
remain, over the steps of an answer, are replaced by the first position that
fails (`FirstOf`), which exists as strict inclusion of finite sets is well
founded.

### `BootProofs` and `BotProofs`: the process

`NothingIsLeftRunning`, `PanicsKnown` and `OnlyCompleteStarts` hold for any
configurations that may be found (a queue size below zero or beyond what `make`
allocates is one of the kinds of value, and panics): `UnwindInv` says that what runs is what is
still owed a deferred call, `LoadInv` what the configuration that `Load`
returned satisfies (`LoadIsSound`).

`NoLateAnswer`, `SinkClosesLast` and `ExitSettles` hold for any
finite set of messages, any inbox and any queue. `BotInv` ties `run`'s program
counter to what it has closed (`OrderInv`), the pool's ledger to where each job is
(`LedgerInv`), and says of everything that came too late that the pool was not
drained (`LateInv`). What the writer does inside the process is not proved again:
`BotProofs` instantiates `InfluxWriterProofs` with the messages for events and
uses its lemmas. `PartsAsPromised` closes the composition from above: every step of
the process is one that the contracts of its parts allow. `JobsAsPromised` adds
the jobs: each goes through the stages of `JobLife`, whatever the shutdown does
meanwhile. Its part `LifeInv` says that a job before its event left no event and
before its answer no answer; `EventsStay` that the sink's own goroutine and
`Close` touch no event that was not handed over.

### Assumptions

They are in the modules that declare the constants, and TLC evaluates them.
`Dispatcher`: finitely many workers, a natural capacity, actors that differ,
placeholders that are not jobs or processes. `InfluxWriter` and `Bot`: finitely
many events and messages, natural sizes (a negative one, or one that `make`
refuses, panics before the model begins, see `PanicsAreKnown`; one that `make`
accepts and memory cannot hold ends the process, which no model has), a placeholder that is none of them.
`XMPPClient`: each message has its room, an inbox with at least one place, as 32
has, a natural number of sessions.
`JobContext`: retries and timeouts are integers; a timeout of zero or less is
none, as for `http.Client`, and time is unbounded, so that the product in
`JobTimeout` does not overflow. `JobProcess`: the pairs are
a sequence. `EmojiStore`: finitely many characters, told apart by a number, each
annotated with texts; a text has a length and one of four relations to a query;
at least one emoji may be shown, as `NewEmojiStore` puts 8 for anything less. `Boot`: what is found is a file and an environment, and has no
setting that does not exist.

`DoneIsLast`, `EachJobOnce`, `SinkTypeCorrect`, `PartsAsPromised`,
`JobsAsPromised`, `OneAnswer` (which `KeepsJobLife` contains),
`NegativeRetriesTranslateNothing` and the theorems of `EmojiStoreProofs` are
proved and no run checks them by name.

### What the proofs changed

- The bounds of `RetriesAsTold` and `SharedBudget` were false for
  `LT_MAX_RETRIES < -1`, which the configuration accepts and no run takes: a
  number of exchanges is at least none, and a deadline in the past lets nothing
  wait. They now say so.
- `ErrorKind` and `LookupErrorKind` had cases that overlap. A `switch` takes the
  first that fits, a `CASE` any. The cases now exclude each other, and a 404
  of the wiki's search is of the kind `http`, as `worker_lookup.go:168-180` has it.
- Sorted sequences were built with an operator that chooses one and filtered with
  a fold, of which nothing can be proved for sets of any size. They are now given
  by the places of their elements.
- `EmojisAreTheBest` said nothing of an answer without emojis. It now says also
  that "not found" is told if and only if nothing matches.
- `Detected` let a job go on with a language that no attempt had sent, when
  retries are negative. It now needs an answer, as `Detect` does
  (`ErrNoDetectionResult`).
- `ReturnsTheLast` was added to what `TranslatedForReal` says: it needs
  `MaxRetries >= 0`, without which `doJSON` reports a success nobody sent.

### Model-checked only

- Liveness (`CallsReturn`, `SettlesWhatItOwes`, `StartEnds`, `CloseEnds`,
  `JobEnds`, `LiveMessagesGetThrough`, `RunReturns`, `MentionsDecided`): the
  provers do not reason about fairness or `ENABLED`.
- The two properties of `bot_late_panic` and `job_timeout_message`, and the like:
  they are false.

## Not modelled

- `ParseMention` and `ParseCommand`: `Bot` and `JobProcess` take what they return
  as a choice. They match characters, and where they are delicate (a space of
  several bytes after the nickname) is below the models' grain.
- `IsSelf` (`message.go:49`): that an echo of the bot is told from a mention by
  the nickname of the sender is taken as given (`Said`, `Echo`).
- The text of the answers, the line protocol, JSON, URLs, the folding of accents.
- The registration of metrics and the text of the log. `languages_ready`, set
  once and read by `/readyz` alone.
- The XMPP library, the rooms and the servers: their moves are free choices in
  `XMPPClient` and `JobContext`. The library is taken to call `joinRooms` once
  for each session and never concurrently (`client.go:59-62`).
- The boot of the XMPP client itself (`fluux.NewClient` failing is `Fatal`).
- `weather.go` and `geo.go`, which hold no code.

## Plan

What the models promise is checked and, but for liveness, proved. What could be
added:

1. `ParseMention` and `ParseCommand` over short sequences of character classes,
   for the boundary after the nickname.
2. An abstract specification of the boot, to state that `Boot` ends where `Bot`
   begins as a refinement and not only in words.
