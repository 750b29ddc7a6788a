# Chronometrics: a TLA+ development

Chronometrics ingests events over HTTP, holds them in a bounded in-memory
buffer, writes them to ClickHouse in batches, and answers aggregate queries. It
is one Go process. These modules model the parts of it whose correctness
depends on interleavings, deadlines, retries, crashes and word sizes; TLC checks
them on small instances, and TLAPS proves every safety property of every component,
and that the buffer implements the safety part of its abstract specification,
for every value of the constants.

## 1. Inventory

| Component | State | Operations | Talks to |
|---|---|---|---|
| Buffer (`internal/buffer`) | channel `ch`, local batch of the loop, channel `flushTrigger`, `done`, WaitGroup, 4 workers with a batch and an attempt each | `New`, `Start`, `Publish`, `runFlush`, `dispatch`, `drainBatch`, `flushOnce`, `flushWithRetry`, `Close` | handlers call `Publish`, `shutdown` calls `Close`, workers call `Repository.Flush` |
| App (`internal/app`, `cmd/ingestor`) | the signal's context, where shutdown stands, its 10 s deadline | `Build`, `Run`, `shutdown` | starts and stops everything |
| Handlers (`internal/handler`, `internal/ingest`) | one counter per route's limiter; otherwise per request | middleware, limiter, `handleIngest`, `handleBulk`, `handleMetrics`, `handleHealth` | `Publish`, `Query`, `Health` |
| Domain (`internal/domain`) | none | `Validate`, `NormalizeTimestamp`, `ComputePayloadHash`, `ToEvent`, `ValidateQueryParams` | called by handlers |
| Repository (`internal/repository`) | the connection | `Connect`, `ApplyMigrations`, `Flush`, `Query`, `Health`, `Close` | ClickHouse |
| Config (`internal/config`) | none after `Load` | `Load`, `loadDotEnv` | the environment, `.env`; read by `Build` |
| Migrations (`internal/repository`, `migrations/`) | the table | `RunMigrations`, `ApplyMigrations` | ClickHouse |
| Logger, metrics, health | none, but the metrics | | |

What is hard here, and what makes each part correct:

- **Buffer.** Publishers, a loop, four workers and `Close` share two channels
  and a WaitGroup. Correct means: no accepted event is lost or duplicated
  inside the process, memory is bounded, `Close` returns nil only when all is
  settled, the drain ends, nothing is sent on a closed channel.
- **App.** Three stops in a row under one deadline. Correct means: the
  connection outlives the workers, a clean shutdown leaves nothing in memory, a
  signal ends the process.
- **Start-up.** Load, connect with back-off, migrate, start the buffer; each
  step may fail, and a crash anywhere leaves the table as it is. Correct means:
  the configuration is the one that was asked for, a failed `Build` leaves
  nothing behind, a later start gets through whatever an earlier one left, no
  event is taken before the table can hold it, a signal ends it.
- **Handlers.** Bulk requests fail in part. Correct means: the replies let a
  client send again exactly what is missing.
- **Query.** Two reads of a table that grows and holds duplicates. Correct
  means: each event counts once, at some moment of the request, and the request
  ends by its deadline.
- **Domain.** Unsigned arithmetic and a canonical form. Correct means: no
  timestamp wraps into the window, a retry gets the same key, two different
  events do not.

The hazards, each at its line and with the properties aimed at it, are in
`PROJECT.json`.

## 2. Modules

| Module | Models |
|---|---|
| `Buffer` | `buffer.go`: one action per step of each goroutine |
| `BufferProperties` | what must be true of it, and its mapping to `Delivery` |
| `Delivery` | the abstract promise: accepted events are persisted or given up, a batch at a time (`Safety`), and eventually (`EveryEventSettles`) |
| `BufferDepth` | `Buffer` with the depth gauge: each reading and each `Set` is a step |
| `App` | `Run`, the server's life and `shutdown`, composed with `Buffer` |
| `Ingest` | middleware, limiters, single and bulk requests, and a client that retries |
| `Query` | `GET /metrics` against a table that is written to at the same time |
| `Domain` | from a raw event to its sorting key, and from a request's bounds to the rows it counts |
| `Config` | `Load` and `loadDotEnv` as operators on an environment and a file |
| `Startup` | `main`, `Build`, `Connect`, the migrations, again after each crash; uses `Config` |
| `BufferProofs`, `DeliveryProofs` | the theorems on `Buffer`: its shutdown protocol; its events, and that it implements `Delivery` |
| `AppProofs`, `IngestProofs`, `QueryProofs`, `DomainProofs`, `StartupProofs` | the theorems on each of the others |
| `DataLemmas` | induction and the facts on sequences, sums and finite sets that the proofs share |
| `MC*` | the values of the constants for TLC |

### Buffer

`ch`, `batch`, `flushTrigger`, `done` and `wg` are the code's. `loop` is the
line of `runFlush` its goroutine is at: `select`; `send` and `sendDrained`,
blocked in `dispatch`; `drain`, in `drainBatch`; `return` and `closed`, between
the deferred calls. `worker[w]` is `range`, `flush` or `sleep`. `closer[c]` is
`checked` between the test of `b.done` and its close. The batch of
`drainBatch`, which shadows the loop's, shares the variable `batch`: the loop's
is empty by then (part of the `Lifecycle` argument; the mutant
`SeeDoneForgetsBatch` shows what happens otherwise).

An attempt that reports an error may have written any part of its batch: the
answer may be lost after the insert, and the table is partitioned by month, so
that an insert into several partitions is not atomic. An attempt can fail when the database does
(`DbFaults`) or once the context given to `Start` is cancelled (`ctxDone`), from
which each attempt's context is derived. `rows`, `dropped`, `reply`, `admitted`
and `atClose` observe; no step of the buffer reads them, except that an event is
offered once.

Every panic stops the process (`~panic` guards every action).

### App

`App` takes the buffer's actions as they are. `ctxDone` is the signal's context:
`main` passes it to `Build`, which passes it through `startBuffer` to
`buf.Start`, so the same context ends `Run` and the flush attempts. `deadline` is
the one context of `shutdown`; `Close` may expire only when it has passed. When
`main` returns, nothing moves any more, drain or not. `ServerFails` is
`ListenAndServe` returning an error, which is only logged.

### Ingest, Query, Domain

`Ingest` publishes item by item into a channel of which only the depth matters;
`gone` is the request's context. The client is external: it does what the
statuses and item codes ask; `Unpublished` is what it sends again after a 202. `broken` items are the errors of the use case that
are neither of validation nor of publishing.

`Query` identifies an event with its sorting key and counts its physical rows.
`Refuse` is `handleMetrics` replying 405 to what is no GET, or 400 to parameters
that are not valid; `Begin` is the call of `Query`. `Answer` is `conn.Query`
returning rows and `Fail` its error; `ScanTotals`, `ScanGroup`, `LastGroup` and
`CutShort` are the outcomes of `rows.Next`, and `ScanFails` is an error of
`rows.Scan`, always a 500. An error drops what was counted (`ReplyError`), and
with the reply the request's context is gone. `handleMetrics` sends only values of
`group_by` that `Query` knows, so its `default` branch is not reached. `before`
(what was stored when a request began) and `cut` (what `qctx.Err()` was when
`Next` stopped too early) observe; no action reads them.

`Domain` scales words to 8 bits, the second to 4 ms and the threshold with them,
and treats the hash as injective. `Sorted` is *an* ascending order of the tags,
whatever `sort.Strings` does to find it. An absent priority and an empty one have the
same hash in the code, and are the same in the model. `Bound`, `ValidRange` and
`Counted` take the other side: what a request's `from` and `to`, in seconds or
milliseconds, mean to the query. `Moment`, in whole numbers that never wrap, is
what a client means by either.

### Config and Startup

`Config` keeps of a variable's text its kind (a number, a duration, another
word, nothing) and of the settings those the program acts on; a value that does
not parse is ignored, an older variable (`BUFFER_CAPACITY`) is read after the
newer one and wins. A required variable that is missing is an error although it
has a default.

`Startup` has one process. `main` is where `main`, `Build` or `Connect` stand:
`load`, `open`, `ping`, `backoff`, `migrate`, `startBuffer`, `compose`,
`running`, and the three ends `failed` (main logs the error and returns),
`stopped` and `crashed`. `attempt` and `delay` are `Connect`'s; a delay above
`MaxDuration`, the largest int64 of the code, wraps; `file` counts the migrations this start has
applied. `table` is the database's and survives: `absent`, `old` (made before
there was a priority), or `full`. A migration that reports an error may have
run, and a crash may come after the statement and before the answer. `refused`
records that a statement met a table it does not fit. `buffer` is the flush
goroutine, which panics in `time.NewTicker` if the configured interval is not
positive. From `running` on `App` has the details; here a signal stops the
process in one step.

## 3. Runs

| Run | Instance | Shows |
|---|---|---|
| `buffer_safety` | 4 events, channel 2, batches of 2, trigger 1, 2 workers, 2 closers, faults; symmetric | all safety properties of the buffer |
| `buffer_full` | 5 events, every limit 1, 1 worker | the bound on memory, where all queues fill |
| `buffer_live` | 3 events, 2 attempts, no symmetry, fair | `Delivery` refined, the drain ends, duplicates bounded |
| `buffer_accepting` | 2 events | **violated**: `Publish` accepts after `Close` (finding) |
| `gauge_stale` | 2 events | **violated**: the gauge stays wrong (finding) |
| `app_shutdown` | 3 requests, 2 workers, faults, fair | the order of shutdown and its deadline |
| `app_loss` | 2 requests, no faults | **violated**: the drain's flushes fail under the cancelled context (finding) |
| `ingest` | a bulk request of 4 items, a refused one, a single one; 2 tries; channel 1, limit 1 | replies are exact enough for a retry |
| `query` | 3 events, one with up to 2 rows, 3 requests, fair | totals, groups, ranges, termination |
| `query_timeout` | 1 request | **violated**: a deadline between two rows gives 200 (finding) |
| `domain` | all 8-bit timestamps, all payloads of 1-byte strings and 2 tags, in pairs; 36 ranges | window, keys and ranges |
| `startup` | 18 machines, 3 tables, 2 starts, 16-bit durations; fair | configuration, back-off, clean-up, migrations, signal |

Why the bounds are enough: a batch of two among four events leaves both a full
and a partial batch, two workers can hold different batches and a third can wait
in `flushTrigger` while the loop blocks on a fourth; two closers are the least
for the race; a trigger of 1 blocks the loop as 4 does. The field ambiguities of
the canonical form need only empty and one-byte strings; two events with a byte 0
in a channel or a campaign are accepted too, and do share a key: the hypothesis of
`OccurrencesKeptApart` is needed. In `query` one event lies below the boundary of
two adjacent ranges and two on it, in different groups; the doubled one is on the
boundary, where a duplicate would spoil the totals, the groups and the sum of
the ranges alike; the third request is no GET. The machines of
`startup` differ in one respect each: a required variable in neither place, in
the file, in both; older variables on either side; values that do not parse or
are out of range; intervals that are not positive; seven attempts with a delay
that would wrap at the third; a first delay above the maximum. Two starts let
the second meet everything the first can leave, and the three tables what any
earlier one has. Symmetry is used for
safety alone. `MaxTries`, `MaxCopies`, `MaxTicks`, `MaxAccepted` and `MaxStarts` are the only
bounds that are not the code's. Every property of a passing run has a mutant of
the code that it catches, and `AdjacentRangesAddUp` one for each side of it; a mutant stands just before the definition it varies,
and `PROJECT.json` pairs them.

**Fairness.** The loop, each worker and a waiting `Close` run whenever they can;
the ticker fires again and again; `select` does not pass over a ready `b.done`
for ever (Go picks among ready cases at random). A worker's step is fair because
each attempt has a deadline. Nothing is assumed of publishers, of the caller of
`Close`, of clients, of the signal or of the database: its success is never
required. In `App` a handler may hang for ever; the ten seconds pass. In `Query`
only the deadline and the return of a call whose context has ended are fair. In
`Startup` the main goroutine runs, and pings (which have a deadline of their
own) and statements return; the timer of a back-off is *not* fair, so
`SignalEndsStartup` says that a signal need not wait for it.

What liveness does *not* promise is part of `Delivery`: a `late` event, accepted
after `Close` began, may stay where it is, and a batch may be given up.

## 4. Proofs

Every safety property that a passing run checks is a theorem, for every value of
the constants that the named assumptions allow. An assumption says what the code
or its environment guarantees: sizes that are at least 1 and finitely many
workers (`Buffer`), one caller of `Close` (`App`), items that are distinct
(`Ingest`), finitely many events and bounds that are natural numbers (`Query`),
a clock after 2001 and a window that does not wrap (`Domain`), delays of which
twice the value fits in a Duration (`Startup`).

### The buffer

`BufferProofs` is about goroutines and channels. `TypeCorrect`,
`LifecycleHolds`, `CloseProtocolHolds`, `NoEventVanishes` and `PanicFree` follow
from the inductive invariant
`IInv == TypeOK /\ Lifecycle /\ CloseProtocol /\ NothingVanishes /\ NoPanic`
(`Invariance`), and `CloseDrains` is `IInv => CloseMeansSettled`. `TypeOK` is not
inductive alone: that `wg` stays at or above zero needs `Lifecycle` (the counter
is the number of goroutines that run), and so does the bound on `batch`.
`NothingVanishes` needs that a worker in `range` holds no batch. `NoPanic` needs
that `flushTrigger` is closed only after the loop's last send, and that `done`
was set by a caller of `Close`. `CloseDrains` combines them: at `wg = 0` loop and
workers are gone and hold nothing, the channel is empty of what was admitted
before `done` (`CloseProtocol`), so by `NothingVanishes` those events are
settled.

`DeliveryProofs` is about the events. Its invariant `KInv`
(`DeliveryInvariance`) comes on top of `IInv`:

- `InOrder` (`OrderKept`) is inductive by itself: the queues, one after the
  other, end like what was admitted, and a step takes from the front or appends.
- `OneHolder` (`HeldOnce`) needs `InOrder` and `AdmittedOnce`: a batch that is
  taken is disjoint from what it leaves behind only because both are parts of a
  sequence in which no event occurs twice.
- `BoundedDuplicates` (`DuplicatesBounded`) needs `OneHolder`, `Fresh` (what no
  worker has had has no row) and `Written` (what a worker has has at most a row
  for each attempt it made): only then are the attempts of one batch all the
  inserts of its events.
- `BoundedMemory` (`MemoryBounded`) needs `BatchesFit`, and adds the lengths up.

`BufferImplementsDelivery` is the refinement, `Spec => D!Safety`, under the
mapping of `BufferProperties`. A `Publish` is `Accept` or `Reject`, an attempt is
`Settle` of the part of its batch that was not written yet, a last failed attempt
gives up the rest in the same way, the close of `done` is `BeginClose`, and all
other steps stutter; `Fresh` and `Written` are why a refused event is never
written and a written one never given up.

### The process

`AppProofs` proves the same for the process, for any buffer and any number of
requests. Every step of the process is a step of the buffer or leaves it alone
(`AppRunsTheBuffer`), so `IInv` holds in `App` too. `ShutdownInv` adds where
`shutdown` stands: `Close` has not begun before `srv.Shutdown` is back, a clean
`srv.Shutdown` means that no handler is left to publish, and an expired `Close`
that the deadline has passed. `ConnectionOutlivesWorkers` and `CleanShutdown`
follow: what `Close` found in the channel is all there ever was, since nothing
is admitted after it.

### Requests

`IngestProofs` proves `IngestTyped` (no limiter and no channel passes its limit),
`HeardOnce` (`NoDuplicateIfHeard`) and `NoneAbandoned` (`NoValidItemAbandoned`)
from one invariant with four parts for each request: what it sends is its own
(`Orderly`), an item is admitted at most once a try (`OncePerTry`), what is still
to be sent has not been admitted if every reply was heard (`SentOnce`), and a
valid item is admitted or still to be sent (`NoneForgotten`). `UnpublishedIs` is
the lemma that carries it: after a 202 the client keeps exactly the items whose
code is `PUBLISH_FAILED`.

`QueryProofs` proves `TotalOfMoment`, `GroupsCover` and `AdjacentRanges`. `QInv`
relates each request's counts to the table, which only grows: totals lie between
what matched when the request began and what matches now (`Plausible`), and the
groups read together with those still to come are no less than the totals
(`Covered`). That last one is a sum over groups: each event is in one group
(`SumsCover` of `DataLemmas`), or the groups would not add up. `AdjacentRanges`
bounds the sum of two requests from both sides, over events and timestamps and
not over the model's `InRange`: what both could find when they began lies in one
range or the other (none is missed), and the two ranges share no event (none
counts twice).

### The domain

`DomainProofs` proves, for words of any width, any window and any ranges,
`WindowHolds` (an accepted timestamp did not wrap) and `RangeHolds` (a request
counts what happened in the range it asks for). Both follow from `WindowInv`,
which adds the range of the clock and where the events come from;
`NormalizeExact` is the lemma on the conversion.

`RetriesHold` and `OccurrencesHold` are about the key, for strings of any length
and any number of tags. That a retry shares it rests on `SortedOnce`: the order
of strings is a total one (`BeforeTotal`, `BeforeTransitive`), every list of tags
has an ascending order (`SortingExists`, by inserting one tag at a time), and two
ascending orders of the same tags agree everywhere (`NoneLess`: if one had a
lesser tag at i, the tags from i on would have to be mapped one-to-one to fewer
places). That two occurrences do not share it rests on `TerminatedInjective`: a
list of strings without a byte 0 can be read back from the bytes, last string
first (`LastApart`); `FieldsApart` takes the fields from that list. Both are
about the hash's input; that no two inputs have one hash is assumed of xxHash64.

### Start-up

`StartupProofs` proves, for any set of machines, any table and any number of
starts, `NamedDatabase`, `EnvironmentDecides`, `FailureCleansUp`, `SchemaFirst`,
`MigrationsIdempotent`, `StartupTyped` and `BackoffBounded`. There are four
inductive invariants, for the configuration, the connection, the schema and the
types; none needs another. `SchemaInv` has to say what each
number of applied files means for the table (one: it exists; two: it is full),
because a statement may have run without the start noticing. `MigrationFits` is
the lemma that carries it; and `LastVariableDecides` the one on the precedence
of variables. `TypeInv` ties `attempt` to where `Connect` stands, and has the
bound on `delay` in it, since the next delay is computed from a number of
doublings (`DoubledIs`) each of which must not have wrapped (`Int64Keeps`).

### Induction

The library's induction theorems take a predicate, which the installed provers
cannot instantiate. `DataLemmas` proves induction for *sets* instead, from the
theorems on well-founded relations (`NatSetInduction`, `SeqSetInduction`,
`FiniteSetInduction`, `SubsetInduction`), and from it that functions defined by
recursion exist and are unique (`IteratesExists`, and the same for the
concatenation of sequences, sums over sets and the selection of elements). So the
folds of the community modules that the models use have facts that hold for data
of every size: `FlattenAppend`, `FlattenLen`, `SumsBound`, `SumsCover`,
`KeepsRange`.

### Only model-checked

All liveness, which needs ENABLED: `DrainTerminates`, `SignalTerminates`,
`QueryAnswered`, `SignalEndsStartup`, and `EveryEventSettles`, the part of
`ImplementsDelivery` that `BufferImplementsDelivery` leaves out.

## 5. Findings

1. Accepted events are given up in a clean shutdown with a healthy database:
   the flush attempts inherit the context the signal has cancelled
   (`buffer.go:148`, against the comment at `app.go:88`).
2. `Publish` accepts after `Close` has begun (`buffer.go:175`, against
   `docs/tdd.md:375`).
3. A query deadline that passes between rows yields 200 with rows missing
   (`query.go:46`, `query.go:112`, against `handler.go:150`).
4. The depth gauge can stay wrong while the buffer is idle (`buffer.go:154`,
   `buffer.go:184`, against `observability/metrics.go:63`).

Observed on the way, and stated by no run:

- The first back-off delay is `RetryBaseDelay` even where `RetryMaxDelay` is
  smaller: `retryDelay` compares only after doubling, although its comment says
  "capped at max" (`repository.go:112`). `BackoffCapped` excepts it.
- `BUFFER_CAPACITY`, `SERVER_PORT` and `BUFFER_STRATEGY` in `.env` win over the
  environment's `CHRONOMETRICS_` names, because the older variables are read
  last (`config.go:142`, `config.go:152`, `config.go:191`).
- `docs/system_design.md:217` documents `BUFFER_STRATEGY=inmemory`, with which
  `startBuffer` fails: it knows `memory` only (`infrastructure.go:40`).
- A negative bound wraps: `to=-1` is no upper bound, `from=-1` is after all events
  (`handler.go:121`): `RangeAsAsked` is about natural numbers.
- `FLUSH_TIMEOUT` of zero or less makes every flush fail, `FLUSH_INTERVAL` of
  zero or less makes the flush goroutine panic; `Load` accepts both.
- `ShutdownTimeout`, `BodyLimit` and the server's timeouts are parsed and never
  used (`app.go:60`, `app.go:93`, `compose.go:38`).
- With the defaults, `BoundedMemory` lets a crash lose 1000 + 9 x 1000 accepted
  events (channel, loop, four waiting batches, four workers);
  `docs/risks.md:7` estimates 2000.

## 6. Not modelled, and the plan

Not modelled: the settings of `Config` that are only handed on, parsing of
bodies, logging, health (one ping and a reply), the counters and histograms (no
state that the program reads back), the domain errors (sentinels; the models use
the codes they lead to), canonicalJSON (not called), ClickHouse beyond the table
and the outcome of a call. A crash of the running process loses the memory by
design (`docs/system_design.md`, I4): what bounds the loss is `BoundedMemory`,
and what a restart finds is in `Startup`. The rate limits are checked per window
of the limiter and not over time: a clock times the clients of `Ingest` is
beyond TLC. That a flush attempt is refused for one event of its batch is an
instance of `FlushFails`; which event is to blame makes no difference to the
properties.

Next, in this order:

1. `Ingest` composed with the real buffer instead of a depth, and the theorem
   that its steps are steps of the buffer, as `AppRunsTheBuffer` is for the
   process.
2. Proofs: that `App` implements `Delivery` up to the end of the process; that
   the gauge of `BufferDepth` is exact when no two goroutines read it at once.
