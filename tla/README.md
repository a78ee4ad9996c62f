# Verification of git-event-streaming

TLA+ models of the GitHub event pipeline in this repository, with the TLC runs
that check them on small instances and the TLAPS proofs that hold for every
instance. Paths below are relative to the repository.

## 1. The system

Public GitHub events are polled, published to a Kafka topic (Redpanda) and
aggregated into a realtime ranking (Redis) and an hourly history (PostgreSQL).

| Component | Source | State it keeps | Operations | Correct when |
|---|---|---|---|---|
| ingestor | `cmd/ingestor/main.go` | none between polls | `runPollLoop`, `pollOnce` | every event of a page is published or counted as failed |
| GitHub client | `internal/github/client.go` | the ETag of the last answer | `PollEvents` | a page is only skipped when it was delivered or its failure logged |
| Kafka producer | `internal/kafka/producer.go` | the writer | `PublishEvent` | all copies of an event go to one partition |
| event schema | `internal/events/schema.go` | none | `NormalizeGitHubEvent` | an event keeps its id, type and repository |
| consumer loop | `cmd/consumer/main.go` | position in the topic, the message at hand | `runConsumer`, `processMessage` | no message is skipped without a trace, none blocks its partition |
| persistence queue, workers | `cmd/consumer/main.go` | bounded channel, record per worker | `enqueuePersistence`, `runPersistenceWorker` | a queued event is written or reported; the reader never waits |
| Redis store | `internal/consumer/store.go` | markers, ranking, windows, recent list, repo hash | `ProcessEvent`, `TrendingRepos`, `RecentEvents` | an event counts once |
| PostgreSQL store | `internal/persistence/store.go` | four tables | `PersistEvent`, three queries | the window tables add up to the rows of metadata |
| consumer metrics | `internal/consumer/metrics.go` | atomic counters, a gauge | `Record*`, `Snapshot` | a scrape fits together although the counters move |
| consumer API | `internal/consumer/server.go` | readiness, SSE streams | handlers, `Shutdown` | ready means serving, pages agree, shutdown ends |
| replay command | `cmd/replay/main.go` | offsets of its own group, messages done | one loop | a replay repairs both stores and corrupts neither |
| ingestor metrics, health | `internal/metrics`, `internal/server` | counters, readiness | `Record*`, handlers | counters agree with the batches |
| process life | `main` of consumer and ingestor | context, listener, pool of connections | start, serve, stop | what cannot run panics before it is seen, what is told to stop exits cleanly |
| configuration | `internal/config/config.go` | none | `Load`, `Validate` | accepted values are usable |
| benchmark generator, dashboard, operations | `cmd/benchgen`, `frontend`, `ops`, compose files | none the pipeline depends on | | |

How they interact. The ingestor and the consumer share only the topic. Inside
the consumer one goroutine reads the topic, runs the Lua script in Redis and
hands each event to a bounded channel without ever waiting; `PERSISTENCE_WORKERS`
goroutines take events from the channel and write them to PostgreSQL. The
offset of a message is committed by the reading goroutine, before the history
has the event. The replay command is a second process that reads the same
topic with its own group and writes to the same two stores. The API and the
dashboard only read; the handlers of the history share the pool of PostgreSQL
connections with the workers, and `main` closes it under both.

What is hard. Three stores (offsets, Redis, PostgreSQL) are updated one after
the other without a common transaction, by goroutines that do not wait for
each other; the process may stop between any two of these steps, a call may
take effect and its answer be lost, a rebalance may deliver a message again
while it is being worked on, the queue drops when full, and markers expire.
Transactions of several sessions overlap on the same rows; counters move while
they are read; the listener, the loop, the workers and a signal may each end
the process at any point of its life.
`PROJECT.json` lists each of these hazards at its line.

## 2. The modules

| Module | Models | State and actions |
|---|---|---|
| `Events` | what the consumers read of an event | constants: ids, types, repositories, time buckets; `scoreForEvent` |
| `RedisStore` | `internal/consumer/store.go` | `marked`, `trending`, `windowScores`, `recent`; `aggregateEventScript`, `ProcessEvent`, its failures, expiry |
| `PostgresStore` | `internal/persistence/store.go` | `metadata`, `windows`, `snapshots`, `summaries`; `PersistEvent` and its failures |
| `Consumer` | `cmd/consumer/main.go`, the counters of `internal/consumer/metrics.go` | topic, offsets, reading goroutine (`pc`, `current`), `queue`, `holding`, `metrics`, what the log names |
| `Analytics` | the promise to readers | events are published, then counted once, then recorded once |
| `ConsumerProperties` | | the invariants, the refinement mapping and the liveness properties of `Consumer` |
| `Replay` | `cmd/replay/main.go` beside `Consumer` | the offsets of the replay group, its loop (`replayPc`, `replayCurrent`), `processed`, `rebalanced`, what its log names; `ReplayNext` interleaves the two processes on the shared stores |
| `ReplayProperties` | | what a replay rebuilds, how it stays bounded |
| `Ingestor` | `cmd/ingestor/main.go`, `internal/github/client.go`, `internal/kafka/producer.go`, `internal/metrics` | GitHub's `feed` and page, `etag`, the page at hand (`batch`, `tally`), `metrics`, messages left in the writer (`inFlight`), `copies` in the topic |
| `IngestorProperties` | | counters, the ETag, delivery |
| `PgTransactions` | `PersistEvent` of `internal/persistence/store.go`, statement by statement | per session `call`, `pc`, `wrote` (row versions, which are locks), `draft`; `BeginTx`, `insertProcessedEvent`, `LockWindow` (upsertWindow), `DraftSnapshot`, `DraftSummary`, `Commit`, `CommitUnanswered`, `Rollback` |
| `PgProperties` | | overlap, deadlock, what callers and readers see, `CallsAreAtomic` |
| `Queries` | the read queries of both stores | functions of the tables: `TrendingRepos`, `RecentEvents`, `RepoHistory`, `HistoricalTrending`, `AggregationWindows` |
| `Telemetry` | `internal/consumer/metrics.go`, and the places of `cmd/consumer/main.go` that call it | `metrics`, `queued`, `gauge`, one step per atomic operation of the reader and the workers; `Load` and `Render` of a scrape |
| `Config` | `internal/config/config.go` | what `Load` makes of the environment; `Validate` |
| `Service` | `main` of `cmd/consumer` and `cmd/ingestor`, `internal/consumer/server.go`, `internal/server/health.go`, `Connect`, `InitSchema` and `Close` of the PostgreSQL store | `main`, `http`, `loop`, `ready`, `history`, `pool`, per worker or request `at`, the counters of the handlers |
| `ServiceProperties` | | start, requests, end |
| `MCConsumer`, `MCReplay`, `MCIngestor`, `MCPg`, `MCTelemetry`, `MCService` + `.cfg` | | the instances TLC checks |
| `HistoryProofs`, `QueryProofs`, `ConsumerProofs`, `ReplayProofs`, `IngestorProofs`, `PgProofs`, `TelemetryProofs`, `ServiceProofs` | | the theorems |

`Replay` extends `Consumer`, which extends the two stores and `Events`. The
ingestor is checked by itself: it shares only the topic with the rest, and
`Consumer` lets any event be published any number of times (`Publish`), which
is what `Ingestor` does with duplicates and late deliveries. `PgTransactions`
extends `PostgresStore` and runs on the same four tables; `Consumer` and
`Replay` use the call as one step, which `CallsAreAtomic` justifies. `Service`
extends `Config` and leaves the work of the loop to `Consumer` and `Ingestor`:
in it the loop runs or has ended, and a worker may be handed a record at any
time. `Telemetry` keeps of a message only what `ProcessEvent` answered.

The two stores are modules of their own, because the replay command uses the
same code on the same data: their operations take the event and *the answer
the caller gets* as parameters (`ProcessEvent(e, status)`), and the caller
decides on the answer.

**Steps.** In `Consumer` and `Replay` a script in Redis and a transaction in
PostgreSQL are one step each: Redis runs a script without interleaving, and
that a transaction is one step to everybody else is what `PgTransactions` shows.
Everything between them is a step
of its own. The reading goroutine goes `fetch` (FetchMessage, RecordConsumed),
`process` (decode, ProcessEvent, the counters), `enqueue` (the non-blocking
send) and `commit`; each step ends where another goroutine or a crash can make
a difference. A worker has two steps, taking a record and writing it.

The replay loop is stepwise too: `process` (ProcessEvent), `persist`
(PersistEvent) and `commit`, with the consumer running in between. The ingestor
polls, publishes the events of the page one by one, and adds the batch to three
counters one after the other (`RecordReceived`, `RecordPublished`,
`RecordFailed`), between which the process may stop or be scraped. `PollEvents` is
a step: it stores the ETag of any answer, of an error status too (`PollFails`),
before it decodes the body (`DecodeFails`).

In `PgTransactions` each statement is a step. Under READ COMMITTED a statement
sees what is committed; one that meets a row version of an open transaction
(`Blocked`, by the primary keys of the schema) waits until that one ends. The
model lets `insertProcessedEvent` wait for an open insert of the same event, as
the unique index does, and `DO UPDATE` lock the row it finds. A session waits
for a connection of its pool before it has any row.

In `Telemetry` every `Add`, `Store`, `Load`, channel operation and `len(queue)`
is a step of its own. Two of the six latency buckets stand for them all. In
`Service` a step of `main` is a stretch between two points where another
goroutine can be seen. `SetReady(true)` (`Start`), starting the loop (`Launch`),
the end of the select (`LeaveSelect`), `SetReady(false)` (`Stop`), `Shutdown`,
and the deferred calls (`CloseKafka`, `ClosePool`, `PoolDrained`) are apart.
`make` of the queue, `kafka.NewReader` and `time.NewTicker` panic on what they
cannot take (`QueueFits`, `ReaderConfigured`, `LoopBegins`), and the process is
gone. A request is accepted, handled, waits for its store and for a connection,
is answered, and is then counted by `requestLogger`.

**Failures.** `ProcessEventFaulty` and `PersistEventFaulty` are a call during
which the network, the server or its restart fails: nothing happened, or the
effect is there and the answer is lost. go-redis retries a script by itself,
so a lost reply may also come back as "duplicate". `Stop` is every end of the
process, since `main` waits for neither the reader nor the workers;
`docker-compose.yml` restarts it. `Rebalance` makes the reader resume at the
committed offsets under the goroutine's feet. `StartWithoutHistory` is a start
with PostgreSQL down, after which the process never tries again. The replay
goes on after the error of a store and ends on an error of FetchMessage or
CommitMessages (`StopReplay`), except that an error of the commit after a failed
decoding is ignored (`SkipUndecoded`). A failing publish of the ingestor loses
the message, or leaves it with the writer, which may still deliver it after
REQUEST_TIMEOUT (`WriterGoesOn`); a lost acknowledgement makes two copies.

**Abstractions.** An event is an id with a type, a repository and two time
buckets; events without id or repository are one case (`NoRepo`), which the code
answers alike. `redisErrors` and `pgErrors` are history variables: the messages
and events for which the consumer has written an error to its log. The
properties use them to say "not without a trace"; `replayErrors`, `failed` and
`brokenPages` are the same for the replay and the ingestor. GitHub is external:
it shows the newest events of its feed on one page, and the ETag changes when
the page does. Left out: the repository hash in Redis, which is written and
never read; display columns; sums of nanoseconds; the rate limit of the replay
(see section 5); a replay in the group of the consumer, which it joins when
KAFKA_GROUP_ID is not the default; time stamps and the poll counter of the
ingestor. In `Config` a value is blank, a number, a duration, a truth value, a
list or other text, and int64 is scaled to -50..49 with ten units to the second,
so that seconds overflow as they do in Go (`Wrapped`); `Allocatable` is the
longest channel `make` can allocate. `parseLimit` keeps of a parameter whether
it is valid and smaller than the fallback. Ties in rankings come in any order,
as `last_event_at` is not in the model.

## 3. What the runs show

The runs of `Consumer` and `Replay` bound the topic (`MaxLog` messages per
partition) and the number of stops, rebalances, failing calls and expiries
(`Max...` constants); the bounds are guards of the corresponding actions. The
topic being bounded, the system may come to rest, hence `CHECK_DEADLOCK FALSE`;
that the processes do not stop too early is what the liveness properties say.
`Telemetry` bounds the messages (`MaxConsumed`), `Service` the requests of a
process (`MaxServed`). `pg_transactions` has no bound on time or failures, and
it and `service` are checked for deadlock: an exited process stutters in
`Terminated` only.

| Run | Instance | Shows |
|---|---|---|
| `consumer_safety` | events of 3, 1 and 2 points for two repositories, poison messages, one partition of 3 messages, a queue of one, recent lists of two, two stops, a failing call to each store | the nine invariants below; 925 thousand states |
| `consumer_live` | a good event, one without points and repository (which only PersistEvent rejects), 2 workers, all failures, an expiry, fairness | every message is handled, every queued event is written or reported |
| `consumer_redis_outage` | one failing Redis call | violated: `CommittedIsCounted` |
| `consumer_restart` | one stop | violated: `RestartPreservesHistory` |
| `replay_safety` | events that neither, one or both stores reject, two replays of two messages each, one failure of every kind | `ReplayedIsRebuilt`, `ReplayStaysInBounds` with messages counted twice, `CommittedReachesHistory` of the consumer beside it, and both together implement `Analytics`; 1.3 million states |
| `replay_markers` | one marker expires | violated: `ReplayIsSafe` |
| `replay_gaps` | one failing write in the first of two replays | violated: `ReplayFillsGaps` |
| `ingestor` | three events, one of them malformed, pages of two, a stop, a failing poll (no answer, an error status with or without the ETag of the page, an unreadable body), two failing publishes, fairness | the counters add up, the ETag hides nothing unreported, events reach the topic or the log; 250 thousand states |
| `ingestor_outage` | one failing publish | violated: `RecoversFromBrokerOutage` |
| `pg_transactions` | a worker and a replay, each with a pool of one connection; four events that share repository and hour, only one of them, or nothing, one of them without points; failures and lost answers at any statement, any number of times; fairness | totals, answers, deadlock, the agreement of the three queries, atomicity, and that every call returns; 20 thousand states |
| `telemetry` | two workers, a queue of one, two messages of any outcome, scrapes at any time | what a scrape may miss, when the gauge is wrong; 3.6 million states |
| `service` | both programs; environments with one odd variable of every form and at the ends of its range; two requests, two workers, one connection; a signal, a failing listener or loop at any time; fairness | panics, readiness, counters, pool and exit; 722 thousand states |

One partition is enough for the order of commits, because offsets of different
partitions do not interact except through the goroutine; the proofs below hold
for any set of partitions. A topic of 3 holds the shapes that matter: a message,
its copy, and a later message whose commit passes it. A queue of one is full as
soon as one worker is slow. Each failure may hit at any step, and the proofs
below lift the bounds. `consumer_safety` gives the process two stops, so that a
restarted process stops again before it has caught up; rebalances, which fetch
messages again without a stop, are in `consumer_live` and `replay_safety`. A
limit of two messages makes the first replay end and the second go on from its
offsets, and lets a rebalance have a message counted twice before that. Three
events on pages of two make pages overlap and push an event off the page; two
failing publishes are a loss and a late delivery of it. A pool of one is the
smallest, and the one a second connection inside a call would hang on at once.
Two sessions are the shapes of row conflicts: the same event, the same cell,
another repository in the same hour, another hour. More sessions than
connections are in `service`; the proofs hold for any sessions, pools and
events. Two messages and two workers let a store be overtaken and a scrape fall
into the middle of every pair of counters. One connection for two requests and
two workers makes each wait for the other when the process is told to stop.

The invariants: the ranking is the sum of the scores of the marked events, each
once (`TrendingCountsEachEventOnce`); the recent list holds the last counted
events, none twice (`RecentListsCountedEvents`); snapshots, summaries and
windows add up to the rows of metadata (`SnapshotsMatchMetadata`); the group
never commits past a message that Redis lacks and no log names
(`CommittedIsInRedis`); what this process has committed is in PostgreSQL, in the
queue, with a worker or named in a log (`CommittedReachesHistory`); history
never knows a weighted event that the ranking lacks (`HistoryFollowsRanking`);
the write counters bound the rows (`WriteCountersBoundRows`); place by place the
historical page never shows more than the realtime page
(`HistoryPageBehindTrendingPage`). Of the replay: what it commits is in both
stores or named by its log (`ReplayedIsRebuilt`), and a bounded replay commits
no more than its limit, and what it reports as processed exceeds the offsets it
has moved over by one for each rebalance at most (`ReplayStaysInBounds`). The
one is real: the loop goes on with the message it has when the group is
rebalanced, commits and counts it, and it is delivered and counted again; with
REPLAY_MAX_MESSAGES such a replay ends earlier than its limit says. Of the
ingestor: every event of a page is counted once, and a scrape in the middle of
`RecordBatch` shows no more outcomes than events received (`CountersAddUp`),
there are at least as many messages as events counted published
(`PublishedIsInTopic`), and a page that the ETag hides is in the topic, at work
or reported (`HiddenPageIsDelivered`): an error status and an unreadable body
both store it, but both are logged as a failed poll.

Of the transactions: the window tables match the rows of metadata while
transactions overlap; a call is told `true` at most once per event (`ToldOnce`);
of the open transactions one can always go on (`SomeoneCanGoOn`); the pages of
the three queries add up to each other (`QueriesAgree`); committed tables only
change by whole calls (`CallsAreAtomic`, with `PersistTransaction` of
`PostgresStore` as the abstract step); every call returns (`EveryCallReturns`).

Of the metrics: `Snapshot` loads causes before their effects, so what a scrape
shows as consumed, processed or written is missing no more outcomes, buckets or
snapshots than were at hand when it began (`ScrapeMissesOnlyWhatIsAtHand`); the
other way round effects may exceed their causes, as counters move on during the
scrape. The gauge of the queue is wrong only when its last store was overtaken
(`GaugeWrongOnlyWhenOvertaken`): reader and workers store what `len` returned
before, so this does happen and lasts until the next message.

Of a process: `Validate` refuses what would panic behind the listener, where
`kafka.NewReader` and the ticker of the poll loop are, but not a queue that
`make` cannot allocate, on which the consumer panics before it listens
(`PanicsBeforeItListens`); and a number of seconds may wrap to another positive
duration, which is then used; nobody asks a closed pool
(`NoOneAsksAClosedPool`); the counters of the handlers fit together when all is
answered (`HandlerCountersAddUp`); a probe finds the service ready only between
the start of the listener and `Shutdown`, with the pool open if there is history
(`ReadyMeansServing`). Between the end of the select and `SetReady(false)` it
may still find it ready; the process ends under no query
(`ConnectionsReturnedByExit`), and it does end (`StopsWhenItShould`), although a
stream keeps `Shutdown` until SHUTDOWN_TIMEOUT. `Close` of the pool has no
timeout: it waits for PostgreSQL to answer whoever holds a connection.

**Findings.** The five violated properties are what the documentation says
and the code does not keep. (1) After a Redis failure the message is left
uncommitted so that it is delivered again, but the loop goes on, and the
commit of the next message passes it for good. (2) Offsets are committed while
events are only in the channel; a restart loses them for history, without a
log line. (3) Markers live for 72 hours and messages for
7 days: a replay of an older message counts its event again. (4) A replay
leaves a failed message uncommitted and commits the next, so a second replay of
the group starts behind the gap. (5) The ETag of a page is stored before its
events are published: a failed publish is not tried again while the page stays
as it is, even after the broker has recovered.

**Fairness.** `Fairness` is weak fairness of starting the process
(`restart: unless-stopped`), of the reading goroutine and of each worker: the
Go scheduler runs every runnable goroutine, and kafka-go delivers every message
of the topic. Nothing is assumed of publishers, failures, rebalances or expiry.
For the ingestor it is weak fairness of starting the process and of the polling
goroutine: the ticker fires again and again and every call ends within
REQUEST_TIMEOUT.
In `PgTransactions` it is strong fairness of each call's next statement:
PostgreSQL and pgxpool serve waiters in the order they came, so a call that can
go on again and again does; no failure is assumed to happen, and none is assumed
to stay away. In `Service` it is weak fairness of `main`, of whose steps the
timer of `Shutdown` is one, as are the closing of the Kafka reader and writer,
which end within their own timeouts, and of the answer to whoever holds a
connection.
Clients, signals and the loop owe nothing: a stream may stay open for ever.

## 4. What is proved

`HistoryProofs` proves lemmas about scores and about `PersistEvent`; the first
section of `ConsumerProofs` does so for `ProcessEvent`. Each says what one
operation does to the sums. `ScoreSum` counts each event once for each of the
levels 1, 2, 3 its score reaches, so that
sums are cardinalities and need no recursion; adding one event to a set adds
its score (`ScoreSumAdd`). From it follow `ProcessEventSum` (a run of the
script keeps "the ranking is the sum over the marked events", and the answer
tells whether the event is marked) and `PersistEventMatches` (a transaction
keeps the window tables equal to the sums over the rows).

`QueryProofs` says what the queries return, for any table. A page (`Highest`)
exists, is full, in order and without duplicates (`HighestIsPage`,
`PageIsFull`). Where one key nowhere exceeds another, neither does its page,
place by place (`PagesInOrder`): among the first i rows of the one page there is
one that the first i - 1 places of the other do not show. `SUM` is a cardinality
too, one element for each unit of each cell, counted by its fibres
(`SumOfFibres`), so that the points of a repository, the lines of the ranking
and the windows of the history all count the same rows of metadata
(`HistoryAddsUp`, `RankingAddsUp`, `WindowsAddUp`). That rows can be put in
order at all needs induction on sets. The induction theorems of the library take
an operator as a parameter, which the provers cannot instantiate;
`SubsetInduction` states the principle with the set of good subsets instead, and
follows from the well-foundedness of strict inclusion on finite sets.

`ConsumerProofs` proves, for every set of events, partitions and workers, every
queue size and all bounds:

| Theorem | Property |
|---|---|
| `InductiveInvariant` | `IndInv` |
| `TypeCorrectness` | `TypeOK` |
| `RankingIsExact` | `TrendingCountsEachEventOnce` |
| `HistoryIsConsistent` | `SnapshotsMatchMetadata` |
| `NothingSkippedSilently` | `CommittedIsInRedis` |
| `CommittedIsTraced` | `CommittedReachesHistory` |
| `RankingComesFirst` | `HistoryFollowsRanking` |
| `RecentIsExact` | `RecentListsCountedEvents` |
| `WriteCountersAreBounds` | `WriteCountersBoundRows` |
| `HistoryPageIsBehind` | `HistoryPageBehindTrendingPage` |
| `OnlyOutagesLoseCounts` | `CommittedIsCounted`, until a call to Redis fails |
| `OnlyStopsLoseHistory` | `RestartPreservesHistory`, until a process stops |
| `Refinement` | `ImplementsAnalytics`, when no key expires and the TTL is at least a second |

Why an inductive invariant. `CommittedIsInRedis` speaks of committed offsets
only, but a commit sets the offset of a whole partition to the message at
hand, so the step is safe only if everything *fetched* before it is settled.
`IndInv` therefore ties the cursors to each other (`CursorsOK`: the message at
hand is the last one fetched, unless a rebalance has set the position back),
states settlement up to the position and not up to the offset (`RedisSettled`,
`HistorySettled`), says that whatever is queued, held or recorded comes from
the topic and has been ranked (`FromTopic`, `RankingFirst`), states of the whole
recent list what the property asks of its pages (`RecentSettled`), and counts
expiries (`ExpiryBounded`), without which the refinement theorem could not use
its assumption. `WriteCountersBoundRows` is inductive beside it: the counters
and `metadata` move in the same steps, and only what a stop takes from the
counters breaks them apart. The proof has one step per action. Assumptions are
those of the modules: `EventsAssumption`, `RedisAssumption`, `ConsumerAssumption`.

Both `IndInv` and the invariant below were first checked by TLC on instances
like those of the runs.

`ReplayProofs` proves the same of consumer and replay side by side:

| Theorem | Property |
|---|---|
| `ReplayInductiveInvariant` | `RInv` |
| `ReplayTypeCorrectness` | `ReplayTypeOK` |
| `ReplayRebuilds` | `ReplayedIsRebuilt` |
| `RankingIsExactBesideReplay` | `TrendingCountsEachEventOnce` |
| `HistoryIsConsistentBesideReplay` | `SnapshotsMatchMetadata` |
| `RankingComesFirstBesideReplay` | `HistoryFollowsRanking` |
| `CommittedIsInRedisBesideReplay` | `CommittedIsInRedis` |
| `CommittedIsTracedBesideReplay` | `CommittedReachesHistory` |
| `RecentIsExactBesideReplay` | `RecentListsCountedEvents` |
| `HistoryPageIsBehindBesideReplay` | `HistoryPageBehindTrendingPage` |
| `ReplayIsBounded` | `ReplayStaysInBounds` |
| `OnlyExpiryCountsTwice` | `ReplayIsSafe`, until a marker expires |
| `FirstReplayFillsGaps` | `ReplayFillsGaps`, when the replay begins at the beginning |
| `ReplayRefinement` | `ImplementsAnalytics`, under the same conditions |

`RInv` is `IndInv` with three parts for the replay: the types and cursors of its
variables, and `ReplaySettled`. The last states `ReplayedIsRebuilt` up to the
position of the reader and, when a rebalance has set that back, up to the
message at hand; and that the event about to be written is marked (`HasMarker`),
which is what keeps `RankingFirst` true when the replay writes its row. A step
of the consumer keeps `IndInv` by the lemma `IndInvStep` of `ConsumerProofs`,
and the replay's part because the stores only grow (`StoresGrow`); a step of the
replay keeps `IndInv` by the lemmas about the two stores. `ReplayIsBounded` has
an invariant of its own, `ReplayInBounds`. A message at hand counts towards the
limit before it is committed (`LimitKept`). Nothing goes back before the offsets
at which the replay began (`NotBeforeStart`). The count is compared with the
offsets that will not come again (`OffsetsBehind`): moved over, up to the
position, before the message at hand. A commit adds one to both, unless a
rebalance has put the reader before the message (`ComesAgain`), and then that
rebalance pays for it (`CountedIsBehind`). `WriteCountersBoundRows` is not among
these theorems: beside a replay the counters of the consumer know only its own
rows.

**When the documentation is right.** Four of the five claims that the runs
refute are safety properties, and each is proved to hold wherever what its
counterexample shows is absent. `OnlyOutagesLoseCounts`: stops, rebalances and
failures of PostgreSQL never make the group commit an event that the ranking
lacks; a failing call to Redis does (`ErrorsAreOutages` says that there is
nothing else in the log). `OnlyStopsLoseHistory`: until a process stops, what is
committed reaches history or is named, because the first process reads from the
beginning (`ReadsFromTheBeginning`). `OnlyExpiryCountsTwice`: until a marker
expires, no replay counts an event twice. `FirstReplayFillsGaps`: a replay whose
group has committed nothing leaves no gap that it does not report. The first and
the third need a TTL of at least a second, below which no marker can be set at
all. TLC checked all four on the instances of the refuting runs before they were
proved. The fifth claim (`RecoversFromBrokerOutage`) is liveness.

`IngestorProofs` proves `IngestorTypeCorrectness` (`IngestorTypeOK`),
`CountersAlwaysAddUp` (`CountersAddUp`), `ETagHidesNothing`
(`HiddenPageIsDelivered`) and `NoPhantomPublish` (`PublishedIsInTopic`), for any
page size and feed, from `IngestorAssumption`. The first three are inductive
together: an event leaves the page by a step that adds a message or a line of
the log, a new page has another ETag, and a failed poll that stores the ETag of
the page has logged it; what `RecordBatch` has not added yet is still in
`tally`. The fourth is inductive with the messages being finitely many
(`TopicInv`): an event is counted published in the step that adds its message,
and late deliveries only add more.

`PgProofs` proves, for any number of sessions, pools and events:

| Theorem | Property |
|---|---|
| `PgInvariant` | `PgInv` |
| `PgTypeCorrectness` | `PgTypeOK` |
| `OverlapKeepsHistory` | `SnapshotsMatchMetadata` |
| `RowsToldOnce` | `ToldOnce` |
| `NoDeadlock` | `SomeoneCanGoOn` |
| `TransactionsAreAtomic` | `CallsAreAtomic` |
| `ReadersSeeOneStory` | `QueriesAgree` |

`PgInv` says that no two open transactions have a version of the same row
(`Exclusive`), that a transaction has written what its place in `PersistEvent`
says (`Progress`), and that its drafts are the committed rows plus its event
(`Current`): the row locks keep the committed rows still under a draft. With it a
commit is `PersistTransaction`. `NoDeadlock` takes the transaction that is
furthest: rows are locked in one order, so nobody it waits for is behind it.
`ReadersSeeOneStory` needs besides it that no row lacks its repository
(`RowsComplete`), and the sums of `QueryProofs`.

`TelemetryProofs` proves `TelemetryTypeCorrectness` (`TelemetryTypeOK`),
`ScrapeIsConsistent` (`ScrapeMissesOnlyWhatIsAtHand`) and
`GaugeIsRightUnlessOvertaken` (`GaugeWrongOnlyWhenOvertaken`) for any number of
workers, messages and slots. `TelemetryInv` states by how much the counters
themselves differ (`Balanced`, with the number of workers between their two
counters), that from the load of a cause on its effects can only grow
(`ScrapeBehind`, where `Seen` is what was loaded or would be loaded now), and
that a measured length is current or marked as overtaken (`MeasuredIsQueued`).

`ServiceProofs` proves, for any environments, workers, requests and any size of
the pool, all safety properties of the run `service`:

| Theorem | Property |
|---|---|
| `ServiceInvariant` | `ServiceInv` |
| `ServiceTypeCorrectness` | `ServiceTypeOK` |
| `PanicsUnseen` | `PanicsBeforeItListens` |
| `PoolIsThere` | `NoOneAsksAClosedPool` |
| `CleanExit` | `ConnectionsReturnedByExit` |
| `HandlersAddUp` | `HandlerCountersAddUp` |
| `ReadyIsServing` | `ReadyMeansServing` |

`ServiceInv` adds that a process past `Load` has a configuration that `Validate`
accepts (`Validated`), that nothing happens before `main` gets there
(`QuietStart`), that the pool is open for whoever may ask it (`PoolInHand`) and
empty once it is closed (`Drained`), that `ready` is set in three phases of
`main` only, while the listener is not closed (`ReadyIsRunning`), and counts for
each counter the requests it is still to meet (`CountersMeet`).

Only model-checked is liveness, which with fairness and ENABLED is out of the
prover's reach: `EveryMessageIsHandled` and `EveryQueuedEventIsWritten` of the
consumer, `EventsReachTopic` of the ingestor, `EveryCallReturns` of the
transactions, `StopsWhenItShould` of a process. Every safety property of a
passing run is a theorem. The inductive invariants, like `IndInv` and `RInv`, were
first checked by TLC on instances like those of the runs.

## 5. Not modelled

- Log lines, JSON, headers and the text of `/metrics`; `SafeSummary` and
  `parseLogLevel`. No property is about wording.
- Latencies, uptimes and time stamps, and the ingestor's poll counter, which
  only grow and which nothing in the code compares.
- A TTL below a second, for which Redis rejects the script after its first
  write, is in `RedisStore` (`TTLSeconds`) and in the proofs; what they say of the
  ranking assumes a TTL of a second.
- A replay in the group of the running consumer.
- The rate limit of the replay, which delays it. `Validate` accepts any rate: above
  10^9 a second the interval of its ticker is 0 and `time.NewTicker` panics, before
  the first message is read.
- What a panic runs on its way out: the deferred calls, which close what was opened.
- The counter `snapshot_writes_total` is in the model, but no property is about
  it: it also counts the writes of events without points, which leave no
  snapshot.
- `cmd/benchgen`, a load generator run by hand. To the system it is one more
  producer, and `Publish` in `Consumer` already lets any event come at any time.
- The dashboard, the deployment and monitoring files, which keep no state of
  the pipeline. The restart policy and the retention of the topic are
  assumptions of the models.
