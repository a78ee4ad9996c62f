------------------------- MODULE ConsumerProperties -------------------------
(***************************************************************************)
(* What the consumer service promises: invariants that tie Redis,          *)
(* PostgreSQL, the committed offsets and the in-memory queue to each       *)
(* other, and what must eventually happen to every message.                *)
(***************************************************************************)
EXTENDS Consumer, Queries

\* What the service itself keeps.
ServiceTypeOK ==
    /\ log \in [Partitions -> Seq(Messages)]
    /\ committed \in [Partitions -> Nat]
    /\ position \in [Partitions -> Nat]
    /\ resumed \in [Partitions -> Nat]
    /\ pc \in {"down", "fetch", "process", "enqueue", "commit"}
    /\ current \in Positions \union {NoMessage}
    /\ historyOn \in BOOLEAN
    /\ queue \in Seq(Events)
    /\ holding \in [Workers -> Events \union {NoEvent}]
    /\ metrics \in [Counters -> Nat]
    /\ redisErrors \in SUBSET Positions
    /\ pgErrors \in SUBSET Events
    /\ faults \in [FaultKinds -> Nat]

\* Every variable has its type.
TypeOK == RedisTypeOK /\ PostgresTypeOK /\ ServiceTypeOK

-----------------------------------------------------------------------------
(* Each store by itself.                                                   *)

\* The ranking of a repository is the sum of the scores of the events that
\* have a marker, each once: redelivery after a crash or a rebalance, a lost
\* reply and a second copy of an event in the topic never count an event
\* twice (EXISTS and SET in the aggregation script). As long as no key has
\* expired and the idempotency TTL is at least a second.
TrendingCountsEachEventOnce ==
    (faults["expiry"] = 0 /\ TTLSeconds(IdempotencyTTL) > 0) =>
        RankingIsSum

\* A page of recent events shows as many counted events as there are and were
\* asked for, none twice (LPUSH and LTRIM behind the check of the marker).
RecentListsCountedEvents ==
    (faults["expiry"] = 0) =>
        \A limit \in 1..RecentEventsLimit :
            LET page == RecentEvents(recent, limit, RecentEventsLimit)
            IN  /\ \A i \in 1..Len(page) : page[i] \in marked
                /\ \A i, j \in 1..Len(page) : i # j => page[i] # page[j]
                /\ Len(page) = IF Cardinality(marked) < limit
                               THEN Cardinality(marked) ELSE limit

\* The third is SnapshotsMatchMetadata of PostgresStore.

-----------------------------------------------------------------------------
(* The committed offsets and the stores.                                   *)

InQueue(e) == \E i \in 1..Len(queue) : queue[i] = e

InHand(e) == \E w \in Workers : holding[w] = e

\* The message changes the ranking when it is processed.
ForRedis(m) == m \in Events /\ Weighted(m) /\ Complete(m)

\* The message is handed to the persistence queue.
ForHistory(m) == m \in Events /\ (Weighted(m) => Complete(m))

\* Redis has what message i of partition p brings, or the log of the consumer
\* names the message as failed.
SettledInRedis(p, i) ==
    \/ ~ForRedis(log[p][i])
    \/ log[p][i] \in marked
    \/ [part |-> p, off |-> i] \in redisErrors

\* The event of message i of partition p has its row, is on its way to it in
\* this process, or the log of the consumer names it.
SettledInHistory(p, i) ==
    \/ ~ForHistory(log[p][i])
    \/ log[p][i] \in metadata
    \/ InQueue(log[p][i])
    \/ InHand(log[p][i])
    \/ log[p][i] \in pgErrors
    \/ [part |-> p, off |-> i] \in redisErrors

\* The group never commits past a message that Redis lacks and no log names:
\* the offset is committed after ProcessEvent, on every path of runConsumer,
\* and crashes and rebalances only deliver again.
CommittedIsInRedis ==
    (faults["expiry"] = 0) =>
        \A p \in Partitions : \A i \in 1..committed[p] : SettledInRedis(p, i)

\* What this process has committed is in PostgreSQL, in the queue, in the
\* hands of a worker or named in a log. It needs enqueuePersistence also for
\* duplicates: the script of a message may have run in an earlier process
\* that stopped before it could queue the event.
CommittedReachesHistory ==
    (pc # "down" /\ historyOn) =>
        \A p \in Partitions :
            \A i \in (resumed[p] + 1)..committed[p] : SettledInHistory(p, i)

\* History never knows a weighted event that the ranking does not: the queue
\* is filled only after ProcessEvent has succeeded.
HistoryFollowsRanking ==
    (faults["expiry"] = 0 /\ TTLSeconds(IdempotencyTTL) > 0) =>
        \A e \in Events :
            (Weighted(e) /\ (e \in metadata \/ InQueue(e) \/ InHand(e)))
                => e \in marked

\* A reader never finds more in the historical ranking than in the realtime
\* one, place by place, although two goroutines write the two stores and the
\* pages are read from each by itself.
HistoryPageBehindTrendingPage ==
    (faults["expiry"] = 0 /\ TTLSeconds(IdempotencyTTL) > 0) =>
        LET past == HistoricalTrending(snapshots, Cardinality(Events))
            live == TrendingRepos(trending, Cardinality(Events))
        IN  /\ Len(past) <= Len(live)
            /\ \A i \in 1..Len(past) : past[i].score <= live[i].score

\* Until the process first stops, every row of metadata has been counted as a
\* write or, when PostgreSQL committed and the answer was lost, as a failure;
\* and no more writes are counted than there are rows.
WriteCountersBoundRows ==
    (faults["stop"] = 0) =>
        /\ metrics["postgresWrites"] <= Cardinality(metadata)
        /\ Cardinality(metadata) <=
               metrics["postgresWrites"] + metrics["postgresWriteFailures"]

-----------------------------------------------------------------------------
(* The abstract specification.                                             *)

Published == {e \in Events : \E p \in Partitions :
                                \E i \in 1..Len(log[p]) : log[p][i] = e}

Promise == INSTANCE Analytics WITH published <- Published,
                                   counted   <- marked,
                                   ranking   <- trending,
                                   recorded  <- metadata,
                                   history   <- snapshots

\* The consumer implements Analytics through crashes, rebalances, redeliveries
\* and failing stores: a step of the service publishes, counts or records one
\* event that was not yet, or readers see no difference. For a run in which no
\* marker expires.
ImplementsAnalytics == Promise!Spec

-----------------------------------------------------------------------------
(* What the documentation says and the code does not keep.                 *)

\* docs/benchmarking.md:98, "consumer should recover after Redis is healthy":
\* what the group has committed is in the ranking, also after a failure of
\* Redis (commit = false in processMessage).
CommittedIsCounted ==
    (faults["expiry"] = 0) =>
        \A p \in Partitions : \A i \in 1..committed[p] :
            ForRedis(log[p][i]) => log[p][i] \in marked

\* docs/benchmarking.md:101, "Consumer/ingestor restarts should preserve data":
\* what the group has committed, in this process or an earlier one, reaches
\* history or is named in a log (persistenceQueue).
RestartPreservesHistory ==
    (pc # "down" /\ historyOn) =>
        \A p \in Partitions : \A i \in 1..committed[p] : SettledInHistory(p, i)

-----------------------------------------------------------------------------
(* What must happen. Under FairSpec.                                       *)

\* Every message of the topic is committed, or its Redis failure is logged:
\* the reading goroutine never waits for the queue, the workers or PostgreSQL.
EveryMessageIsHandled ==
    \A p \in Partitions : \A i \in 1..MaxLog :
        (Len(log[p]) >= i) ~>
            (committed[p] >= i \/ [part |-> p, off |-> i] \in redisErrors)

\* Every event a process puts in the queue gets its row or is named in the
\* log, unless that process stops.
EveryQueuedEventIsWritten ==
    \A e \in Events :
        InQueue(e) ~> (e \in metadata \/ e \in pgErrors \/ pc = "down")
=============================================================================
