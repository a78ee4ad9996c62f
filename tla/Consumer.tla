------------------------------ MODULE Consumer ------------------------------
(***************************************************************************)
(* The consumer service of cmd/consumer/main.go: one goroutine reads the   *)
(* topic, updates Redis and hands each event to a bounded in-memory queue; *)
(* the persistence workers take events from the queue and write them to    *)
(* PostgreSQL. Kafka keeps the messages and the offsets of the consumer    *)
(* group, the two databases keep their tables; everything else is lost     *)
(* when the process stops.                                                 *)
(*                                                                         *)
(* Offsets count messages: committed[p] = n means that the group resumes   *)
(* partition p after its n-th message.                                     *)
(***************************************************************************)
EXTENDS RedisStore, PostgresStore

CONSTANTS Partitions,  \* partitions of github.events.raw.v1
          PartitionOf, \* event id -> partition: kafka.Hash over the message key
          Poison,      \* a message whose value is not a normalized event
          Workers,     \* PERSISTENCE_WORKERS goroutines
          QueueSize,   \* PERSISTENCE_QUEUE_SIZE
          NoEvent,     \* what an idle worker holds
          NoMessage    \* what the reading goroutine holds between messages

\* Bounds of the model.
CONSTANTS MaxLog,         \* messages per partition
          MaxStops,       \* times the process stops
          MaxRebalances,  \* times the group assigns the partitions anew
          MaxRedisFaults, \* calls to Redis that meet a failure
          MaxPgFaults,    \* calls to PostgreSQL that meet a failure
          MaxExpiries     \* Redis keys that expire

ASSUME ConsumerAssumption ==
    /\ PartitionOf \in [Events -> Partitions]
    /\ Poison \notin Events
    /\ NoEvent \notin Events
    /\ QueueSize \in Nat \ {0}
    /\ NoMessage \notin [part : Partitions, off : Nat]
    /\ {MaxLog, MaxStops, MaxRebalances, MaxRedisFaults, MaxPgFaults,
        MaxExpiries} \subseteq Nat

VARIABLES log,         \* partition -> messages of the topic
          committed,   \* partition -> offset committed by the group
          position,    \* partition -> last offset FetchMessage returned
          resumed,     \* partition -> offset this process started from
          pc,          \* where the reading goroutine is; "down": no process
          current,     \* the message it is working on
          historyOn,   \* historyStore # nil
          queue,       \* persistenceQueue
          holding,     \* worker -> record it is writing
          metrics,     \* the counters of consumer.Metrics
          redisErrors, \* messages whose Redis failure has been logged
          pgErrors,    \* events whose drop or failed write has been logged
          faults       \* how much of each bound is used up

kafkaVars == <<log, committed>>

readerVars == <<position, resumed, pc, current>>

historyVars == <<historyOn, queue, holding>>

logVars == <<redisErrors, pgErrors>>

vars == <<redisVars, postgresVars, kafkaVars, readerVars, historyVars,
          metrics, logVars, faults>>

Counters == {"consumed", "processed", "duplicates", "processingFailures",
             "redisFailures", "postgresWrites", "snapshotWrites",
             "postgresWriteFailures", "persistenceDropped"}

ZeroMetrics == [c \in Counters |-> 0]

FaultKinds == {"stop", "rebalance", "redis", "postgres", "expiry"}

MaxFaults ==
    [kind \in FaultKinds |->
        CASE kind = "stop" -> MaxStops
          [] kind = "rebalance" -> MaxRebalances
          [] kind = "redis" -> MaxRedisFaults
          [] kind = "postgres" -> MaxPgFaults
          [] OTHER -> MaxExpiries]

Messages == Events \union {Poison}

Positions == [part : Partitions, off : Nat]

IdleWorkers == [w \in Workers |-> NoEvent]

Init ==
    /\ RedisInit
    /\ PostgresInit
    /\ log = [p \in Partitions |-> <<>>]
    /\ committed = [p \in Partitions |-> 0]
    /\ position = [p \in Partitions |-> 0]
    /\ resumed = [p \in Partitions |-> 0]
    /\ pc = "down"
    /\ current = NoMessage
    /\ historyOn = FALSE
    /\ queue = <<>>
    /\ holding = IdleWorkers
    /\ metrics = ZeroMetrics
    /\ redisErrors = {}
    /\ pgErrors = {}
    /\ faults = [kind \in FaultKinds |-> 0]

Count(c) == metrics' = [metrics EXCEPT ![c] = @ + 1]

Fault(kind) ==
    /\ faults[kind] < MaxFaults[kind]
    /\ faults' = [faults EXCEPT ![kind] = @ + 1]

CurrentMessage == log[current.part][current.off]

-----------------------------------------------------------------------------
(* The topic, written by the ingestor.                                     *)

\* PublishEvent: the hash of the event id picks the partition. The same event
\* may be published again: a poll page may overlap the one before it.
Publish(e) ==
    /\ Len(log[PartitionOf[e]]) < MaxLog
    /\ log' = [log EXCEPT ![PartitionOf[e]] = Append(@, e)]
    /\ UNCHANGED <<committed, redisVars, postgresVars, readerVars, historyVars,
                   metrics, logVars, faults>>

\* Another producer writes a message that json.Unmarshal rejects.
PublishPoison(p) ==
    /\ Len(log[p]) < MaxLog
    /\ log' = [log EXCEPT ![p] = Append(@, Poison)]
    /\ UNCHANGED <<committed, redisVars, postgresVars, readerVars, historyVars,
                   metrics, logVars, faults>>

-----------------------------------------------------------------------------
(* The process.                                                            *)

\* main up to the consume goroutine. With enabled = FALSE PostgreSQL could not
\* be reached or InitSchema failed, and no worker is started.
StartProcess(enabled) ==
    /\ pc = "down"
    /\ pc' = "fetch"
    /\ historyOn' = enabled
    /\ position' = committed
    /\ resumed' = committed
    /\ UNCHANGED <<current, queue, holding, metrics, redisVars, postgresVars,
                   kafkaVars, logVars>>

Start == StartProcess(TRUE) /\ UNCHANGED faults

StartWithoutHistory == StartProcess(FALSE) /\ Fault("postgres")

\* The process ends: killed, or main returns on a signal, on an error of the
\* API server, or on an error of FetchMessage or CommitMessages. main waits
\* for neither the reading goroutine nor the workers, and the queue is memory.
Stop ==
    /\ pc # "down"
    /\ Fault("stop")
    /\ pc' = "down"
    /\ current' = NoMessage
    /\ historyOn' = FALSE
    /\ queue' = <<>>
    /\ holding' = IdleWorkers
    /\ metrics' = ZeroMetrics
    /\ UNCHANGED <<position, resumed, redisVars, postgresVars, kafkaVars, logVars>>

\* The group begins a new generation and the reader resumes at the committed
\* offsets, while the goroutine goes on with the message it has.
Rebalance ==
    /\ pc # "down"
    /\ Fault("rebalance")
    /\ position' = committed
    /\ UNCHANGED <<resumed, pc, current, redisVars, postgresVars, kafkaVars,
                   historyVars, metrics, logVars>>

-----------------------------------------------------------------------------
(* runConsumer and processMessage.                                         *)

\* Mutant of FetchMessage: ReadMessage in its place, which commits at once.
ReadMessage(p) ==
    /\ pc = "fetch"
    /\ position[p] < Len(log[p])
    /\ position' = [position EXCEPT ![p] = @ + 1]
    /\ committed' = [committed EXCEPT ![p] = position[p] + 1]
    /\ current' = [part |-> p, off |-> position[p] + 1]
    /\ pc' = "process"
    /\ Count("consumed")
    /\ UNCHANGED <<resumed, redisVars, postgresVars, log, historyVars,
                   logVars, faults>>

\* FetchMessage returns the next message of some partition, and RecordConsumed
\* counts it.
FetchMessage(p) ==
    /\ pc = "fetch"
    /\ position[p] < Len(log[p])
    /\ position' = [position EXCEPT ![p] = @ + 1]
    /\ current' = [part |-> p, off |-> position[p] + 1]
    /\ pc' = "process"
    /\ Count("consumed")
    /\ UNCHANGED <<resumed, redisVars, postgresVars, kafkaVars, historyVars,
                   logVars, faults>>

\* Mutant of RejectMessage: the error of json.Unmarshal does not return.
RejectMessageGoesOn ==
    /\ pc = "process"
    /\ \/ CurrentMessage = Poison
       \/ /\ CurrentMessage \in Events
          /\ ProcessEvent(CurrentMessage, "invalid")
    /\ pc' = "enqueue"
    /\ Count("processingFailures")
    /\ UNCHANGED <<position, resumed, current, redisVars, postgresVars,
                   kafkaVars, historyVars, logVars, faults>>

\* Mutant of RejectMessage: commit = false for a rejected message.
RejectMessageUncommitted ==
    /\ pc = "process"
    /\ \/ CurrentMessage = Poison
       \/ /\ CurrentMessage \in Events
          /\ ProcessEvent(CurrentMessage, "invalid")
    /\ pc' = "fetch"
    /\ current' = NoMessage
    /\ Count("processingFailures")
    /\ UNCHANGED <<position, resumed, redisVars, postgresVars,
                   kafkaVars, historyVars, logVars, faults>>

\* json.Unmarshal fails, or the event has weight and lacks its id or its
\* repository: the failure is counted and the message is committed.
RejectMessage ==
    /\ pc = "process"
    /\ \/ CurrentMessage = Poison
       \/ /\ CurrentMessage \in Events
          /\ ProcessEvent(CurrentMessage, "invalid")
    /\ pc' = "commit"
    /\ Count("processingFailures")
    /\ UNCHANGED <<position, resumed, current, redisVars, postgresVars,
                   kafkaVars, historyVars, logVars, faults>>

\* Mutant of AfterProcessEvent: a duplicate is not handed to the queue.
AfterProcessEventSkipsDuplicates(status) ==
    /\ pc' = IF status = "duplicate" THEN "commit" ELSE "enqueue"
    /\ metrics' = CASE status = "processed" ->
                           [metrics EXCEPT !["processed"] = @ + 1]
                    [] status = "duplicate" ->
                           [metrics EXCEPT !["duplicates"] = @ + 1]
                    [] OTHER -> metrics
    /\ UNCHANGED <<position, resumed, current, redisErrors>>

\* ProcessEvent has returned without an error. There is no counter for an
\* ignored event.
AfterProcessEvent(status) ==
    /\ pc' = "enqueue"
    /\ metrics' = CASE status = "processed" ->
                           [metrics EXCEPT !["processed"] = @ + 1]
                    [] status = "duplicate" ->
                           [metrics EXCEPT !["duplicates"] = @ + 1]
                    [] OTHER -> metrics
    /\ UNCHANGED <<position, resumed, current, redisErrors>>

\* Mutant of AfterRedisError: the event is queued in spite of the error.
AfterRedisErrorGoesOn ==
    /\ pc' = "enqueue"
    /\ Count("redisFailures")
    /\ redisErrors' = redisErrors \union {current}
    /\ UNCHANGED <<position, resumed, current>>

\* ProcessEvent has returned another error: it is counted and logged, and the
\* loop goes on to the next message without committing this one.
AfterRedisError ==
    /\ pc' = "fetch"
    /\ Count("redisFailures")
    /\ redisErrors' = redisErrors \union {current}
    /\ current' = NoMessage
    /\ UNCHANGED <<position, resumed>>

ProcessMessage ==
    /\ pc = "process"
    /\ CurrentMessage \in Events
    /\ \/ \E status \in {"processed", "duplicate", "ignored"} :
             /\ ProcessEvent(CurrentMessage, status)
             /\ AfterProcessEvent(status)
       \/ /\ ProcessEvent(CurrentMessage, "error")
          /\ AfterRedisError
    /\ UNCHANGED <<postgresVars, kafkaVars, historyVars, pgErrors, faults>>

ProcessMessageFaulty ==
    /\ pc = "process"
    /\ CurrentMessage \in Events
    /\ Fault("redis")
    /\ \/ /\ ProcessEventFaulty(CurrentMessage, "duplicate")
          /\ AfterProcessEvent("duplicate")
       \/ /\ ProcessEventFaulty(CurrentMessage, "error")
          /\ AfterRedisError
    /\ UNCHANGED <<postgresVars, kafkaVars, historyVars, pgErrors>>

\* enqueuePersistence: never waits. A record that finds the queue full is
\* dropped, counted and logged.
enqueuePersistence(e) ==
    \/ /\ ~historyOn
       /\ UNCHANGED <<queue, metrics, pgErrors>>
    \/ /\ historyOn
       /\ Len(queue) < QueueSize
       /\ queue' = Append(queue, e)
       /\ UNCHANGED <<metrics, pgErrors>>
    \/ /\ historyOn
       /\ Len(queue) >= QueueSize
       /\ Count("persistenceDropped")
       /\ pgErrors' = pgErrors \union {e}
       /\ UNCHANGED queue

Enqueue ==
    /\ pc = "enqueue"
    /\ enqueuePersistence(CurrentMessage)
    /\ pc' = "commit"
    /\ UNCHANGED <<position, resumed, current, redisVars, postgresVars, kafkaVars,
                   historyOn, holding, redisErrors, faults>>

\* CommitMessages sets the offset of the group for the whole partition.
CommitMessages ==
    /\ pc = "commit"
    /\ committed' = [committed EXCEPT ![current.part] = current.off]
    /\ pc' = "fetch"
    /\ current' = NoMessage
    /\ UNCHANGED <<log, position, resumed, redisVars, postgresVars, historyVars,
                   metrics, logVars, faults>>

-----------------------------------------------------------------------------
(* runPersistenceWorker.                                                   *)

TakeRecord(w) ==
    /\ historyOn
    /\ holding[w] = NoEvent
    /\ queue # <<>>
    /\ holding' = [holding EXCEPT ![w] = Head(queue)]
    /\ queue' = Tail(queue)
    /\ UNCHANGED <<historyOn, redisVars, postgresVars, kafkaVars, readerVars,
                   metrics, logVars, faults>>

\* Mutant of AfterPersistEvent: persisted is not looked at.
AfterPersistEventCountsKnown(w, outcome) ==
    /\ holding' = [holding EXCEPT ![w] = NoEvent]
    /\ IF outcome = "error"
       THEN /\ Count("postgresWriteFailures")
            /\ pgErrors' = pgErrors \union {holding[w]}
       ELSE Count("postgresWrites") /\ UNCHANGED pgErrors
    /\ UNCHANGED <<historyOn, queue>>

\* Mutant of AfterPersistEvent: the error is swallowed.
AfterPersistEventSilent(w, outcome) ==
    /\ holding' = [holding EXCEPT ![w] = NoEvent]
    /\ IF outcome = "persisted" THEN Count("postgresWrites") ELSE UNCHANGED metrics
    /\ UNCHANGED <<historyOn, queue, pgErrors>>

\* RecordPostgresWrite counts every write that inserted a row, also one that
\* left only metadata, as a snapshot write.
AfterPersistEvent(w, outcome) ==
    /\ holding' = [holding EXCEPT ![w] = NoEvent]
    /\ CASE outcome = "persisted" ->
              /\ metrics' = [metrics EXCEPT !["postgresWrites"] = @ + 1,
                                           !["snapshotWrites"] = @ + 1]
              /\ UNCHANGED pgErrors
         [] outcome = "known" ->
              UNCHANGED <<metrics, pgErrors>>
         [] OTHER ->
              /\ Count("postgresWriteFailures")
              /\ pgErrors' = pgErrors \union {holding[w]}
    /\ UNCHANGED <<historyOn, queue>>

PersistRecord(w) ==
    /\ holding[w] # NoEvent
    /\ \E outcome \in {"persisted", "known", "error"} :
          /\ PersistEvent(holding[w], outcome)
          /\ AfterPersistEvent(w, outcome)
    /\ UNCHANGED <<redisVars, kafkaVars, readerVars, redisErrors, faults>>

PersistRecordFaulty(w) ==
    /\ holding[w] # NoEvent
    /\ Fault("postgres")
    /\ PersistEventFaulty(holding[w], "error")
    /\ AfterPersistEvent(w, "error")
    /\ UNCHANGED <<redisVars, kafkaVars, readerVars, redisErrors>>

-----------------------------------------------------------------------------
(* Time in Redis.                                                          *)

Expire ==
    /\ Fault("expiry")
    /\ \/ \E e \in Events : MarkerExpires(e)
       \/ \E w \in Windows : WindowExpires(w)
    /\ UNCHANGED <<postgresVars, kafkaVars, readerVars, historyVars, metrics,
                   logVars>>

-----------------------------------------------------------------------------

Reader ==
    \/ \E p \in Partitions : FetchMessage(p)
    \/ RejectMessage
    \/ ProcessMessage
    \/ Enqueue
    \/ CommitMessages

Worker(w) == TakeRecord(w) \/ PersistRecord(w)

Next ==
    \/ \E e \in Events : Publish(e)
    \/ \E p \in Partitions : PublishPoison(p)
    \/ Start
    \/ StartWithoutHistory
    \/ Stop
    \/ Rebalance
    \/ Reader
    \/ ProcessMessageFaulty
    \/ \E w \in Workers : Worker(w)
    \/ \E w \in Workers : PersistRecordFaulty(w)
    \/ Expire

Spec == Init /\ [][Next]_vars

\* The Go scheduler runs every goroutine that can run, kafka-go delivers every
\* message, and docker-compose restarts a stopped container ("restart:
\* unless-stopped"). Nothing is assumed of the ingestor or of any failure.
Fairness ==
    /\ WF_vars(Start)
    /\ WF_vars(Reader)
    /\ \A w \in Workers : WF_vars(Worker(w))

FairSpec == Spec /\ Fairness
=============================================================================
