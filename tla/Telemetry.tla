------------------------------ MODULE Telemetry ------------------------------
(***************************************************************************)
(* The metrics of the consumer while they move: the reading goroutine and  *)
(* the workers add to single atomic counters and store the queue depth,    *)
(* and GET /metrics loads the counters one after the other                 *)
(* (internal/consumer/metrics.go). Each atomic operation, each operation   *)
(* of the channel and each len(queue) is a step. Of a message only what    *)
(* ProcessEvent says of it is left; the sums of nanoseconds are left out.  *)
(***************************************************************************)
EXTENDS Integers, Sequences, FiniteSets

CONSTANTS Workers,    \* PERSISTENCE_WORKERS goroutines
          Reader,     \* the reading goroutine
          QueueSize,  \* PERSISTENCE_QUEUE_SIZE
          MaxConsumed \* bound of the model: messages read

ASSUME TelemetryAssumption ==
    /\ Reader \notin Workers
    /\ "gauge" \notin Workers \union {Reader}
    /\ IsFiniteSet(Workers)
    /\ QueueSize \in Nat \ {0}
    /\ MaxConsumed \in Nat

VARIABLES metrics,  \* the counters
          queued,   \* len(persistenceQueue)
          gauge,    \* persistenceQueueDepth
          at,       \* goroutine -> its next step
          measured, \* goroutine -> the len(queue) it is about to store
          loaded,   \* counters this scrape has read, and their values
          ignored,  \* messages without weight so far: no counter has them
          stale     \* goroutines whose measured another has made old; "gauge"
                    \* when such a value is what the gauge holds

vars == <<metrics, queued, gauge, at, measured, loaded, ignored, stale>>

Goroutines == Workers \union {Reader}

\* In the order in which Snapshot loads them; two of the six buckets.
Counters == <<"consumed", "processed", "duplicates", "redisFailures",
              "processingFailures", "fast", "slow", "postgresWrites",
              "postgresWriteFailures", "persistenceDropped", "snapshotWrites">>

Names == {Counters[i] : i \in 1..Len(Counters)}

\* NewMetrics, before the goroutines start.
Init ==
    /\ metrics = [c \in Names |-> 0]
    /\ queued = 0
    /\ gauge = 0
    /\ at = [g \in Goroutines |-> IF g = Reader THEN "fetch" ELSE "receive"]
    /\ measured = [g \in Goroutines |-> 0]
    /\ loaded = <<>>
    /\ ignored = 0
    /\ stale = {}

Add(c) == metrics' = [metrics EXCEPT ![c] = @ + 1]

Goto(g, next) == at' = [at EXCEPT ![g] = next]

-----------------------------------------------------------------------------
(* The reading goroutine: processMessage and enqueuePersistence.           *)

RecordConsumed ==
    /\ at[Reader] = "fetch"
    /\ metrics["consumed"] < MaxConsumed
    /\ Add("consumed")
    /\ Goto(Reader, "process")
    /\ UNCHANGED <<queued, gauge, measured, loaded, ignored, stale>>

\* RecordProcessed up to the latency bucket.
RecordProcessed ==
    /\ at[Reader] = "process"
    /\ Add("processed")
    /\ Goto(Reader, "bucket")
    /\ UNCHANGED <<queued, gauge, measured, loaded, ignored, stale>>

recordProcessingLatencyBucket ==
    /\ at[Reader] = "bucket"
    /\ \E bucket \in {"fast", "slow"} : Add(bucket)
    /\ Goto(Reader, "send")
    /\ UNCHANGED <<queued, gauge, measured, loaded, ignored, stale>>

\* A duplicate goes on to the queue, a failure on to the next message.
RecordOther ==
    /\ at[Reader] = "process"
    /\ \/ Add("duplicates") /\ Goto(Reader, "send")
       \/ /\ \E c \in {"redisFailures", "processingFailures"} : Add(c)
          /\ Goto(Reader, "fetch")
    /\ UNCHANGED <<queued, gauge, measured, loaded, ignored, stale>>

IgnoreUnweighted ==
    /\ at[Reader] = "process"
    /\ ignored' = ignored + 1
    /\ Goto(Reader, "send")
    /\ UNCHANGED <<metrics, queued, gauge, measured, loaded, stale>>

\* A channel operation of g: what others have measured is old now.
Outdates(g) == stale' = stale \union {h \in Goroutines \ {g} : at[h] = "store"}

\* Mutant of Send: len(persistenceQueue) is read before the send.
SendAfterMeasuring ==
    /\ at[Reader] = "send"
    /\ queued < QueueSize
    /\ queued' = queued + 1
    /\ measured' = [measured EXCEPT ![Reader] = queued]
    /\ Outdates(Reader)
    /\ Goto(Reader, "store")
    /\ UNCHANGED <<metrics, gauge, loaded, ignored>>

\* Mutant of Send: a send that does not meet the capacity of the channel.
SendUnbounded ==
    /\ at[Reader] = "send"
    /\ queued' = queued + 1
    /\ Outdates(Reader)
    /\ Goto(Reader, "measure")
    /\ UNCHANGED <<metrics, gauge, measured, loaded, ignored>>

Send ==
    /\ at[Reader] = "send"
    /\ queued < QueueSize
    /\ queued' = queued + 1
    /\ Outdates(Reader)
    /\ Goto(Reader, "measure")
    /\ UNCHANGED <<metrics, gauge, measured, loaded, ignored>>

RecordPersistenceDropped ==
    /\ at[Reader] = "send"
    /\ queued = QueueSize
    /\ Add("persistenceDropped")
    /\ Goto(Reader, "measure")
    /\ UNCHANGED <<queued, gauge, measured, loaded, ignored, stale>>

-----------------------------------------------------------------------------
(* The workers: runPersistenceWorker.                                      *)

Receive(w) ==
    /\ at[w] = "receive"
    /\ queued > 0
    /\ queued' = queued - 1
    /\ Outdates(w)
    /\ Goto(w, "measure")
    /\ UNCHANGED <<metrics, gauge, measured, loaded, ignored>>

\* PersistEvent returns, and the first counter of its outcome.
Write(w) ==
    /\ at[w] = "write"
    /\ \/ Add("postgresWrites") /\ Goto(w, "snapshot")
       \/ Add("postgresWriteFailures") /\ Goto(w, "receive")
       \/ UNCHANGED metrics /\ Goto(w, "receive")
    /\ UNCHANGED <<queued, gauge, measured, loaded, ignored, stale>>

\* The second counter of RecordPostgresWrite.
RecordPostgresWrite(w) ==
    /\ at[w] = "snapshot"
    /\ Add("snapshotWrites")
    /\ Goto(w, "receive")
    /\ UNCHANGED <<queued, gauge, measured, loaded, ignored, stale>>

-----------------------------------------------------------------------------
(* SetPersistenceQueueDepth(len(queue)), of the reader and of each worker. *)

Measure(g) ==
    /\ at[g] = "measure"
    /\ measured' = [measured EXCEPT ![g] = queued]
    /\ Goto(g, "store")
    /\ UNCHANGED <<metrics, queued, gauge, loaded, ignored, stale>>

SetPersistenceQueueDepth(g) ==
    /\ at[g] = "store"
    /\ gauge' = measured[g]
    /\ stale' = IF g \in stale THEN (stale \ {g}) \union {"gauge"}
                               ELSE stale \ {"gauge"}
    /\ Goto(g, IF g = Reader THEN "fetch" ELSE "write")
    /\ UNCHANGED <<metrics, queued, measured, loaded, ignored>>

-----------------------------------------------------------------------------
(* GET /metrics.                                                           *)

\* Mutant of Load: in reverse order.
LoadBackwards ==
    /\ Len(loaded) < Len(Counters)
    /\ loaded' = <<metrics[Counters[Len(Counters) - Len(loaded)]]>> \o loaded
    /\ UNCHANGED <<metrics, queued, gauge, at, measured, ignored, stale>>

\* Snapshot loads the next counter.
Load ==
    /\ Len(loaded) < Len(Counters)
    /\ loaded' = Append(loaded, metrics[Counters[Len(loaded) + 1]])
    /\ UNCHANGED <<metrics, queued, gauge, at, measured, ignored, stale>>

\* handleMetrics has rendered the snapshot; another scrape begins.
Render ==
    /\ Len(loaded) = Len(Counters)
    /\ loaded' = <<>>
    /\ UNCHANGED <<metrics, queued, gauge, at, measured, ignored, stale>>

-----------------------------------------------------------------------------

Next ==
    \/ RecordConsumed \/ RecordProcessed \/ recordProcessingLatencyBucket
    \/ RecordOther \/ IgnoreUnweighted
    \/ Send \/ RecordPersistenceDropped
    \/ \E w \in Workers : Receive(w) \/ Write(w) \/ RecordPostgresWrite(w)
    \/ \E g \in Goroutines : Measure(g) \/ SetPersistenceQueueDepth(g)
    \/ Load \/ Render

Spec == Init /\ [][Next]_vars

-----------------------------------------------------------------------------

Atoms == {"fetch", "process", "bucket", "send", "measure", "store",
          "receive", "write", "snapshot"}

\* Every variable has its type; the reader and the workers are at their own
\* steps.
TelemetryTypeOK ==
    /\ metrics \in [Names -> Nat]
    /\ queued \in 0..QueueSize
    /\ gauge \in 0..QueueSize
    /\ at \in [Goroutines -> Atoms]
    /\ measured \in [Goroutines -> 0..QueueSize]
    /\ loaded \in Seq(Nat)
    /\ Len(loaded) <= Len(Counters)
    /\ ignored \in Nat
    /\ stale \subseteq Goroutines \union {"gauge"}

\* A scrape never shows a message as consumed, processed or written whose
\* consequence it misses, but for those at hand when it began: at most one
\* message without an outcome, one outcome outside the latency histogram, and
\* one write per worker without its snapshot. Snapshot loads causes before
\* their effects, so counters that move meanwhile can only add effects.
ScrapeMissesOnlyWhatIsAtHand ==
    (Len(loaded) = Len(Counters)) =>
        /\ loaded[1] <= loaded[2] + loaded[3] + loaded[4] + loaded[5] + ignored + 1
        /\ loaded[2] <= loaded[6] + loaded[7] + 1
        /\ loaded[8] <= loaded[11] + Cardinality(Workers)

\* When nobody is about to change it, the gauge shows the length of the queue,
\* unless its last store was overtaken: another goroutine used the queue
\* between len(queue) and that store. Nothing else makes it wrong, neither a
\* drop nor a full or an empty queue.
GaugeWrongOnlyWhenOvertaken ==
    (\A g \in Goroutines : at[g] \notin {"measure", "store"}) =>
        gauge = queued \/ "gauge" \in stale
=============================================================================
