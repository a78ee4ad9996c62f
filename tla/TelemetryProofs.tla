--------------------------- MODULE TelemetryProofs ---------------------------
(***************************************************************************)
(* Proofs about Telemetry: types, what a scrape may miss, and when the     *)
(* gauge of the queue depth is wrong, for any number of workers, any queue *)
(* size and any number of messages.                                        *)
(***************************************************************************)
EXTENDS Telemetry, FiniteSetTheorems, TLAPS

\* Workers between the two counters of RecordPostgresWrite.
Between == {w \in Workers : at[w] = "snapshot"}

\* The counters themselves: causes and effects differ by what is at hand.
Balanced ==
    /\ metrics["consumed"] =
           metrics["processed"] + metrics["duplicates"]
               + metrics["redisFailures"] + metrics["processingFailures"]
               + ignored + (IF at[Reader] = "process" THEN 1 ELSE 0)
    /\ metrics["processed"] = metrics["fast"] + metrics["slow"]
                                  + (IF at[Reader] = "bucket" THEN 1 ELSE 0)
    /\ metrics["postgresWrites"] =
           metrics["snapshotWrites"] + Cardinality(Between)

\* What the scrape shows of counter i, or would if it loaded it now.
Seen(i) == IF i <= Len(loaded) THEN loaded[i] ELSE metrics[Counters[i]]

\* From the load of a cause on, its effects can only grow.
ScrapeBehind ==
    /\ Len(loaded) >= 1 =>
           Seen(1) <= Seen(2) + Seen(3) + Seen(4) + Seen(5) + ignored + 1
    /\ Len(loaded) >= 2 => Seen(2) <= Seen(6) + Seen(7) + 1
    /\ Len(loaded) >= 8 => Seen(8) <= Seen(11) + Cardinality(Workers)

\* A length that is about to be stored is the present one, unless another
\* goroutine has used the queue.
MeasuredIsQueued ==
    \A g \in Goroutines : at[g] = "store" => measured[g] = queued \/ g \in stale

TelemetryInv ==
    /\ TelemetryTypeOK
    /\ Balanced
    /\ ScrapeBehind
    /\ MeasuredIsQueued
    /\ GaugeWrongOnlyWhenOvertaken

-----------------------------------------------------------------------------
(* Types.                                                                  *)

LEMMA NumberOfCounters == Len(Counters) = 11
  BY DEF Counters

LEMMA OrderOfCounters ==
  /\ Counters[1] = "consumed" /\ Counters[2] = "processed"
  /\ Counters[3] = "duplicates" /\ Counters[4] = "redisFailures"
  /\ Counters[5] = "processingFailures"
  /\ Counters[6] = "fast" /\ Counters[7] = "slow"
  /\ Counters[8] = "postgresWrites"
  /\ Counters[9] = "postgresWriteFailures"
  /\ Counters[10] = "persistenceDropped" /\ Counters[11] = "snapshotWrites"
  BY DEF Counters

LEMMA CounterHasName == \A i \in 1..11 : Counters[i] \in Names
  BY NumberOfCounters DEF Names

LEMMA ElevenCounters ==
  {"consumed", "processed", "duplicates", "redisFailures",
   "processingFailures", "fast", "slow", "postgresWrites",
   "postgresWriteFailures", "persistenceDropped", "snapshotWrites"}
      \subseteq Names
  BY NumberOfCounters, OrderOfCounters, CounterHasName

LEMMA UpToEleven == ASSUME NEW n \in Nat, n < 11 PROVE n + 1 \in 1..11
  OBVIOUS

LEMMA LengthCases ==
  ASSUME NEW n \in Nat
  PROVE  (n = 0 \/ n = 1 \/ n >= 2) /\ (n < 7 \/ n = 7 \/ n >= 8)
  OBVIOUS

\* Steps of the goroutines leave the scrape alone; Load and Render touch
\* nothing else.
Counts ==
    \/ RecordConsumed \/ RecordProcessed \/ recordProcessingLatencyBucket
    \/ RecordOther \/ RecordPersistenceDropped
    \/ \E w \in Workers : Write(w) \/ RecordPostgresWrite(w)

LEMMA CountsAdd ==
  ASSUME Counts
  PROVE  \/ UNCHANGED metrics
         \/ \E c \in Names : Add(c)
<1>1. CASE RecordConsumed \/ RecordProcessed \/ RecordPersistenceDropped
  BY <1>1, ElevenCounters DEF RecordConsumed, RecordProcessed, RecordPersistenceDropped
<1>2. CASE recordProcessingLatencyBucket \/ RecordOther
  BY <1>2, ElevenCounters DEF recordProcessingLatencyBucket, RecordOther
<1>3. CASE \E w \in Workers : Write(w) \/ RecordPostgresWrite(w)
  BY <1>3, ElevenCounters DEF Write, RecordPostgresWrite
<1> QED
  BY <1>1, <1>2, <1>3 DEF Counts

LEMMA CountsMove ==
  ASSUME TelemetryTypeOK, Counts
  PROVE  /\ at' \in [Goroutines -> Atoms]
         /\ UNCHANGED <<queued, gauge, measured, loaded, ignored, stale>>
<1> USE DEF Goto, Goroutines, Atoms, TelemetryTypeOK
<1>1. CASE RecordConsumed \/ RecordProcessed \/ RecordPersistenceDropped
  BY <1>1 DEF RecordConsumed, RecordProcessed, RecordPersistenceDropped
<1>2. CASE recordProcessingLatencyBucket \/ RecordOther
  BY <1>2 DEF recordProcessingLatencyBucket, RecordOther
<1>3. CASE \E w \in Workers : Write(w) \/ RecordPostgresWrite(w)
  BY <1>3 DEF Write, RecordPostgresWrite
<1> QED
  BY <1>1, <1>2, <1>3 DEF Counts

LEMMA TypesKept ==
  ASSUME TelemetryTypeOK, [Next]_vars
  PROVE  TelemetryTypeOK'
<1> USE TelemetryAssumption
<1> USE DEF Goto, Goroutines, Atoms
<1>1. CASE Counts
  <2>1. metrics' \in [Names -> Nat]
    BY <1>1, CountsAdd DEF TelemetryTypeOK, Add
  <2> QED
    BY <1>1, <2>1, CountsMove DEF TelemetryTypeOK
<1>2. CASE IgnoreUnweighted
  BY <1>2 DEF TelemetryTypeOK, IgnoreUnweighted
<1>3. CASE Send \/ \E w \in Workers : Receive(w)
  <2>1. queued' \in 0..QueueSize
    BY <1>3 DEF TelemetryTypeOK, Send, Receive
  <2>2. at' \in [Goroutines -> Atoms] /\ stale' \subseteq Goroutines \union {"gauge"}
    BY <1>3 DEF TelemetryTypeOK, Send, Receive, Outdates
  <2>3. UNCHANGED <<metrics, gauge, measured, loaded, ignored>>
    BY <1>3 DEF Send, Receive
  <2> QED
    BY <2>1, <2>2, <2>3 DEF TelemetryTypeOK
<1>4. CASE \E g \in Goroutines : Measure(g)
  BY <1>4 DEF TelemetryTypeOK, Measure
<1>8. CASE \E g \in Goroutines : SetPersistenceQueueDepth(g)
  BY <1>8 DEF TelemetryTypeOK, SetPersistenceQueueDepth
<1>5. CASE Load
  <2>4. loaded \in Seq(Nat) /\ Len(loaded) \in Nat /\ Len(loaded) < 11
    BY <1>5, NumberOfCounters DEF TelemetryTypeOK, Load
  <2>1. Len(loaded) + 1 \in 1..11
    BY <2>4, UpToEleven
  <2>2. metrics[Counters[Len(loaded) + 1]] \in Nat
    BY <2>1, CounterHasName DEF TelemetryTypeOK
  <2>3. loaded' \in Seq(Nat) /\ Len(loaded') <= Len(Counters)
    BY <1>5, <2>1, <2>2, NumberOfCounters DEF TelemetryTypeOK, Load
  <2> QED
    BY <1>5, <2>3 DEF TelemetryTypeOK, Load
<1>6. CASE Render
  <2>1. loaded' \in Seq(Nat) /\ Len(loaded') <= Len(Counters)
    BY <1>6, NumberOfCounters DEF Render
  <2> QED
    BY <1>6, <2>1 DEF TelemetryTypeOK, Render
<1>7. CASE UNCHANGED vars
  BY <1>7 DEF TelemetryTypeOK, vars
<1> QED
  BY <1>1, <1>2, <1>3, <1>4, <1>5, <1>6, <1>7, <1>8 DEF Next, Counts

-----------------------------------------------------------------------------
(* The counters.                                                           *)

LEMMA BetweenFinite == IsFiniteSet(Between)
  BY TelemetryAssumption, FS_Subset DEF Between

\* A step that moves no worker to or from the second counter.
LEMMA BetweenKept ==
  ASSUME TelemetryTypeOK,
         \A w \in Workers : at'[w] = "snapshot" <=> at[w] = "snapshot"
  PROVE  Cardinality(Between') = Cardinality(Between)
<1>1. Between' = Between
  BY DEF Between
<1> QED
  BY <1>1

LEMMA BalancedByReader ==
  ASSUME TelemetryTypeOK, Balanced,
         \/ RecordConsumed \/ RecordProcessed \/ recordProcessingLatencyBucket
         \/ RecordOther \/ IgnoreUnweighted \/ RecordPersistenceDropped
  PROVE  Balanced'
<1> USE TelemetryAssumption, ElevenCounters
<1>1. \A c \in Names : metrics[c] \in Nat
  BY DEF TelemetryTypeOK
<1>2. \A w \in Workers : at'[w] = at[w]
  BY DEF TelemetryTypeOK, Goto, Goroutines, RecordConsumed, RecordProcessed,
     recordProcessingLatencyBucket, RecordOther, IgnoreUnweighted,
     RecordPersistenceDropped
<1>3. Cardinality(Between') = Cardinality(Between)
  BY <1>2, BetweenKept
<1>4. ignored \in Nat /\ at \in [Goroutines -> Atoms] /\ metrics \in [Names -> Nat]
  BY DEF TelemetryTypeOK
<1>5. Cardinality(Between) \in Nat
  BY BetweenFinite, FS_CardinalityType
<1>6. CASE RecordConsumed
  BY <1>1, <1>3, <1>4, <1>5, <1>6
  DEF Balanced, RecordConsumed, Add, Goto, Goroutines
<1>7. CASE RecordProcessed
  BY <1>1, <1>3, <1>4, <1>5, <1>7
  DEF Balanced, RecordProcessed, Add, Goto, Goroutines
<1>8. CASE recordProcessingLatencyBucket
  BY <1>1, <1>3, <1>4, <1>5, <1>8
  DEF Balanced, recordProcessingLatencyBucket, Add, Goto, Goroutines
<1>9. CASE RecordOther
  BY <1>1, <1>3, <1>4, <1>5, <1>9
  DEF Balanced, RecordOther, Add, Goto, Goroutines
<1>10. CASE IgnoreUnweighted
  BY <1>1, <1>3, <1>4, <1>5, <1>10
  DEF Balanced, IgnoreUnweighted, Goto, Goroutines
<1>11. CASE RecordPersistenceDropped
  BY <1>1, <1>3, <1>4, <1>5, <1>11
  DEF Balanced, RecordPersistenceDropped, Add, Goto, Goroutines
<1> QED
  BY <1>6, <1>7, <1>8, <1>9, <1>10, <1>11

LEMMA BalancedByWorker ==
  ASSUME TelemetryTypeOK, Balanced, NEW w \in Workers,
         Write(w) \/ RecordPostgresWrite(w)
  PROVE  Balanced'
<1> USE TelemetryAssumption, ElevenCounters
<1>1. /\ ignored' = ignored /\ at'[Reader] = at[Reader]
      /\ \A v \in Workers \ {w} : at'[v] = at[v]
  BY DEF TelemetryTypeOK, Goto, Goroutines, Write, RecordPostgresWrite
<1>2. metrics \in [Names -> Nat] /\ at \in [Goroutines -> Atoms]
  BY DEF TelemetryTypeOK
<1>3. Cardinality(Between) \in Nat
  BY BetweenFinite, FS_CardinalityType
<1>4. CASE Write(w) /\ at'[w] = "snapshot"
  <2>1. w \notin Between /\ Between' = Between \union {w}
    BY <1>1, <1>4 DEF Between, Write
  <2>2. Cardinality(Between') = Cardinality(Between) + 1
    BY <2>1, BetweenFinite, FS_AddElement
  <2>3. metrics' = [metrics EXCEPT !["postgresWrites"] = @ + 1]
    BY <1>2, <1>4 DEF Write, Add, Goto, Goroutines
  <2> QED
    BY <1>1, <1>2, <1>3, <2>2, <2>3 DEF Balanced
<1>5. CASE Write(w) /\ at'[w] # "snapshot"
  <2>1. Cardinality(Between') = Cardinality(Between)
    BY <1>1, <1>5, BetweenKept DEF Write
  <2>2. \/ metrics' = metrics
        \/ metrics' = [metrics EXCEPT !["postgresWriteFailures"] = @ + 1]
    BY <1>2, <1>5 DEF Write, Add, Goto, Goroutines
  <2> QED
    BY <1>1, <1>2, <2>1, <2>2 DEF Balanced
<1>6. CASE RecordPostgresWrite(w)
  <2>1. w \in Between /\ Between' = Between \ {w}
    BY <1>1, <1>2, <1>6 DEF Between, RecordPostgresWrite, Goto, Goroutines
  <2>2. Cardinality(Between') = Cardinality(Between) - 1
    BY <2>1, BetweenFinite, FS_RemoveElement
  <2>3. metrics' = [metrics EXCEPT !["snapshotWrites"] = @ + 1]
    BY <1>6 DEF RecordPostgresWrite, Add
  <2> QED
    BY <1>1, <1>2, <1>3, <2>2, <2>3 DEF Balanced
<1> QED
  BY <1>4, <1>5, <1>6

LEMMA BalancedKept ==
  ASSUME TelemetryTypeOK, Balanced, [Next]_vars
  PROVE  Balanced'
<1> USE TelemetryAssumption
<1>1. CASE \/ RecordConsumed \/ RecordProcessed \/ recordProcessingLatencyBucket
           \/ RecordOther \/ IgnoreUnweighted \/ RecordPersistenceDropped
  BY <1>1, BalancedByReader
<1>2. CASE \E w \in Workers : Write(w) \/ RecordPostgresWrite(w)
  BY <1>2, BalancedByWorker
<1>3. CASE Send \/ (\E w \in Workers : Receive(w))
           \/ (\E g \in Goroutines : Measure(g) \/ SetPersistenceQueueDepth(g))
           \/ Load \/ Render \/ UNCHANGED vars
  <2>1. UNCHANGED <<metrics, ignored>>
    BY <1>3 DEF Send, Receive, Measure, SetPersistenceQueueDepth, Load, Render, vars
  <2>2. \A g \in Goroutines :
            (at[g] \in {"process", "bucket", "snapshot"}
                 \/ at'[g] \in {"process", "bucket", "snapshot"}) => at'[g] = at[g]
    BY <1>3 DEF TelemetryTypeOK, Send, Receive, Measure,
       SetPersistenceQueueDepth, Load, Render, vars, Goto, Goroutines
  <2>3. Cardinality(Between') = Cardinality(Between)
    BY <2>2, BetweenKept DEF Goroutines
  <2>4. /\ at'[Reader] = "process" <=> at[Reader] = "process"
        /\ at'[Reader] = "bucket" <=> at[Reader] = "bucket"
    BY <2>2 DEF Goroutines
  <2> QED
    BY <2>1, <2>3, <2>4 DEF Balanced
<1> QED
  BY <1>1, <1>2, <1>3 DEF Next

-----------------------------------------------------------------------------
(* The scrape.                                                             *)

\* Counters never go down.
LEMMA CountersGrow ==
  ASSUME TelemetryTypeOK, [Next]_vars
  PROVE  /\ \A c \in Names : metrics[c] \in Nat /\ metrics'[c] >= metrics[c]
         /\ ignored \in Nat /\ ignored' >= ignored
<1>1. CASE Counts
  <2>1. metrics \in [Names -> Nat] /\ ignored \in Nat /\ UNCHANGED ignored
    BY <1>1, CountsMove DEF TelemetryTypeOK
  <2>2. CASE UNCHANGED metrics
    BY <2>1, <2>2
  <2>3. CASE \E c \in Names : metrics' = [metrics EXCEPT ![c] = @ + 1]
    BY <2>1, <2>3
  <2> QED
    BY <1>1, <2>2, <2>3, CountsAdd DEF Add
<1>2. CASE IgnoreUnweighted
  BY <1>2 DEF TelemetryTypeOK, IgnoreUnweighted
<1>3. CASE ~Counts /\ ~IgnoreUnweighted
  <2>1. UNCHANGED <<metrics, ignored>>
    BY <1>3 DEF Next, Counts, Send, Receive, Measure, SetPersistenceQueueDepth,
       Load, Render, vars
  <2> QED
    BY <2>1 DEF TelemetryTypeOK
<1> QED
  BY <1>1, <1>2, <1>3

\* Sums that bound a number go on bounding it when they grow.
LEMMA OutcomesGrow ==
  ASSUME NEW a \in Nat, NEW b \in Nat, NEW c \in Nat, NEW d \in Nat, NEW e \in Nat,
         NEW i \in Nat, a <= b + c + d + e + i + 1,
         NEW b1 \in Nat, NEW c1 \in Nat, NEW d1 \in Nat, NEW e1 \in Nat,
         NEW i1 \in Nat, b1 >= b, c1 >= c, d1 >= d, e1 >= e, i1 >= i
  PROVE  a <= b1 + c1 + d1 + e1 + i1 + 1
  OBVIOUS

LEMMA BucketsGrow ==
  ASSUME NEW a \in Nat, NEW b \in Nat, NEW c \in Nat, a <= b + c + 1,
         NEW b1 \in Nat, NEW c1 \in Nat, b1 >= b, c1 >= c
  PROVE  a <= b1 + c1 + 1
  OBVIOUS

LEMMA WritesGrow ==
  ASSUME NEW a \in Nat, NEW b \in Nat, NEW n \in Nat, a <= b + n,
         NEW b1 \in Nat, b1 >= b
  PROVE  a <= b1 + n
  OBVIOUS

LEMMA SumOfFive ==
  ASSUME NEW a \in Nat, NEW b \in Nat, NEW c \in Nat, NEW d \in Nat, NEW e \in Nat
  PROVE  a + b + c + d + e \in Nat
  OBVIOUS

\* When a cause is loaded, the counters differ only by what is at hand.
LEMMA OutcomesAtFirst ==
  ASSUME TelemetryTypeOK, Balanced, Len(loaded) = 0
  PROVE  Seen(1) <= Seen(2) + Seen(3) + Seen(4) + Seen(5) + ignored + 1
<1> DEFINE sum == metrics["processed"] + metrics["duplicates"]
               + metrics["redisFailures"] + metrics["processingFailures"] + ignored
<1>1. /\ Seen(1) = metrics["consumed"] /\ Seen(2) = metrics["processed"]
      /\ Seen(3) = metrics["duplicates"] /\ Seen(4) = metrics["redisFailures"]
      /\ Seen(5) = metrics["processingFailures"]
  BY OrderOfCounters DEF Seen
<1>2. metrics["consumed"] \in Nat /\ sum \in Nat
  <2>1. /\ metrics["consumed"] \in Nat /\ metrics["processed"] \in Nat
        /\ metrics["duplicates"] \in Nat /\ metrics["redisFailures"] \in Nat
        /\ metrics["processingFailures"] \in Nat /\ ignored \in Nat
    BY ElevenCounters DEF TelemetryTypeOK
  <2> QED
    BY ONLY <2>1, SumOfFive
<1>3. metrics["consumed"] = sum + (IF at[Reader] = "process" THEN 1 ELSE 0)
  BY DEF Balanced
<1> HIDE DEF sum
<1>4. metrics["consumed"] <= sum + 1
  BY <1>2, <1>3
<1> QED
  BY <1>1, <1>4 DEF sum

LEMMA BucketsAtFirst ==
  ASSUME TelemetryTypeOK, Balanced, Len(loaded) = 1
  PROVE  Seen(2) <= Seen(6) + Seen(7) + 1
<1> DEFINE sum == metrics["fast"] + metrics["slow"]
<1>1. /\ Seen(2) = metrics["processed"] /\ Seen(6) = metrics["fast"]
      /\ Seen(7) = metrics["slow"]
  BY OrderOfCounters DEF Seen
<1>2. metrics["processed"] \in Nat /\ sum \in Nat
  <2>1. /\ metrics["processed"] \in Nat
        /\ metrics["fast"] \in Nat /\ metrics["slow"] \in Nat
    BY ElevenCounters DEF TelemetryTypeOK
  <2> QED
    BY <2>1
<1>3. metrics["processed"] = sum + (IF at[Reader] = "bucket" THEN 1 ELSE 0)
  BY DEF Balanced
<1> HIDE DEF sum
<1>4. metrics["processed"] <= sum + 1
  BY <1>2, <1>3
<1> QED
  BY <1>1, <1>4 DEF sum

LEMMA WritesAtFirst ==
  ASSUME TelemetryTypeOK, Balanced, Len(loaded) = 7
  PROVE  Seen(8) <= Seen(11) + Cardinality(Workers)
<1>1. Seen(8) = metrics["postgresWrites"] /\ Seen(11) = metrics["snapshotWrites"]
  BY OrderOfCounters DEF Seen
<1>2. metrics["snapshotWrites"] \in Nat
  BY ElevenCounters DEF TelemetryTypeOK
<1>3. /\ Cardinality(Between) \in Nat /\ Cardinality(Workers) \in Nat
      /\ Cardinality(Between) <= Cardinality(Workers)
  <2>1. IsFiniteSet(Workers) /\ Between \subseteq Workers
    BY TelemetryAssumption DEF Between
  <2> QED
    BY <2>1, FS_Subset, FS_CardinalityType
<1>4. metrics["postgresWrites"] = metrics["snapshotWrites"] + Cardinality(Between)
  BY DEF Balanced
<1>5. metrics["postgresWrites"] <= metrics["snapshotWrites"] + Cardinality(Workers)
  BY <1>2, <1>3, <1>4
<1> QED
  BY <1>1, <1>5

LEMMA ScrapeKept ==
  ASSUME TelemetryTypeOK, Balanced, ScrapeBehind, [Next]_vars
  PROVE  ScrapeBehind'
<1>1. /\ loaded \in Seq(Nat) /\ Len(loaded) \in Nat /\ Len(loaded) <= 11
      /\ \A i \in 1..Len(loaded) : loaded[i] \in Nat
      /\ \A c \in Names : metrics[c] \in Nat
      /\ ignored \in Nat
  <2>1. loaded \in Seq(Nat) /\ Len(loaded) <= 11 /\ ignored \in Nat
    BY NumberOfCounters DEF TelemetryTypeOK
  <2>2. metrics \in [Names -> Nat]
    BY DEF TelemetryTypeOK
  <2> QED
    BY <2>1, <2>2
<1>2. \A i \in 1..11 : Seen(i) \in Nat
  BY <1>1, CounterHasName DEF Seen
<1>7. /\ Seen(1) \in Nat /\ Seen(2) \in Nat /\ Seen(3) \in Nat
      /\ Seen(4) \in Nat /\ Seen(5) \in Nat /\ Seen(6) \in Nat
      /\ Seen(7) \in Nat /\ Seen(8) \in Nat /\ Seen(11) \in Nat
  BY <1>2
<1>3. CASE loaded' = loaded
  <2>1. \A i \in 1..11 : /\ Seen(i)' \in Nat
                         /\ i <= Len(loaded) => Seen(i)' = Seen(i)
                         /\ Seen(i)' >= Seen(i)
    <3> SUFFICES ASSUME NEW i \in 1..11
                 PROVE  /\ Seen(i)' \in Nat
                        /\ i <= Len(loaded) => Seen(i)' = Seen(i)
                        /\ Seen(i)' >= Seen(i)
      OBVIOUS
    <3>1. Counters[i] \in Names
      BY CounterHasName
    <3>2. metrics'[Counters[i]] >= metrics[Counters[i]] /\ metrics'[Counters[i]] \in Nat
      BY <3>1, CountersGrow, TypesKept DEF TelemetryTypeOK
    <3> QED
      BY <1>1, <1>3, <3>1, <3>2 DEF Seen
  <2>2. ignored' >= ignored /\ ignored' \in Nat
    BY CountersGrow, TypesKept DEF TelemetryTypeOK
  <2>3. Cardinality(Workers) \in Nat
    BY TelemetryAssumption, FS_CardinalityType
  <2>4. /\ Seen(2)' >= Seen(2) /\ Seen(3)' >= Seen(3) /\ Seen(4)' >= Seen(4)
        /\ Seen(5)' >= Seen(5) /\ Seen(6)' >= Seen(6) /\ Seen(7)' >= Seen(7)
        /\ Seen(11)' >= Seen(11)
        /\ Seen(2)' \in Nat /\ Seen(3)' \in Nat /\ Seen(4)' \in Nat
        /\ Seen(5)' \in Nat /\ Seen(6)' \in Nat /\ Seen(7)' \in Nat
        /\ Seen(11)' \in Nat
    BY <2>1
  <2>5. Len(loaded) >= 1 => Seen(1)' = Seen(1)
    BY <2>1
  <2>6. Len(loaded) >= 2 => Seen(2)' = Seen(2)
    BY <2>1
  <2>7. Len(loaded) >= 8 => Seen(8)' = Seen(8)
    BY <2>1
  <2>8. (Len(loaded) >= 1 =>
            Seen(1) <= Seen(2) + Seen(3) + Seen(4) + Seen(5) + ignored + 1)'
    <3> SUFFICES ASSUME Len(loaded) >= 1
                 PROVE  Seen(1)' <= Seen(2)' + Seen(3)' + Seen(4)' + Seen(5)' + ignored' + 1
      BY <1>3
    <3>1. Seen(1) <= Seen(2) + Seen(3) + Seen(4) + Seen(5) + ignored + 1
      BY DEF ScrapeBehind
    <3>2. Seen(1) <= Seen(2)' + Seen(3)' + Seen(4)' + Seen(5)' + ignored' + 1
      BY ONLY <1>1, <1>7, <2>2, <2>4, <3>1, OutcomesGrow
    <3> QED
      BY <2>5, <3>2
  <2>9. (Len(loaded) >= 2 => Seen(2) <= Seen(6) + Seen(7) + 1)'
    <3> SUFFICES ASSUME Len(loaded) >= 2
                 PROVE  Seen(2)' <= Seen(6)' + Seen(7)' + 1
      BY <1>3
    <3>1. Seen(2) <= Seen(6) + Seen(7) + 1
      BY DEF ScrapeBehind
    <3>2. Seen(2) <= Seen(6)' + Seen(7)' + 1
      BY ONLY <1>7, <2>4, <3>1, BucketsGrow
    <3> QED
      BY <2>6, <3>2
  <2>10. (Len(loaded) >= 8 => Seen(8) <= Seen(11) + Cardinality(Workers))'
    <3> SUFFICES ASSUME Len(loaded) >= 8
                 PROVE  Seen(8)' <= Seen(11)' + Cardinality(Workers)
      BY <1>3
    <3>1. Seen(8) <= Seen(11) + Cardinality(Workers)
      BY DEF ScrapeBehind
    <3>2. Seen(8) <= Seen(11)' + Cardinality(Workers)
      BY ONLY <1>7, <2>3, <2>4, <3>1, WritesGrow
    <3> QED
      BY <2>7, <3>2
  <2> QED
    BY <2>8, <2>9, <2>10 DEF ScrapeBehind
<1>4. CASE Load
  <2>1. Len(loaded) < 11 /\ Len(loaded') = Len(loaded) + 1
    <3>1. Len(loaded) < 11
      BY <1>4, NumberOfCounters DEF Load
    <3>2. loaded' = Append(loaded, metrics[Counters[Len(loaded) + 1]])
      BY <1>4 DEF Load
    <3> QED
      BY <1>1, <3>1, <3>2
  <2>2. \A i \in 1..Len(loaded) : loaded'[i] = loaded[i]
    BY <1>1, <1>4 DEF Load
  <2>3. loaded'[Len(loaded) + 1] = metrics[Counters[Len(loaded) + 1]]
    BY <1>1, <1>4 DEF Load
  <2>4. UNCHANGED <<metrics, ignored>>
    BY <1>4 DEF Load
  <2>5. \A i \in 1..11 : Seen(i)' = Seen(i)
    <3> SUFFICES ASSUME NEW i \in 1..11
                 PROVE  Seen(i)' = Seen(i)
      OBVIOUS
    <3>1. CASE i <= Len(loaded)
      <4>1. i <= Len(loaded') /\ i \in 1..Len(loaded)
        BY <1>1, <2>1, <3>1
      <4> QED
        BY <2>2, <3>1, <4>1 DEF Seen
    <3>2. CASE i = Len(loaded) + 1
      <4>1. i <= Len(loaded') /\ ~(i <= Len(loaded))
        BY <1>1, <2>1, <3>2
      <4> QED
        BY <2>3, <3>2, <4>1 DEF Seen
    <3>3. CASE i > Len(loaded) + 1
      <4>1. ~(i <= Len(loaded')) /\ ~(i <= Len(loaded))
        BY <1>1, <2>1, <3>3
      <4> QED
        BY <2>4, <4>1 DEF Seen
    <3> QED
      BY <1>1, <3>1, <3>2, <3>3
  <2>6. /\ Seen(1)' = Seen(1) /\ Seen(2)' = Seen(2) /\ Seen(3)' = Seen(3)
        /\ Seen(4)' = Seen(4) /\ Seen(5)' = Seen(5) /\ Seen(6)' = Seen(6)
        /\ Seen(7)' = Seen(7) /\ Seen(8)' = Seen(8) /\ Seen(11)' = Seen(11)
    BY <2>5
  <2>7. (Len(loaded) >= 1 =>
            Seen(1) <= Seen(2) + Seen(3) + Seen(4) + Seen(5) + ignored + 1)'
    <3>1. CASE Len(loaded) = 0
      BY <2>4, <2>6, <3>1, OutcomesAtFirst
    <3>2. CASE Len(loaded) >= 1
      <4>1. Seen(1) <= Seen(2) + Seen(3) + Seen(4) + Seen(5) + ignored + 1
        BY <3>2 DEF ScrapeBehind
      <4> QED
        BY <2>4, <2>6, <4>1
    <3> QED
      BY <1>1, <3>1, <3>2
  <2>8. (Len(loaded) >= 2 => Seen(2) <= Seen(6) + Seen(7) + 1)'
    <3>1. CASE Len(loaded) = 0
      BY <2>1, <3>1
    <3>2. CASE Len(loaded) = 1
      BY <2>6, <3>2, BucketsAtFirst
    <3>3. CASE Len(loaded) >= 2
      <4>1. Seen(2) <= Seen(6) + Seen(7) + 1
        BY <3>3 DEF ScrapeBehind
      <4> QED
        BY <2>6, <4>1
    <3> QED
      BY <1>1, <3>1, <3>2, <3>3, LengthCases
  <2>9. (Len(loaded) >= 8 => Seen(8) <= Seen(11) + Cardinality(Workers))'
    <3>1. CASE Len(loaded) < 7
      BY <1>1, <2>1, <3>1
    <3>2. CASE Len(loaded) = 7
      BY <2>6, <3>2, WritesAtFirst
    <3>3. CASE Len(loaded) >= 8
      <4>1. Seen(8) <= Seen(11) + Cardinality(Workers)
        BY <3>3 DEF ScrapeBehind
      <4> QED
        BY <2>6, <4>1
    <3> QED
      BY <1>1, <3>1, <3>2, <3>3, LengthCases
  <2> QED
    BY <2>7, <2>8, <2>9 DEF ScrapeBehind
<1>5. CASE Render
  BY <1>5 DEF Render, ScrapeBehind
<1>6. Load \/ Render \/ loaded' = loaded
  BY DEF Next, RecordConsumed, RecordProcessed, recordProcessingLatencyBucket,
     RecordOther, IgnoreUnweighted, Send, RecordPersistenceDropped, Receive,
     Write, RecordPostgresWrite, Measure, SetPersistenceQueueDepth, vars
<1> QED
  BY <1>3, <1>4, <1>5, <1>6

-----------------------------------------------------------------------------
(* The gauge.                                                              *)

LEMMA GaugeKept ==
  ASSUME TelemetryTypeOK, MeasuredIsQueued, GaugeWrongOnlyWhenOvertaken, [Next]_vars
  PROVE  MeasuredIsQueued' /\ GaugeWrongOnlyWhenOvertaken'
<1> USE TelemetryAssumption
<1>1. /\ at \in [Goroutines -> Atoms] /\ measured \in [Goroutines -> 0..QueueSize]
      /\ Reader \in Goroutines /\ "gauge" \notin Goroutines
  BY DEF TelemetryTypeOK, Goroutines
<1>2. CASE (\E g \in Goroutines : Outdates(g) /\ Goto(g, "measure") /\ at[g] # "store"
                                    /\ UNCHANGED <<gauge, measured>>)
  <2>1. PICK g \in Goroutines : /\ Outdates(g) /\ Goto(g, "measure") /\ at[g] # "store"
                                /\ UNCHANGED <<gauge, measured>>
    BY <1>2
  <2>2. at'[g] = "measure" /\ \A h \in Goroutines \ {g} : at'[h] = at[h]
    BY <1>1, <2>1 DEF Goto
  <2>3. MeasuredIsQueued'
    BY <2>1, <2>2 DEF MeasuredIsQueued, Outdates
  <2> QED
    BY <2>2, <2>3 DEF GaugeWrongOnlyWhenOvertaken
<1>3. CASE \E g \in Goroutines : Measure(g)
  <2>1. PICK g \in Goroutines : Measure(g)
    BY <1>3
  <2>2. /\ at'[g] = "store" /\ measured'[g] = queued
        /\ \A h \in Goroutines \ {g} : at'[h] = at[h] /\ measured'[h] = measured[h]
        /\ UNCHANGED <<queued, gauge, stale>>
    BY <1>1, <2>1 DEF Measure, Goto
  <2> QED
    BY <2>2 DEF MeasuredIsQueued, GaugeWrongOnlyWhenOvertaken
<1>4. CASE \E g \in Goroutines : SetPersistenceQueueDepth(g)
  <2>1. PICK g \in Goroutines : SetPersistenceQueueDepth(g)
    BY <1>4
  <2>2. /\ at[g] = "store" /\ at'[g] \in {"fetch", "write"}
        /\ \A h \in Goroutines \ {g} : at'[h] = at[h]
    BY <1>1, <2>1 DEF SetPersistenceQueueDepth, Goto
  <2>3. UNCHANGED <<queued, measured>> /\ gauge' = measured[g]
    BY <2>1 DEF SetPersistenceQueueDepth
  <2>4. \A h \in Goroutines \ {g} : h \in stale' <=> h \in stale
    BY <1>1, <2>1 DEF SetPersistenceQueueDepth
  <2>5. g \in stale => "gauge" \in stale'
    BY <2>1 DEF SetPersistenceQueueDepth
  <2>6. MeasuredIsQueued'
    BY <2>2, <2>3, <2>4 DEF MeasuredIsQueued
  <2> QED
    BY <2>2, <2>3, <2>5, <2>6 DEF MeasuredIsQueued, GaugeWrongOnlyWhenOvertaken
<1>5. CASE /\ UNCHANGED <<queued, gauge, measured, stale>>
           /\ \A g \in Goroutines : /\ at[g] \in {"measure", "store"} => at'[g] = at[g]
                                    /\ at'[g] = "store" => at[g] = "store"
  <2>1. MeasuredIsQueued'
    BY <1>5 DEF MeasuredIsQueued
  <2>2. (\A g \in Goroutines : at'[g] \notin {"measure", "store"})
            => \A g \in Goroutines : at[g] \notin {"measure", "store"}
    BY <1>5
  <2>3. GaugeWrongOnlyWhenOvertaken'
    BY <1>5, <2>2 DEF GaugeWrongOnlyWhenOvertaken
  <2> QED
    BY <2>1, <2>3
<1>6. CASE Counts \/ IgnoreUnweighted
  <2>1. UNCHANGED <<queued, gauge, measured, stale>>
    BY <1>6, CountsMove DEF IgnoreUnweighted
  <2>2. CASE RecordPersistenceDropped
    <3>1. at'[Reader] = "measure" /\ \A h \in Goroutines \ {Reader} : at'[h] = at[h]
      BY <1>1, <2>2 DEF RecordPersistenceDropped, Goto
    <3> QED
      BY <2>1, <3>1 DEF MeasuredIsQueued, GaugeWrongOnlyWhenOvertaken
  <2>3. CASE ~RecordPersistenceDropped
    <3>1. PICK g \in Goroutines, next \in Atoms \ {"measure", "store"} :
              at[g] \notin {"measure", "store"} /\ Goto(g, next)
      <4>1. CASE RecordConsumed \/ RecordProcessed \/ IgnoreUnweighted
        BY <1>1, <4>1 DEF RecordConsumed, RecordProcessed, IgnoreUnweighted, Atoms
      <4>2. CASE recordProcessingLatencyBucket \/ RecordOther
        BY <1>1, <4>2 DEF recordProcessingLatencyBucket, RecordOther, Atoms
      <4>3. CASE \E w \in Workers : Write(w) \/ RecordPostgresWrite(w)
        BY <4>3 DEF Write, RecordPostgresWrite, Atoms, Goroutines
      <4> QED
        BY <1>6, <2>3, <4>1, <4>2, <4>3 DEF Counts
    <3>2. at'[g] = next /\ \A h \in Goroutines \ {g} : at'[h] = at[h]
      BY <1>1, <3>1 DEF Goto
    <3> QED
      BY <1>5, <2>1, <3>1, <3>2
  <2> QED
    BY <2>2, <2>3
<1>7. CASE Load \/ Render \/ UNCHANGED vars
  BY <1>7 DEF Load, Render, vars, MeasuredIsQueued, GaugeWrongOnlyWhenOvertaken
<1>8. CASE Send \/ \E w \in Workers : Receive(w)
  BY <1>1, <1>2, <1>8 DEF Send, Receive, Goroutines
<1> QED
  BY <1>3, <1>4, <1>6, <1>7, <1>8 DEF Next, Counts

-----------------------------------------------------------------------------
(* Theorems.                                                               *)

LEMMA InitTelemetryInv == Init => TelemetryInv
<1> SUFFICES ASSUME Init PROVE TelemetryInv
  OBVIOUS
<1> USE TelemetryAssumption
<1>1. TelemetryTypeOK
  <2>1. loaded \in Seq(Nat) /\ Len(loaded) <= Len(Counters)
    BY NumberOfCounters DEF Init
  <2> QED
    BY <2>1 DEF Init, TelemetryTypeOK, Goroutines, Atoms
<1>2. Balanced
  <2>1. Between = {}
    BY DEF Init, Between, Goroutines
  <2>2. Cardinality(Between) = 0
    BY <2>1, FS_EmptySet
  <2>3. /\ \A c \in Names : metrics[c] = 0
        /\ ignored = 0 /\ at[Reader] = "fetch"
    BY DEF Init, Goroutines
  <2> QED
    BY <2>2, <2>3, ElevenCounters DEF Balanced
<1>3. ScrapeBehind
  BY DEF Init, ScrapeBehind
<1>4. MeasuredIsQueued
  BY DEF Init, MeasuredIsQueued, Goroutines
<1>5. GaugeWrongOnlyWhenOvertaken
  BY DEF Init, GaugeWrongOnlyWhenOvertaken
<1> QED
  BY <1>1, <1>2, <1>3, <1>4, <1>5 DEF TelemetryInv

\* The inductive invariant holds in every state, whatever the numbers of
\* workers, of slots of the channel and of messages.
THEOREM TelemetryInvariant == Spec => []TelemetryInv
<1>1. TelemetryInv /\ [Next]_vars => TelemetryInv'
  BY TypesKept, BalancedKept, ScrapeKept, GaugeKept DEF TelemetryInv
<1> QED
  BY InitTelemetryInv, <1>1, PTL DEF Spec

\* Types, and a channel that never holds more than PERSISTENCE_QUEUE_SIZE.
THEOREM TelemetryTypeCorrectness == Spec => []TelemetryTypeOK
  BY TelemetryInvariant, PTL DEF TelemetryInv

\* What GET /metrics renders misses nothing but what was at hand when its
\* Snapshot began, although the counters move while it loads them.
THEOREM ScrapeIsConsistent == Spec => []ScrapeMissesOnlyWhatIsAtHand
<1>1. TelemetryInv => ScrapeMissesOnlyWhatIsAtHand
  <2> SUFFICES ASSUME TelemetryInv, Len(loaded) = Len(Counters)
               PROVE  ScrapeMissesOnlyWhatIsAtHand
    BY DEF ScrapeMissesOnlyWhatIsAtHand
  <2>1. Len(loaded) = 11
    BY NumberOfCounters
  <2>2. /\ Seen(1) = loaded[1] /\ Seen(2) = loaded[2] /\ Seen(3) = loaded[3]
        /\ Seen(4) = loaded[4] /\ Seen(5) = loaded[5] /\ Seen(6) = loaded[6]
        /\ Seen(7) = loaded[7] /\ Seen(8) = loaded[8] /\ Seen(11) = loaded[11]
    BY <2>1 DEF Seen
  <2>3. /\ Seen(1) <= Seen(2) + Seen(3) + Seen(4) + Seen(5) + ignored + 1
        /\ Seen(2) <= Seen(6) + Seen(7) + 1
        /\ Seen(8) <= Seen(11) + Cardinality(Workers)
    BY <2>1 DEF TelemetryInv, ScrapeBehind
  <2> QED
    BY <2>2, <2>3 DEF ScrapeMissesOnlyWhatIsAtHand
<1> QED
  BY TelemetryInvariant, <1>1, PTL

\* The gauge of the queue depth is right whenever nobody is about to store it,
\* unless its last store was overtaken by another use of the queue.
THEOREM GaugeIsRightUnlessOvertaken == Spec => []GaugeWrongOnlyWhenOvertaken
  BY TelemetryInvariant, PTL DEF TelemetryInv
=============================================================================
