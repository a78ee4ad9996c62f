--------------------------- MODULE ConsumerProofs ---------------------------
(***************************************************************************)
(* Theorems about the consumer service for any set of events, partitions   *)
(* and workers, any queue size and any bound.                              *)
(***************************************************************************)
EXTENDS ConsumerProperties, QueryProofs

-----------------------------------------------------------------------------
(* Redis: what each call of ProcessEvent preserves.                        *)

\* A call of ProcessEvent, answered or not, keeps the types of the keys.
LEMMA ProcessEventTypes ==
    ASSUME RedisTypeOK, NEW e \in Events, NEW status,
           ProcessEvent(e, status) \/ ProcessEventFaulty(e, status)
    PROVE  RedisTypeOK'
<1>1. CASE UNCHANGED redisVars
  BY <1>1 DEF RedisTypeOK, redisVars
<1>2. CASE Weighted(e) /\ Complete(e) /\ Aggregate(e)
  <2>1. RepoOf[e] \in Repos /\ WindowOf[e] \in Windows
    BY <1>2, EventsAssumption DEF EventsAssumption, Complete
  <2>2. EventScore(e) \in Nat
    BY ScoreRange
  <2>3. EmptyWindow \in [Repos -> Nat]
    BY DEF EmptyWindow
  <2>4. trending' \in [Repos -> Nat]
    BY <1>2, <2>1, <2>2 DEF Aggregate, ZINCRBY, RedisTypeOK
  <2>5. windowScores' \in [Windows -> [Repos -> Nat]]
    <3>1. windowScores[WindowOf[e]] \in [Repos -> Nat]
      BY <2>1 DEF RedisTypeOK
    <3>2. ZINCRBY(windowScores[WindowOf[e]], EventScore(e), RepoOf[e])
              \in [Repos -> Nat]
      BY <2>1, <2>2, <3>1 DEF ZINCRBY
    <3> QED
      BY <1>2, <2>3, <3>2 DEF Aggregate, RedisTypeOK
  <2>6. marked' \in SUBSET Events /\ recent' \in Seq(Events)
    <3>1. PushRecent(e) \in Seq(Events)
      BY RedisAssumption DEF PushRecent, RedisTypeOK, RedisAssumption
    <3> QED
      BY <1>2, <3>1 DEF Aggregate, RedisTypeOK
  <2> QED
    BY <2>4, <2>5, <2>6 DEF RedisTypeOK
<1> QED
  BY <1>1, <1>2 DEF ProcessEvent, ProcessEventFaulty, aggregateEventScript

\* The marker and the increments come together or not at all: the ranking
\* stays the sum of the scores of the marked events (aggregateEventScript).
LEMMA ProcessEventSum ==
    ASSUME RedisTypeOK, RankingIsSum, TTLSeconds(IdempotencyTTL) > 0,
           NEW e \in Events, NEW status,
           ProcessEvent(e, status) \/ ProcessEventFaulty(e, status)
    PROVE  RankingIsSum'
<1>1. CASE UNCHANGED redisVars
  BY <1>1 DEF RankingIsSum, redisVars
<1>2. CASE Weighted(e) /\ Complete(e) /\ e \notin marked /\ Aggregate(e)
  <2>1. marked' = marked \union {e}
    BY <1>2 DEF Aggregate
  <2> SUFFICES ASSUME NEW r \in Repos
               PROVE  trending'[r] = ScoreSum(OfRepo(marked', r))
    BY DEF RankingIsSum
  <2>2. OfRepo(marked, r) \in SUBSET Events /\ e \notin OfRepo(marked, r)
    BY <1>2 DEF OfRepo, RedisTypeOK
  <2>3. CASE RepoOf[e] = r
    <3>1. trending'[r] = trending[r] + EventScore(e)
      BY <1>2, <2>3 DEF Aggregate, ZINCRBY, RedisTypeOK
    <3>2. OfRepo(marked', r) = OfRepo(marked, r) \union {e}
      BY <2>1, <2>3 DEF OfRepo
    <3> QED
      BY <2>2, <3>1, <3>2, ScoreSumAdd DEF RankingIsSum
  <2>4. CASE RepoOf[e] # r
    <3>1. trending'[r] = trending[r]
      BY <1>2, <2>4 DEF Aggregate, ZINCRBY, RedisTypeOK
    <3>2. OfRepo(marked', r) = OfRepo(marked, r)
      BY <2>1, <2>4 DEF OfRepo
    <3> QED
      BY <3>1, <3>2 DEF RankingIsSum
  <2> QED
    BY <2>3, <2>4
<1> QED
  BY <1>1, <1>2 DEF ProcessEvent, ProcessEventFaulty, aggregateEventScript

\* A call of ProcessEvent marks at most the event it is called for, and
\* unmarks none.
LEMMA ProcessEventMarks ==
    ASSUME NEW e \in Events, NEW status,
           ProcessEvent(e, status) \/ ProcessEventFaulty(e, status)
    PROVE  marked \subseteq marked' /\ marked' \subseteq marked \union {e}
BY DEF ProcessEvent, ProcessEventFaulty, aggregateEventScript, Aggregate, redisVars

\* An answer without error means that the event carries no weight or is marked.
LEMMA ProcessEventAnswer ==
    ASSUME NEW e \in Events, NEW status \in {"processed", "duplicate", "ignored"},
           ProcessEvent(e, status) \/ ProcessEventFaulty(e, status)
    PROVE  Weighted(e) => Complete(e) /\ e \in marked'
BY DEF ProcessEvent, ProcessEventFaulty, aggregateEventScript, Aggregate, redisVars

\* The list of recent events has marked events only, none twice, and as many
\* as there are up to its limit.
RecentIsMarked ==
    /\ \A i \in 1..Len(recent) : recent[i] \in marked
    /\ \A i, j \in 1..Len(recent) : i # j => recent[i] # recent[j]
    /\ Len(recent) = IF Cardinality(marked) < RecentEventsLimit
                     THEN Cardinality(marked) ELSE RecentEventsLimit

\* LPUSH puts the event first and keeps the order of the others; LTRIM drops
\* the last when there are too many.
LEMMA PushRecentShape ==
    ASSUME RedisTypeOK, NEW e \in Events
    PROVE  /\ PushRecent(e) \in Seq(Events)
           /\ Len(PushRecent(e)) = IF Len(recent) < RecentEventsLimit
                                   THEN Len(recent) + 1 ELSE RecentEventsLimit
           /\ PushRecent(e)[1] = e
           /\ \A i \in 2..Len(PushRecent(e)) : /\ PushRecent(e)[i] = recent[i - 1]
                                               /\ i - 1 \in 1..Len(recent)
<1> DEFINE pushed == <<e>> \o recent
<1>1. recent \in Seq(Events) /\ Len(recent) \in Nat /\ RecentEventsLimit \in Nat \ {0}
  BY RedisAssumption DEF RedisTypeOK, RedisAssumption
<1>2. /\ pushed \in Seq(Events) /\ Len(pushed) = Len(recent) + 1
      /\ pushed[1] = e
      /\ \A i \in 2..Len(pushed) : pushed[i] = recent[i - 1]
  BY <1>1
<1> HIDE DEF pushed
<1>3. CASE Len(pushed) > RecentEventsLimit
  <2>1. PushRecent(e) = SubSeq(pushed, 1, RecentEventsLimit)
    BY <1>3 DEF PushRecent, pushed
  <2>2. /\ SubSeq(pushed, 1, RecentEventsLimit) \in Seq(Events)
        /\ Len(SubSeq(pushed, 1, RecentEventsLimit)) = RecentEventsLimit
        /\ \A i \in 1..RecentEventsLimit :
               SubSeq(pushed, 1, RecentEventsLimit)[i] = pushed[i]
    BY <1>1, <1>2, <1>3
  <2> QED
    BY <1>1, <1>2, <1>3, <2>1, <2>2
<1>4. CASE ~(Len(pushed) > RecentEventsLimit)
  <2>1. PushRecent(e) = pushed
    BY <1>4 DEF PushRecent, pushed
  <2> QED
    BY <1>1, <1>2, <1>4, <2>1
<1> QED
  BY <1>3, <1>4

\* The script pushes an event that it marks, and no other: the list keeps
\* showing the marked events (PushRecent behind the check of the marker).
LEMMA ProcessEventRecent ==
    ASSUME RedisTypeOK, RecentIsMarked, NEW e \in Events, NEW status,
           ProcessEvent(e, status) \/ ProcessEventFaulty(e, status)
    PROVE  RecentIsMarked'
<1>1. CASE UNCHANGED <<marked, recent>>
  BY <1>1 DEF RecentIsMarked
<1>2. CASE e \notin marked /\ marked' = marked \union {e} /\ recent' = PushRecent(e)
  <2>1. /\ IsFiniteSet(marked) /\ Cardinality(marked) \in Nat
        /\ Cardinality(marked') = Cardinality(marked) + 1
    BY <1>2, EventsAssumption, FS_Subset, FS_CardinalityType, FS_AddElement
       DEF EventsAssumption, RedisTypeOK
  <2>2. RecentEventsLimit \in Nat \ {0} /\ recent \in Seq(Events) /\ Len(recent) \in Nat
    BY RedisAssumption DEF RedisAssumption, RedisTypeOK
  <2>3. /\ Len(recent') = IF Len(recent) < RecentEventsLimit
                          THEN Len(recent) + 1 ELSE RecentEventsLimit
        /\ recent'[1] = e
        /\ \A i \in 2..Len(recent') : recent'[i] = recent[i - 1] /\ i - 1 \in 1..Len(recent)
    BY <1>2, PushRecentShape
  <2>4. Len(recent') = IF Cardinality(marked') < RecentEventsLimit
                       THEN Cardinality(marked') ELSE RecentEventsLimit
    BY <2>1, <2>2, <2>3 DEF RecentIsMarked
  <2>5. \A i \in 1..Len(recent') : i = 1 \/ i \in 2..Len(recent')
    BY <2>2, <2>3
  <2>6. \A i \in 2..Len(recent') : recent'[i] \in marked
    BY <2>3 DEF RecentIsMarked
  <2>7. \A i \in 1..Len(recent') : recent'[i] \in marked'
    BY <1>2, <2>3, <2>5, <2>6
  <2>8. ASSUME NEW i \in 2..Len(recent'), NEW j \in 2..Len(recent'), i # j
        PROVE  recent'[i] # recent'[j]
    <3>1. i - 1 # j - 1
      BY <2>8
    <3> QED
      BY <2>3, <3>1 DEF RecentIsMarked
  <2>9. \A i, j \in 1..Len(recent') : i # j => recent'[i] # recent'[j]
    BY <1>2, <2>3, <2>5, <2>6, <2>8
  <2> QED
    BY <2>4, <2>7, <2>9 DEF RecentIsMarked
<1> QED
  BY <1>1, <1>2 DEF ProcessEvent, ProcessEventFaulty, aggregateEventScript, Aggregate,
     redisVars

-----------------------------------------------------------------------------
(* Types and steps.                                                        *)

Busy == pc \in {"process", "enqueue", "commit"}

\* The message at hand exists, and the offsets point into the topic.
CursorsOK ==
    /\ \A p \in Partitions : /\ position[p] \in 0..Len(log[p])
                             /\ committed[p] \in 0..Len(log[p])
    /\ Busy => /\ current \in Positions
               /\ current.off \in 1..Len(log[current.part])
    /\ pc = "enqueue" => ForHistory(CurrentMessage)

\* A message once written stays where it is.
LEMMA LogGrows ==
    ASSUME ServiceTypeOK, Next
    PROVE  \A p \in Partitions :
               /\ log[p] \in Seq(Messages) /\ log'[p] \in Seq(Messages)
               /\ Len(log[p]) <= Len(log'[p])
               /\ \A i \in 1..Len(log[p]) : log'[p][i] = log[p][i]
<1>1. \A e \in Events : PartitionOf[e] \in Partitions /\ e \in Messages
  BY ConsumerAssumption DEF ConsumerAssumption, Messages
<1>2. ASSUME NEW q \in Partitions, NEW m \in Messages,
             log' = [log EXCEPT ![q] = Append(@, m)]
      PROVE  \A p \in Partitions :
               /\ log[p] \in Seq(Messages) /\ log'[p] \in Seq(Messages)
               /\ Len(log[p]) <= Len(log'[p])
               /\ \A i \in 1..Len(log[p]) : log'[p][i] = log[p][i]
  BY <1>2 DEF ServiceTypeOK
<1>3. CASE \E e \in Events : Publish(e)
  BY <1>1, <1>2, <1>3 DEF Publish
<1>4. CASE \E p \in Partitions : PublishPoison(p)
  BY <1>2, <1>4 DEF PublishPoison, Messages
<1>5. CASE log' = log
  BY <1>5 DEF ServiceTypeOK
<1> QED
  BY <1>3, <1>4, <1>5 DEF Next, Start, StartWithoutHistory, StartProcess, Stop,
     Rebalance, Reader, FetchMessage, RejectMessage, ProcessMessage, Enqueue,
     CommitMessages, ProcessMessageFaulty, Worker, TakeRecord, PersistRecord,
     PersistRecordFaulty, Expire, kafkaVars

\* A step leaves Redis alone, or is a call of ProcessEvent for the message at
\* hand, or lets a key expire.
LEMMA RedisStep ==
    ASSUME Next
    PROVE  \/ UNCHANGED redisVars
           \/ /\ pc = "process" /\ CurrentMessage \in Events
              /\ \E status : \/ ProcessEvent(CurrentMessage, status)
                             \/ ProcessEventFaulty(CurrentMessage, status)
           \/ Expire
BY DEF Next, Publish, PublishPoison, Start, StartWithoutHistory, StartProcess,
   Stop, Rebalance, Reader, FetchMessage, RejectMessage, ProcessMessage, Enqueue,
   CommitMessages, ProcessMessageFaulty, Worker, TakeRecord, PersistRecord,
   PersistRecordFaulty

\* A step leaves PostgreSQL alone, or is a call of PersistEvent for the record
\* a worker holds.
LEMMA PostgresStep ==
    ASSUME Next
    PROVE  \/ UNCHANGED postgresVars
           \/ \E w \in Workers : /\ holding[w] # NoEvent
                                 /\ PersistRecord(w) \/ PersistRecordFaulty(w)
BY DEF Next, Publish, PublishPoison, Start, StartWithoutHistory, StartProcess,
   Stop, Rebalance, Reader, FetchMessage, RejectMessage, ProcessMessage, Enqueue,
   CommitMessages, ProcessMessageFaulty, Worker, TakeRecord, Expire,
   PersistRecord, PersistRecordFaulty

LEMMA HeldRecord ==
    ASSUME ServiceTypeOK, NEW w \in Workers, holding[w] # NoEvent
    PROVE  holding[w] \in Events
BY DEF ServiceTypeOK

\* A worker's step towards PostgreSQL is one call of PersistEvent.
LEMMA PersistCall ==
    ASSUME ServiceTypeOK, NEW w \in Workers,
           PersistRecord(w) \/ PersistRecordFaulty(w)
    PROVE  /\ holding[w] \in Events
           /\ \E outcome \in {"persisted", "known", "error"} :
                 /\ \/ PersistEvent(holding[w], outcome)
                    \/ PersistEventFaulty(holding[w], outcome)
                 /\ AfterPersistEvent(w, outcome)
BY HeldRecord DEF PersistRecord, PersistRecordFaulty

LEMMA RedisTypes ==
    ASSUME RedisTypeOK, Next
    PROVE  RedisTypeOK'
<1>1. CASE UNCHANGED redisVars
  BY <1>1 DEF RedisTypeOK, redisVars
<1>2. CASE Expire
  <2>1. EmptyWindow \in [Repos -> Nat]
    BY DEF EmptyWindow
  <2> QED
    BY <1>2, <2>1 DEF Expire, MarkerExpires, WindowExpires, RedisTypeOK
<1>3. CASE CurrentMessage \in Events /\ \E status :
              \/ ProcessEvent(CurrentMessage, status)
              \/ ProcessEventFaulty(CurrentMessage, status)
  BY <1>3, ProcessEventTypes
<1> QED
  BY <1>1, <1>2, <1>3, RedisStep

LEMMA PostgresTypes ==
    ASSUME PostgresTypeOK, ServiceTypeOK, Next
    PROVE  PostgresTypeOK'
<1>1. CASE UNCHANGED postgresVars
  BY <1>1 DEF PostgresTypeOK, postgresVars
<1>2. ASSUME NEW w \in Workers, PersistRecord(w) \/ PersistRecordFaulty(w)
      PROVE  PostgresTypeOK'
  BY <1>2, PersistCall, PersistEventTypes
<1> QED
  BY <1>1, <1>2, PostgresStep

\* A counter that is increased stays a natural number.
LEMMA CountTypes ==
    ASSUME ServiceTypeOK
    PROVE  /\ \A c \in Counters : Count(c) => metrics' \in [Counters -> Nat]
           /\ \A kind \in FaultKinds : Fault(kind) => faults' \in [FaultKinds -> Nat]
<1>1. ASSUME NEW c \in Counters, Count(c)
      PROVE  metrics' \in [Counters -> Nat]
  <2>1. metrics \in [Counters -> Nat]
    BY DEF ServiceTypeOK
  <2> QED
    BY <1>1, <2>1 DEF Count
<1>2. ASSUME NEW kind \in FaultKinds, Fault(kind)
      PROVE  faults' \in [FaultKinds -> Nat]
  <2>1. faults \in [FaultKinds -> Nat]
    BY DEF ServiceTypeOK
  <2> QED
    BY <1>2, <2>1 DEF Fault
<1> QED
  BY <1>1, <1>2

LEMMA ServiceTypes ==
    ASSUME ServiceTypeOK, CursorsOK, Next
    PROVE  ServiceTypeOK'
<1>a. {"consumed", "processed", "duplicates", "processingFailures", "redisFailures",
       "postgresWrites", "snapshotWrites", "postgresWriteFailures",
       "persistenceDropped"} \subseteq Counters
  BY DEF Counters
<1>b. {"stop", "rebalance", "redis", "postgres", "expiry"} \subseteq FaultKinds
  BY DEF FaultKinds
<1>1. ASSUME NEW e \in Events, Publish(e)
      PROVE  ServiceTypeOK'
  <2>1. PartitionOf[e] \in Partitions /\ e \in Messages
    BY ConsumerAssumption DEF ConsumerAssumption, Messages
  <2> QED
    BY <1>1, <2>1 DEF Publish, ServiceTypeOK, readerVars, historyVars, logVars
<1>2. ASSUME NEW p \in Partitions, PublishPoison(p)
      PROVE  ServiceTypeOK'
  BY <1>2 DEF PublishPoison, ServiceTypeOK, Messages, readerVars, historyVars, logVars
<1>3. CASE Start
  BY <1>3 DEF Start, StartProcess, ServiceTypeOK, kafkaVars, logVars
<1>4. CASE StartWithoutHistory
  <2>1. faults' \in [FaultKinds -> Nat]
    BY <1>4, <1>a, <1>b, CountTypes DEF StartWithoutHistory
  <2> QED
    BY <1>4, <2>1 DEF StartWithoutHistory, StartProcess, ServiceTypeOK, kafkaVars,
       logVars
<1>5. CASE Stop
  <2>1. faults' \in [FaultKinds -> Nat]
    BY <1>5, <1>a, <1>b, CountTypes DEF Stop
  <2>2. /\ IdleWorkers \in [Workers -> Events \union {NoEvent}]
        /\ ZeroMetrics \in [Counters -> Nat]
        /\ <<>> \in Seq(Events)
    BY DEF IdleWorkers, ZeroMetrics
  <2> QED
    BY <1>5, <2>1, <2>2 DEF Stop, ServiceTypeOK, kafkaVars, logVars
<1>6. CASE Rebalance
  <2>1. faults' \in [FaultKinds -> Nat]
    BY <1>6, <1>a, <1>b, CountTypes DEF Rebalance
  <2> QED
    BY <1>6, <2>1 DEF Rebalance, ServiceTypeOK, kafkaVars, historyVars, logVars
<1>7. ASSUME NEW p \in Partitions, FetchMessage(p)
      PROVE  ServiceTypeOK'
  <2>1. metrics' \in [Counters -> Nat]
    BY <1>7, <1>a, <1>b, CountTypes DEF FetchMessage
  <2>2. /\ position' \in [Partitions -> Nat]
        /\ current' \in Positions
    BY <1>7 DEF FetchMessage, ServiceTypeOK, Positions
  <2> QED
    BY <1>7, <2>1, <2>2 DEF FetchMessage, ServiceTypeOK, Positions, kafkaVars,
       historyVars, logVars
<1>8. CASE RejectMessage
  <2>1. metrics' \in [Counters -> Nat]
    BY <1>8, <1>a, <1>b, CountTypes DEF RejectMessage
  <2> QED
    BY <1>8, <2>1 DEF RejectMessage, ServiceTypeOK, kafkaVars, historyVars, logVars
<1>9. ASSUME NEW status, AfterProcessEvent(status),
             UNCHANGED <<kafkaVars, historyVars, pgErrors>>,
             faults' \in [FaultKinds -> Nat]
      PROVE  ServiceTypeOK'
  <2>1. metrics' \in [Counters -> Nat]
    BY <1>9, <1>a DEF AfterProcessEvent, ServiceTypeOK
  <2> QED
    BY <1>9, <2>1 DEF AfterProcessEvent, ServiceTypeOK, kafkaVars, historyVars
<1>10. ASSUME pc = "process", AfterRedisError,
              UNCHANGED <<kafkaVars, historyVars, pgErrors>>,
              faults' \in [FaultKinds -> Nat]
       PROVE  ServiceTypeOK'
  <2>1. metrics' \in [Counters -> Nat]
    BY <1>10, <1>a, <1>b, CountTypes DEF AfterRedisError
  <2>2. current \in Positions
    BY <1>10 DEF CursorsOK, Busy
  <2> QED
    BY <1>10, <2>1, <2>2 DEF AfterRedisError, ServiceTypeOK, kafkaVars, historyVars
<1>11. CASE ProcessMessage
  <2>1. faults' \in [FaultKinds -> Nat]
    BY <1>11 DEF ProcessMessage, ServiceTypeOK
  <2> QED
    BY <1>9, <1>10, <1>11, <2>1 DEF ProcessMessage
<1>12. CASE ProcessMessageFaulty
  <2>1. faults' \in [FaultKinds -> Nat]
    BY <1>12, <1>a, <1>b, CountTypes DEF ProcessMessageFaulty
  <2> QED
    BY <1>9, <1>10, <1>12, <2>1 DEF ProcessMessageFaulty
<1>13. CASE Enqueue
  <2>1. CurrentMessage \in Events
    BY <1>13 DEF Enqueue, CursorsOK, ForHistory
  <2>2. Count("persistenceDropped") => metrics' \in [Counters -> Nat]
    BY <1>a, CountTypes
  <2>3. Append(queue, CurrentMessage) \in Seq(Events)
    BY <2>1 DEF ServiceTypeOK
  <2>4. /\ queue' \in Seq(Events)
        /\ metrics' \in [Counters -> Nat]
        /\ pgErrors' \in SUBSET Events
    BY <1>13, <2>1, <2>2, <2>3 DEF Enqueue, enqueuePersistence, ServiceTypeOK
  <2> QED
    BY <1>13, <2>4 DEF Enqueue, ServiceTypeOK, kafkaVars
<1>14. CASE CommitMessages
  BY <1>14 DEF CommitMessages, CursorsOK, Busy, Positions, ServiceTypeOK, historyVars, logVars
<1>15. ASSUME NEW w \in Workers, TakeRecord(w)
       PROVE  ServiceTypeOK'
  <2>1. Head(queue) \in Events /\ Tail(queue) \in Seq(Events)
    BY <1>15 DEF TakeRecord, ServiceTypeOK
  <2> QED
    BY <1>15, <2>1 DEF TakeRecord, ServiceTypeOK, kafkaVars, readerVars, logVars
<1>16. ASSUME NEW w \in Workers, PersistRecord(w) \/ PersistRecordFaulty(w)
       PROVE  ServiceTypeOK'
  <2>1. holding[w] \in Events
    BY <1>16, PersistCall
  <2>2. faults' \in [FaultKinds -> Nat]
    BY <1>16, <1>a, <1>b, CountTypes DEF PersistRecord, PersistRecordFaulty, ServiceTypeOK
  <2>3. PICK outcome \in {"persisted", "known", "error"} : AfterPersistEvent(w, outcome)
    BY <1>16, PersistCall
  <2>4. metrics' \in [Counters -> Nat]
    <3>1. Count("postgresWriteFailures") => metrics' \in [Counters -> Nat]
      BY <1>a, CountTypes
    <3>2. [metrics EXCEPT !["postgresWrites"] = @ + 1, !["snapshotWrites"] = @ + 1]
              \in [Counters -> Nat]
      <4>1. metrics \in [Counters -> Nat]
        BY DEF ServiceTypeOK
      <4>2. "postgresWrites" \in Counters /\ "snapshotWrites" \in Counters
        BY <1>a
      <4> QED
        BY <4>1, <4>2
    <3> QED
      BY <2>3, <3>1, <3>2 DEF AfterPersistEvent, ServiceTypeOK
  <2>5. pgErrors' \in SUBSET Events
    BY <2>1, <2>3 DEF AfterPersistEvent, ServiceTypeOK
  <2> QED
    BY <1>16, <2>2, <2>3, <2>4, <2>5 DEF PersistRecord, PersistRecordFaulty,
       AfterPersistEvent, ServiceTypeOK, kafkaVars, readerVars
<1>17. CASE Expire
  <2>1. faults' \in [FaultKinds -> Nat]
    BY <1>17, <1>a, <1>b, CountTypes DEF Expire
  <2> QED
    BY <1>17, <2>1 DEF Expire, ServiceTypeOK, kafkaVars, readerVars, historyVars, logVars
<1> QED
  BY <1>1, <1>2, <1>3, <1>4, <1>5, <1>6, <1>7, <1>8, <1>11, <1>12, <1>13, <1>14,
     <1>15, <1>16, <1>17 DEF Next, Reader, Worker

-----------------------------------------------------------------------------
(* The cursors.                                                            *)

\* A step either leaves the reading goroutine and the committed offsets alone,
\* or is one of its own, or belongs to the life of the process.
LEMMA ReaderStep ==
    ASSUME Next
    PROVE  \/ UNCHANGED <<readerVars, committed>>
           \/ Start \/ StartWithoutHistory \/ Stop \/ Rebalance
           \/ Reader \/ ProcessMessageFaulty
BY DEF Next, Publish, PublishPoison, Worker, TakeRecord, PersistRecord,
   PersistRecordFaulty, Expire, kafkaVars

\* The two ways a call of ProcessEvent ends for the reading goroutine.
LEMMA ProcessStep ==
    ASSUME ProcessMessage \/ ProcessMessageFaulty
    PROVE  /\ pc = "process" /\ CurrentMessage \in Events
           /\ UNCHANGED <<postgresVars, kafkaVars, historyVars, pgErrors>>
           /\ \/ \E status \in {"processed", "duplicate", "ignored"} :
                    /\ \/ ProcessEvent(CurrentMessage, status)
                       \/ ProcessEventFaulty(CurrentMessage, status)
                    /\ AfterProcessEvent(status)
              \/ AfterRedisError
BY DEF ProcessMessage, ProcessMessageFaulty

LEMMA CursorsStep ==
    ASSUME TypeOK, CursorsOK, Next
    PROVE  CursorsOK'
<1>1. /\ committed \in [Partitions -> Nat] /\ position \in [Partitions -> Nat]
      /\ \A p \in Partitions : /\ Len(log[p]) \in Nat /\ Len(log'[p]) \in Nat
                               /\ Len(log[p]) <= Len(log'[p])
                               /\ \A i \in 1..Len(log[p]) : log'[p][i] = log[p][i]
  BY LogGrows DEF TypeOK, ServiceTypeOK
<1>2. Busy => current.part \in Partitions /\ current.off \in Nat
  BY DEF CursorsOK, Positions
<1>3. CASE UNCHANGED <<readerVars, committed>>
  BY <1>1, <1>2, <1>3 DEF CursorsOK, Busy, readerVars, ForHistory, CurrentMessage
<1>4. CASE Start \/ StartWithoutHistory
  BY <1>1, <1>4 DEF Start, StartWithoutHistory, StartProcess, CursorsOK, Busy, kafkaVars
<1>5. CASE Stop
  BY <1>1, <1>5 DEF Stop, CursorsOK, Busy, kafkaVars
<1>6. CASE Rebalance
  BY <1>1, <1>6 DEF Rebalance, CursorsOK, Busy, kafkaVars, ForHistory, CurrentMessage
<1>7. ASSUME NEW p \in Partitions, FetchMessage(p)
      PROVE  CursorsOK'
  BY <1>1, <1>7 DEF FetchMessage, CursorsOK, Busy, Positions, kafkaVars
<1>8. CASE RejectMessage
  BY <1>1, <1>8 DEF RejectMessage, CursorsOK, Busy, kafkaVars
<1>9. CASE ProcessMessage \/ ProcessMessageFaulty
  <2>1. CASE AfterRedisError
    BY <1>1, <1>9, <2>1, ProcessStep DEF AfterRedisError, CursorsOK, Busy, kafkaVars
  <2>2. ASSUME NEW status \in {"processed", "duplicate", "ignored"},
               \/ ProcessEvent(CurrentMessage, status)
               \/ ProcessEventFaulty(CurrentMessage, status),
               AfterProcessEvent(status)
        PROVE  CursorsOK'
    <3>1. ForHistory(CurrentMessage)
      BY <1>9, <2>2, ProcessStep, ProcessEventAnswer DEF ForHistory
    <3> QED
      BY <1>1, <1>9, <2>2, <3>1, ProcessStep DEF AfterProcessEvent, CursorsOK, Busy,
         kafkaVars, ForHistory, CurrentMessage
  <2> QED
    BY <1>9, <2>1, <2>2, ProcessStep
<1>10. CASE Enqueue
  BY <1>1, <1>10 DEF Enqueue, CursorsOK, Busy, kafkaVars
<1>11. CASE CommitMessages
  BY <1>1, <1>2, <1>11 DEF CommitMessages, CursorsOK, Busy
<1> QED
  BY <1>3, <1>4, <1>5, <1>6, <1>7, <1>8, <1>9, <1>10, <1>11, ReaderStep DEF Reader

-----------------------------------------------------------------------------
(* The committed offsets and Redis.                                        *)

Working(p, i) == current = [part |-> p, off |-> i]

\* Every message the reader has returned is settled but the one at hand, which
\* is settled when the goroutine leaves "process"; and so are all messages
\* before the one at hand, which a rebalance may have put past the cursor.
RedisSettled ==
    (faults["expiry"] = 0) =>
        /\ \A p \in Partitions : \A i \in 1..committed[p] : SettledInRedis(p, i)
        /\ pc # "down" =>
              \A p \in Partitions : \A i \in 1..position[p] :
                  SettledInRedis(p, i) \/ (pc = "process" /\ Working(p, i))
        /\ Busy => \A i \in 1..(current.off - 1) : SettledInRedis(current.part, i)
        /\ pc \in {"enqueue", "commit"} =>
              SettledInRedis(current.part, current.off)

\* No fault is taken back.
LEMMA FaultsGrow ==
    ASSUME TypeOK, Next
    PROVE  /\ faults \in [FaultKinds -> Nat]
           /\ \A kind \in FaultKinds : faults[kind] <= faults'[kind]
<1>1. faults \in [FaultKinds -> Nat]
  BY DEF TypeOK, ServiceTypeOK
<1>2. \A kind \in FaultKinds : Fault(kind) =>
          \A k \in FaultKinds : faults[k] <= faults'[k]
  BY <1>1 DEF Fault
<1>3. {"stop", "rebalance", "redis", "postgres", "expiry"} \subseteq FaultKinds
  BY DEF FaultKinds
<1>4. faults' = faults \/ \E kind \in FaultKinds : Fault(kind)
  BY <1>3 DEF Next, Publish, PublishPoison, Start, StartWithoutHistory,
     StartProcess, Stop, Rebalance, Reader, FetchMessage, RejectMessage,
     ProcessMessage, Enqueue, CommitMessages, ProcessMessageFaulty, Worker,
     TakeRecord, PersistRecord, PersistRecordFaulty, Expire
<1> QED
  BY <1>1, <1>2, <1>4

\* As long as no fault of a kind has been seen there was none before.
LEMMA NoFaultSoFar ==
    ASSUME TypeOK, Next, NEW kind \in FaultKinds, faults'[kind] = 0
    PROVE  faults[kind] = 0 /\ ~Fault(kind)
<1>1. faults \in [FaultKinds -> Nat] /\ faults[kind] <= 0
  BY FaultsGrow
<1>2. Fault(kind) => faults'[kind] = faults[kind] + 1
  BY <1>1 DEF Fault
<1> QED
  BY <1>1, <1>2

LEMMA NoExpirySoFar ==
    ASSUME TypeOK, Next, faults'["expiry"] = 0
    PROVE  faults["expiry"] = 0 /\ ~Expire
<1>1. "expiry" \in FaultKinds
  BY DEF FaultKinds
<1> QED
  BY <1>1, NoFaultSoFar DEF Expire

\* What is settled stays so until a marker expires.
LEMMA RedisSettledStays ==
    ASSUME TypeOK, Next, faults'["expiry"] = 0,
           NEW p \in Partitions, NEW i \in 1..Len(log[p]), SettledInRedis(p, i)
    PROVE  SettledInRedis(p, i)'
<1>1. log'[p][i] = log[p][i]
  BY LogGrows DEF TypeOK
<1>2. marked \subseteq marked'
  BY NoExpirySoFar, RedisStep, ProcessEventMarks DEF redisVars
<1>3. redisErrors \subseteq redisErrors'
  BY DEF Next, Publish, PublishPoison, Start, StartWithoutHistory,
     StartProcess, Stop, Rebalance, Reader, FetchMessage, RejectMessage,
     ProcessMessage, Enqueue, CommitMessages, ProcessMessageFaulty, Worker,
     TakeRecord, PersistRecord, PersistRecordFaulty, Expire, logVars,
     AfterProcessEvent, AfterRedisError
<1> QED
  BY <1>1, <1>2, <1>3 DEF SettledInRedis

LEMMA RedisSettledStep ==
    ASSUME TypeOK, CursorsOK, RedisSettled, Next
    PROVE  RedisSettled'
<1> SUFFICES ASSUME faults'["expiry"] = 0
             PROVE  /\ \A p \in Partitions : \A i \in 1..committed'[p] :
                           SettledInRedis(p, i)'
                    /\ pc' # "down" =>
                          \A p \in Partitions : \A i \in 1..position'[p] :
                              \/ SettledInRedis(p, i)'
                              \/ (pc = "process" /\ Working(p, i))'
                    /\ Busy' => \A i \in 1..(current'.off - 1) :
                                    SettledInRedis(current.part, i)'
                    /\ pc' \in {"enqueue", "commit"} =>
                          SettledInRedis(current.part, current.off)'
  BY DEF RedisSettled
<1>1. /\ committed \in [Partitions -> Nat] /\ position \in [Partitions -> Nat]
      /\ \A p \in Partitions : /\ Len(log[p]) \in Nat
                               /\ committed[p] <= Len(log[p])
                               /\ position[p] <= Len(log[p])
  BY DEF TypeOK, ServiceTypeOK, CursorsOK
<1>2. Busy => /\ current \in Positions /\ current.part \in Partitions
              /\ current.off \in Nat
              /\ current.off \in 1..Len(log[current.part])
              /\ current = [part |-> current.part, off |-> current.off]
  BY DEF CursorsOK, Positions
<1>3. ASSUME NEW p \in Partitions, NEW i \in 1..Len(log[p]), SettledInRedis(p, i)
      PROVE  SettledInRedis(p, i)'
  BY <1>3, RedisSettledStays
<1>4. faults["expiry"] = 0
  BY NoExpirySoFar
<1>5. /\ \A p \in Partitions : \A i \in 1..committed[p] : SettledInRedis(p, i)'
      /\ pc # "down" =>
            \A p \in Partitions : \A i \in 1..position[p] :
                SettledInRedis(p, i)' \/ (pc = "process" /\ Working(p, i))
      /\ Busy => \A p \in Partitions : \A i \in 1..(current.off - 1) :
                     p = current.part => SettledInRedis(p, i)'
      /\ pc \in {"enqueue", "commit"} =>
            \A p, i : Working(p, i) => SettledInRedis(p, i)'
  <2>1. \A p \in Partitions : \A i \in 1..committed[p] : SettledInRedis(p, i)'
    BY <1>1, <1>3, <1>4 DEF RedisSettled
  <2>2. pc # "down" =>
            \A p \in Partitions : \A i \in 1..position[p] :
                SettledInRedis(p, i)' \/ (pc = "process" /\ Working(p, i))
    BY <1>1, <1>3, <1>4 DEF RedisSettled
  <2>3. Busy => \A p \in Partitions : \A i \in 1..(current.off - 1) :
                    p = current.part => SettledInRedis(p, i)'
    BY <1>1, <1>2, <1>3, <1>4 DEF RedisSettled
  <2>4. pc \in {"enqueue", "commit"} =>
            \A p, i : Working(p, i) => SettledInRedis(p, i)'
    BY <1>2, <1>3, <1>4 DEF RedisSettled, Working, Busy
  <2> QED
    BY <2>1, <2>2, <2>3, <2>4
<1>a. ASSUME Busy, current' = current
      PROVE  \A i \in 1..(current'.off - 1) : SettledInRedis(current.part, i)'
  BY <1>2, <1>5, <1>a
<1>b. ASSUME pc \in {"enqueue", "commit"}, current' = current
      PROVE  SettledInRedis(current.part, current.off)'
  BY <1>2, <1>5, <1>b DEF Working, Busy
<1>6. CASE UNCHANGED <<readerVars, committed>>
  <2>1. pc' = pc /\ current' = current /\ position' = position /\ committed' = committed
    BY <1>6 DEF readerVars
  <2> QED
    BY <1>5, <1>a, <1>b, <2>1 DEF Busy, Working
<1>7. CASE Start \/ StartWithoutHistory
  BY <1>5, <1>7 DEF Start, StartWithoutHistory, StartProcess, Busy, kafkaVars
<1>8. CASE Stop
  BY <1>5, <1>8 DEF Stop, Busy, kafkaVars
<1>9. CASE Rebalance
  <2>1. pc' = pc /\ current' = current /\ position' = committed /\ committed' = committed
    BY <1>9 DEF Rebalance, kafkaVars
  <2> QED
    BY <1>5, <1>a, <1>b, <2>1 DEF Busy
<1>10. ASSUME NEW q \in Partitions, FetchMessage(q)
       PROVE  /\ \A p \in Partitions : \A i \in 1..committed'[p] :
                     SettledInRedis(p, i)'
              /\ \A p \in Partitions : \A i \in 1..position'[p] :
                     \/ SettledInRedis(p, i)'
                     \/ (pc = "process" /\ Working(p, i))'
              /\ \A i \in 1..(current'.off - 1) : SettledInRedis(current.part, i)'
              /\ pc' = "process"
  <2>1. /\ position' = [position EXCEPT ![q] = @ + 1] /\ committed' = committed
        /\ current' = [part |-> q, off |-> position[q] + 1]
        /\ pc = "fetch" /\ pc' = "process"
    BY <1>10 DEF FetchMessage, kafkaVars
  <2>2. \A p \in Partitions : \A i \in 1..position[p] : SettledInRedis(p, i)'
    BY <1>5, <2>1
  <2>3. \A p \in Partitions : \A i \in 1..position'[p] :
            i \in 1..position[p] \/ Working(p, i)'
    BY <1>1, <2>1 DEF Working
  <2>4. \A i \in 1..(current'.off - 1) : SettledInRedis(current.part, i)'
    BY <1>1, <2>1, <2>2
  <2> QED
    BY <1>5, <2>1, <2>2, <2>3, <2>4
<1>11. ASSUME pc = "process", pc' \in {"enqueue", "commit"},
              UNCHANGED <<committed, position, current>>,
              SettledInRedis(current.part, current.off)'
       PROVE  /\ \A p \in Partitions : \A i \in 1..committed'[p] :
                     SettledInRedis(p, i)'
              /\ \A p \in Partitions : \A i \in 1..position'[p] :
                     SettledInRedis(p, i)'
              /\ \A i \in 1..(current'.off - 1) : SettledInRedis(current.part, i)'
  BY <1>2, <1>5, <1>11 DEF Busy, Working
<1>12. CASE RejectMessage
  <2>1. ~ForRedis(CurrentMessage)
    BY <1>12, ConsumerAssumption
       DEF RejectMessage, ForRedis, ProcessEvent, aggregateEventScript,
           ConsumerAssumption
  <2>2. SettledInRedis(current.part, current.off)'
    BY <1>2, <1>3, <1>12, <2>1 DEF RejectMessage, SettledInRedis, CurrentMessage, Busy
  <2>3. UNCHANGED <<committed, position, current>> /\ pc' = "commit" /\ pc = "process"
    BY <1>12 DEF RejectMessage, kafkaVars
  <2> QED
    BY <1>11, <2>2, <2>3
<1>13. CASE ProcessMessage \/ ProcessMessageFaulty
  <2>1. pc = "process" /\ committed' = committed /\ log' = log
    BY <1>13, ProcessStep DEF kafkaVars
  <2>2. CASE AfterRedisError
    <3>1. /\ UNCHANGED <<position, committed>> /\ pc' = "fetch"
          /\ redisErrors' = redisErrors \union {current}
      BY <2>1, <2>2 DEF AfterRedisError
    <3>2. \A p \in Partitions : \A i \in 1..position[p] :
              Working(p, i) => SettledInRedis(p, i)'
      BY <3>1 DEF Working, SettledInRedis
    <3> QED
      BY <1>5, <2>1, <3>1, <3>2 DEF Busy
  <2>3. ASSUME NEW status \in {"processed", "duplicate", "ignored"},
               \/ ProcessEvent(CurrentMessage, status)
               \/ ProcessEventFaulty(CurrentMessage, status),
               AfterProcessEvent(status)
        PROVE  /\ SettledInRedis(current.part, current.off)'
               /\ UNCHANGED <<committed, position, current>> /\ pc' = "enqueue"
    <3>1. Weighted(CurrentMessage) => CurrentMessage \in marked'
      BY <1>13, <2>3, ProcessStep, ProcessEventAnswer
    <3>2. current' = current
      BY <2>3 DEF AfterProcessEvent
    <3>3. SettledInRedis(current.part, current.off)'
      BY <2>1, <3>1, <3>2 DEF SettledInRedis, ForRedis, CurrentMessage
    <3> QED
      BY <2>1, <2>3, <3>3 DEF AfterProcessEvent
  <2>4. CASE \E status \in {"processed", "duplicate", "ignored"} :
                /\ \/ ProcessEvent(CurrentMessage, status)
                   \/ ProcessEventFaulty(CurrentMessage, status)
                /\ AfterProcessEvent(status)
    BY <1>11, <2>1, <2>3, <2>4
  <2> QED
    BY <1>13, <2>2, <2>4, ProcessStep
<1>14. CASE Enqueue
  <2>1. /\ UNCHANGED <<current, position, committed>>
        /\ pc = "enqueue" /\ pc' = "commit"
    BY <1>14 DEF Enqueue, kafkaVars
  <2> QED
    BY <1>5, <1>a, <1>b, <2>1 DEF Busy
<1>15. CASE CommitMessages
  <2>1. /\ committed' = [committed EXCEPT ![current.part] = current.off]
        /\ position' = position /\ pc = "commit" /\ pc' = "fetch"
    BY <1>15 DEF CommitMessages
  <2>2. \A p \in Partitions : \A i \in 1..committed'[p] :
            \/ i \in 1..committed[p]
            \/ p = current.part /\ i \in 1..(current.off - 1)
            \/ Working(p, i)
    BY <1>1, <1>2, <2>1 DEF Busy, Working
  <2>3. \A p \in Partitions : \A i \in 1..committed'[p] : SettledInRedis(p, i)'
    BY <1>5, <2>1, <2>2 DEF Busy
  <2> QED
    BY <1>5, <2>1, <2>3 DEF Busy
<1> QED
  BY <1>6, <1>7, <1>8, <1>9, <1>10, <1>12, <1>13, <1>14, <1>15, ReaderStep
     DEF Reader

-----------------------------------------------------------------------------
(* The committed offsets and PostgreSQL.                                   *)

\* The event has its row, is on its way to it, or is named in the log.
Traced(e) == e \in metadata \/ InQueue(e) \/ InHand(e) \/ e \in pgErrors

\* A queued record moves to a worker, a held one to its row or to the log, and
\* nothing but the end of the process forgets one.
LEMMA TracedStays ==
    ASSUME TypeOK, CursorsOK, Next, ~Stop, NEW e \in Events, Traced(e)
    PROVE  Traced(e)'
<1>1. queue \in Seq(Events) /\ holding \in [Workers -> Events \union {NoEvent}]
  BY DEF TypeOK, ServiceTypeOK
<1>2. CASE UNCHANGED <<metadata, queue, holding, pgErrors>>
  BY <1>2 DEF Traced, InQueue, InHand
<1>3. CASE Enqueue
  <2>1. metadata' = metadata /\ holding' = holding /\ pgErrors \subseteq pgErrors'
    BY <1>3 DEF Enqueue, enqueuePersistence, postgresVars
  <2>2. queue' = queue \/ queue' = Append(queue, CurrentMessage)
    BY <1>3 DEF Enqueue, enqueuePersistence
  <2>3. CurrentMessage \in Events
    BY <1>3 DEF Enqueue, CursorsOK, ForHistory
  <2>4. \A i \in 1..Len(queue) : i \in 1..Len(queue') /\ queue'[i] = queue[i]
    BY <1>1, <2>2, <2>3
  <2>5. InQueue(e) => InQueue(e)'
    BY <2>4 DEF InQueue
  <2> QED
    BY <2>1, <2>5 DEF Traced, InHand
<1>4. ASSUME NEW w \in Workers, TakeRecord(w)
      PROVE  Traced(e)'
  <2>1. /\ queue # <<>> /\ queue' = Tail(queue) /\ holding[w] = NoEvent
        /\ holding' = [holding EXCEPT ![w] = Head(queue)]
        /\ metadata' = metadata /\ pgErrors' = pgErrors
    BY <1>4 DEF TakeRecord, postgresVars, logVars
  <2>2. InQueue(e) => InQueue(e)' \/ e = Head(queue)
    <3>1. SUFFICES ASSUME NEW i \in 1..Len(queue), queue[i] = e
                   PROVE  InQueue(e)' \/ e = Head(queue)
      BY DEF InQueue
    <3>2. CASE i = 1
      BY <3>1, <3>2, <1>1
    <3>3. CASE i # 1
      <4>1. i - 1 \in 1..Len(Tail(queue)) /\ Tail(queue)[i - 1] = e
        BY <3>1, <3>3, <1>1, <2>1
      <4> QED
        BY <4>1, <2>1 DEF InQueue
    <3> QED
      BY <3>2, <3>3
  <2>3. e = Head(queue) => InHand(e)'
    BY <1>1, <2>1 DEF InHand
  <2>4. InHand(e) => InHand(e)'
    BY <1>1, <2>1, ConsumerAssumption DEF InHand, ConsumerAssumption
  <2> QED
    BY <2>1, <2>2, <2>3, <2>4 DEF Traced
<1>5. ASSUME NEW w \in Workers, PersistRecord(w) \/ PersistRecordFaulty(w)
      PROVE  Traced(e)'
  <2>1. PICK outcome \in {"persisted", "known", "error"} :
           /\ \/ PersistEvent(holding[w], outcome)
              \/ PersistEventFaulty(holding[w], outcome)
           /\ AfterPersistEvent(w, outcome)
    BY <1>5, PersistCall DEF TypeOK
  <2>2. /\ holding' = [holding EXCEPT ![w] = NoEvent]
        /\ queue' = queue /\ pgErrors \subseteq pgErrors'
        /\ outcome = "error" => holding[w] \in pgErrors'
    BY <2>1 DEF AfterPersistEvent
  <2>3. /\ metadata \subseteq metadata'
        /\ outcome # "error" => holding[w] \in metadata'
    BY <1>5, <2>1, PersistCall, PersistEventRows DEF TypeOK
  <2>4. InHand(e) => InHand(e)' \/ e = holding[w]
    BY <1>1, <2>2 DEF InHand
  <2> QED
    BY <2>2, <2>3, <2>4 DEF Traced, InQueue
<1> QED
  BY <1>2, <1>3, <1>4, <1>5 DEF Next, Publish, PublishPoison, Start,
     StartWithoutHistory, StartProcess, Rebalance, Reader, FetchMessage,
     RejectMessage, ProcessMessage, CommitMessages, ProcessMessageFaulty, Worker,
     Expire, historyVars, postgresVars, logVars, AfterProcessEvent, AfterRedisError

LEMMA HistorySettledStays ==
    ASSUME TypeOK, CursorsOK, Next, ~Stop,
           NEW p \in Partitions, NEW i \in 1..Len(log[p]), SettledInHistory(p, i)
    PROVE  SettledInHistory(p, i)'
<1>1. log'[p][i] = log[p][i]
  BY LogGrows DEF TypeOK
<1>2. redisErrors \subseteq redisErrors'
  BY DEF Next, Publish, PublishPoison, Start, StartWithoutHistory,
     StartProcess, Stop, Rebalance, Reader, FetchMessage, RejectMessage,
     ProcessMessage, Enqueue, CommitMessages, ProcessMessageFaulty, Worker,
     TakeRecord, PersistRecord, PersistRecordFaulty, Expire, logVars,
     AfterProcessEvent, AfterRedisError
<1>3. CASE ~ForHistory(log[p][i]) \/ [part |-> p, off |-> i] \in redisErrors
  BY <1>1, <1>2, <1>3 DEF SettledInHistory
<1>4. CASE log[p][i] \in Events /\ Traced(log[p][i])
  <2>1. PICK e \in Events : e = log[p][i]
    BY <1>4
  <2>2. Traced(e)
    BY <1>4, <2>1 DEF Traced, InQueue, InHand
  <2>3. Traced(e)' /\ e = log'[p][i]
    BY <1>1, <2>1, <2>2, TracedStays
  <2> QED
    BY <2>3 DEF SettledInHistory, Traced, InQueue, InHand
<1> QED
  BY <1>3, <1>4 DEF SettledInHistory, Traced, ForHistory

\* What this process has read is settled in history, but for the message at
\* hand until it has been queued.
HistorySettled ==
    (pc # "down" /\ historyOn) =>
        /\ \A p \in Partitions : \A i \in (resumed[p] + 1)..committed[p] :
              SettledInHistory(p, i)
        /\ \A p \in Partitions : \A i \in (resumed[p] + 1)..position[p] :
              SettledInHistory(p, i) \/ (pc \in {"process", "enqueue"} /\ Working(p, i))
        /\ Busy => \A i \in (resumed[current.part] + 1)..(current.off - 1) :
                       SettledInHistory(current.part, i)
        /\ pc = "commit" => SettledInHistory(current.part, current.off)

LEMMA HistorySettledStep ==
    ASSUME TypeOK, CursorsOK, HistorySettled, Next
    PROVE  HistorySettled'
<1> SUFFICES ASSUME pc' # "down", historyOn'
             PROVE  /\ \A p \in Partitions : \A i \in (resumed'[p] + 1)..committed'[p] :
                          SettledInHistory(p, i)'
                    /\ \A p \in Partitions : \A i \in (resumed'[p] + 1)..position'[p] :
                          \/ SettledInHistory(p, i)'
                          \/ (pc \in {"process", "enqueue"} /\ Working(p, i))'
                    /\ Busy' =>
                          \A i \in ((resumed[current.part])' + 1)..(current'.off - 1) :
                              SettledInHistory(current.part, i)'
                    /\ pc' = "commit" => SettledInHistory(current.part, current.off)'
  BY DEF HistorySettled
<1>1. /\ committed \in [Partitions -> Nat] /\ position \in [Partitions -> Nat]
      /\ resumed \in [Partitions -> Nat]
      /\ \A p \in Partitions : /\ Len(log[p]) \in Nat
                               /\ committed[p] <= Len(log[p])
                               /\ position[p] <= Len(log[p])
  BY DEF TypeOK, ServiceTypeOK, CursorsOK
<1>2. Busy => /\ current \in Positions /\ current.part \in Partitions
              /\ current.off \in Nat
              /\ current.off \in 1..Len(log[current.part])
              /\ current = [part |-> current.part, off |-> current.off]
  BY DEF CursorsOK, Positions
<1>3. CASE Start \/ StartWithoutHistory
  <2>1. /\ resumed' = committed /\ position' = committed /\ committed' = committed
        /\ pc' = "fetch"
    BY <1>3 DEF Start, StartWithoutHistory, StartProcess, kafkaVars
  <2> QED
    BY <1>1, <2>1 DEF Busy
<1>4. CASE ~(Start \/ StartWithoutHistory)
  <2>1. ~Stop
    BY DEF Stop
  <2>2. pc # "down" /\ historyOn /\ resumed' = resumed
    <3>1. CASE UNCHANGED <<readerVars, committed>>
      BY <3>1, <1>4 DEF readerVars, Next, Publish, PublishPoison, Stop, Rebalance,
         Reader, FetchMessage, RejectMessage, ProcessMessage, Enqueue, CommitMessages,
         ProcessMessageFaulty, Worker, TakeRecord, PersistRecord, PersistRecordFaulty,
         AfterPersistEvent, Expire, historyVars
    <3>2. CASE Reader \/ ProcessMessageFaulty \/ Rebalance
      BY <3>2 DEF Rebalance, Reader, FetchMessage, RejectMessage, ProcessMessage,
         Enqueue, CommitMessages, ProcessMessageFaulty, historyVars,
         AfterProcessEvent, AfterRedisError
    <3> QED
      BY <1>4, <2>1, <3>1, <3>2, ReaderStep
  <2>3. ASSUME NEW p \in Partitions, NEW i \in 1..Len(log[p]), SettledInHistory(p, i)
        PROVE  SettledInHistory(p, i)'
    BY <2>1, <2>3, HistorySettledStays
  <2>4. \A p \in Partitions : \A i \in (resumed[p] + 1)..committed[p] :
            SettledInHistory(p, i)'
    BY <1>1, <2>2, <2>3 DEF HistorySettled
  <2>5. \A p \in Partitions : \A i \in (resumed[p] + 1)..position[p] :
            SettledInHistory(p, i)' \/ (pc \in {"process", "enqueue"} /\ Working(p, i))
    BY <1>1, <2>2, <2>3 DEF HistorySettled
  <2>6. Busy => \A p \in Partitions : \A i \in (resumed[p] + 1)..(current.off - 1) :
                    p = current.part => SettledInHistory(p, i)'
    BY <1>1, <1>2, <2>2, <2>3 DEF HistorySettled
  <2>7. pc = "commit" => \A p, i : Working(p, i) => SettledInHistory(p, i)'
    BY <1>2, <2>2, <2>3 DEF HistorySettled, Working, Busy
  <2>a. ASSUME Busy, current' = current
        PROVE  \A i \in ((resumed[current.part])' + 1)..(current'.off - 1) :
                   SettledInHistory(current.part, i)'
    BY <1>2, <2>2, <2>6, <2>a
  <2>8. CASE UNCHANGED <<readerVars, committed>>
    <3>1. pc' = pc /\ current' = current /\ position' = position /\ committed' = committed
      BY <2>8 DEF readerVars
    <3>2. pc = "commit" => SettledInHistory(current.part, current.off)'
      BY <1>2, <2>7, <3>1 DEF Working, Busy
    <3> QED
      BY <2>2, <2>4, <2>5, <2>a, <3>1, <3>2 DEF Busy, Working
  <2>9. CASE Rebalance
    <3>1. pc' = pc /\ current' = current /\ position' = committed /\ committed' = committed
      BY <2>9 DEF Rebalance, kafkaVars
    <3>2. pc = "commit" => SettledInHistory(current.part, current.off)'
      BY <1>2, <2>7, <3>1 DEF Working, Busy
    <3> QED
      BY <2>2, <2>4, <2>a, <3>1, <3>2 DEF Busy
  <2>10. ASSUME NEW q \in Partitions, FetchMessage(q)
         PROVE  /\ \A p \in Partitions : \A i \in (resumed'[p] + 1)..committed'[p] :
                       SettledInHistory(p, i)'
                /\ \A p \in Partitions : \A i \in (resumed'[p] + 1)..position'[p] :
                       \/ SettledInHistory(p, i)'
                       \/ Working(p, i)'
                /\ \A i \in ((resumed[current.part])' + 1)..(current'.off - 1) :
                       SettledInHistory(current.part, i)'
                /\ pc' = "process"
    <3>1. /\ position' = [position EXCEPT ![q] = @ + 1] /\ committed' = committed
          /\ current' = [part |-> q, off |-> position[q] + 1]
          /\ pc = "fetch" /\ pc' = "process"
      BY <2>10 DEF FetchMessage, kafkaVars
    <3>2. \A p \in Partitions : \A i \in (resumed[p] + 1)..position[p] :
              SettledInHistory(p, i)'
      BY <2>5, <3>1
    <3>3. \A p \in Partitions : \A i \in (resumed[p] + 1)..position'[p] :
              i \in (resumed[p] + 1)..position[p] \/ Working(p, i)'
      BY <1>1, <3>1 DEF Working
    <3>4. \A i \in ((resumed[current.part])' + 1)..(current'.off - 1) :
              SettledInHistory(current.part, i)'
      BY <1>1, <2>2, <3>1, <3>2
    <3> QED
      BY <2>2, <2>4, <3>1, <3>2, <3>3, <3>4
  <2>11. CASE RejectMessage
    <3>1. ~ForHistory(CurrentMessage)
      BY <2>11, ConsumerAssumption
         DEF RejectMessage, ForHistory, ProcessEvent, aggregateEventScript,
             ConsumerAssumption
    <3>2. /\ UNCHANGED <<committed, position, current>> /\ pc' = "commit" /\ pc = "process"
      BY <2>11 DEF RejectMessage, kafkaVars
    <3>3. SettledInHistory(current.part, current.off)'
      BY <1>2, <2>3, <3>1, <3>2 DEF SettledInHistory, CurrentMessage, Busy
    <3>4. \A p, i : Working(p, i) => SettledInHistory(p, i)'
      BY <1>2, <3>2, <3>3 DEF Working, Busy
    <3> QED
      BY <2>2, <2>4, <2>5, <2>a, <3>2, <3>3, <3>4 DEF Busy
  <2>12. CASE ProcessMessage \/ ProcessMessageFaulty
    <3>1. pc = "process" /\ committed' = committed /\ log' = log
      BY <2>12, ProcessStep DEF kafkaVars
    <3>2. CASE AfterRedisError
      <4>1. /\ UNCHANGED <<position, committed>> /\ pc' = "fetch"
            /\ redisErrors' = redisErrors \union {current}
        BY <3>1, <3>2 DEF AfterRedisError
      <4>2. \A p, i : Working(p, i) => SettledInHistory(p, i)'
        BY <4>1 DEF Working, SettledInHistory
      <4> QED
        BY <2>2, <2>4, <2>5, <4>1, <4>2 DEF Busy
    <3>3. CASE \E status : AfterProcessEvent(status)
      <4>1. UNCHANGED <<committed, position, current>> /\ pc' = "enqueue"
        BY <3>1, <3>3 DEF AfterProcessEvent
      <4> QED
        BY <2>2, <2>4, <2>5, <2>a, <3>1, <4>1 DEF Busy, Working
    <3> QED
      BY <2>12, <3>2, <3>3, ProcessStep
  <2>13. CASE Enqueue
    <3>1. /\ UNCHANGED <<current, position, committed, log>>
          /\ pc = "enqueue" /\ pc' = "commit"
      BY <2>13 DEF Enqueue, kafkaVars
    <3>2. CurrentMessage \in Events
      BY <2>13 DEF Enqueue, CursorsOK, ForHistory
    <3>3. \/ queue' = Append(queue, CurrentMessage)
          \/ CurrentMessage \in pgErrors'
      BY <2>2, <2>13 DEF Enqueue, enqueuePersistence, TypeOK, ServiceTypeOK
    <3>4. queue' = Append(queue, CurrentMessage) =>
              /\ Len(queue') = Len(queue) + 1 /\ Len(queue) \in Nat
              /\ queue'[Len(queue) + 1] = CurrentMessage
      BY <3>2 DEF TypeOK, ServiceTypeOK
    <3>5. SettledInHistory(current.part, current.off)'
      BY <3>1, <3>3, <3>4 DEF SettledInHistory, InQueue, CurrentMessage
    <3>6. \A p, i : Working(p, i) => SettledInHistory(p, i)'
      BY <1>2, <3>1, <3>5 DEF Working, Busy
    <3> QED
      BY <2>2, <2>4, <2>5, <2>a, <3>1, <3>5, <3>6 DEF Busy
  <2>14. CASE CommitMessages
    <3>1. /\ committed' = [committed EXCEPT ![current.part] = current.off]
          /\ position' = position /\ pc = "commit" /\ pc' = "fetch"
      BY <2>14 DEF CommitMessages
    <3>2. \A p \in Partitions : \A i \in (resumed[p] + 1)..committed'[p] :
              \/ i \in (resumed[p] + 1)..committed[p]
              \/ p = current.part /\ i \in (resumed[p] + 1)..(current.off - 1)
              \/ Working(p, i)
      BY <1>1, <1>2, <3>1 DEF Busy, Working
    <3>3. \A p \in Partitions : \A i \in (resumed[p] + 1)..committed'[p] :
              SettledInHistory(p, i)'
      BY <2>4, <2>6, <2>7, <3>1, <3>2 DEF Busy
    <3> QED
      BY <2>2, <2>5, <3>1, <3>3 DEF Busy
  <2> QED
    BY <1>4, <2>1, <2>8, <2>9, <2>10, <2>11, <2>12, <2>13, <2>14, ReaderStep
       DEF Reader, Busy
<1> QED
  BY <1>3, <1>4

-----------------------------------------------------------------------------
(* The ranking and the history.                                            *)

InPipeline(e) == e \in metadata \/ InQueue(e) \/ InHand(e)

\* Only Enqueue brings an event into the pipeline to PostgreSQL.
LEMMA PipelineStep ==
    ASSUME TypeOK, CursorsOK, Next, NEW e \in Events, InPipeline(e)'
    PROVE  InPipeline(e) \/ (pc = "enqueue" /\ e = CurrentMessage)
<1>1. queue \in Seq(Events) /\ holding \in [Workers -> Events \union {NoEvent}]
      /\ NoEvent \notin Events
  BY ConsumerAssumption DEF TypeOK, ServiceTypeOK, ConsumerAssumption
<1>2. CASE UNCHANGED <<metadata, queue, holding>>
  BY <1>2 DEF InPipeline, InQueue, InHand
<1>3. CASE Stop
  <2>1. ~InQueue(e)'
    BY <1>3 DEF Stop, InQueue
  <2>2. ~InHand(e)'
    BY <1>1, <1>3 DEF Stop, InHand, IdleWorkers
  <2>3. metadata' = metadata
    BY <1>3 DEF Stop, postgresVars
  <2> QED
    BY <2>1, <2>2, <2>3 DEF InPipeline
<1>4. CASE Enqueue
  <2>1. /\ UNCHANGED <<metadata, holding>> /\ pc = "enqueue"
        /\ queue' = queue \/ queue' = Append(queue, CurrentMessage)
    BY <1>4 DEF Enqueue, enqueuePersistence, postgresVars
  <2>2. CurrentMessage \in Events
    BY <1>4 DEF Enqueue, CursorsOK, ForHistory
  <2>3. InQueue(e)' => InQueue(e) \/ e = CurrentMessage
    BY <1>1, <2>1, <2>2 DEF InQueue
  <2> QED
    BY <2>1, <2>3 DEF InPipeline, InHand
<1>5. ASSUME NEW w \in Workers, TakeRecord(w)
      PROVE  InPipeline(e)
  <2>1. /\ queue # <<>> /\ queue' = Tail(queue)
        /\ holding' = [holding EXCEPT ![w] = Head(queue)]
        /\ metadata' = metadata
    BY <1>5 DEF TakeRecord, postgresVars
  <2>2. InQueue(e)' => InQueue(e)
    <3>1. SUFFICES ASSUME NEW i \in 1..Len(Tail(queue)), Tail(queue)[i] = e
                   PROVE  InQueue(e)
      BY <2>1 DEF InQueue
    <3>2. i + 1 \in 1..Len(queue) /\ queue[i + 1] = e
      BY <1>1, <2>1, <3>1
    <3> QED
      BY <3>2 DEF InQueue
  <2>3. InQueue(Head(queue))
    BY <1>1, <2>1 DEF InQueue
  <2>4. InHand(e)' => InHand(e) \/ e = Head(queue)
    BY <1>1, <2>1 DEF InHand
  <2> QED
    BY <2>1, <2>2, <2>3, <2>4 DEF InPipeline, InQueue
<1>6. ASSUME NEW w \in Workers, PersistRecord(w) \/ PersistRecordFaulty(w)
      PROVE  InPipeline(e)
  <2>1. PICK outcome \in {"persisted", "known", "error"} :
           /\ \/ PersistEvent(holding[w], outcome)
              \/ PersistEventFaulty(holding[w], outcome)
           /\ AfterPersistEvent(w, outcome)
    BY <1>6, PersistCall DEF TypeOK
  <2>2. /\ holding' = [holding EXCEPT ![w] = NoEvent] /\ queue' = queue
        /\ holding[w] \in Events
    BY <1>6, <2>1, PersistCall DEF AfterPersistEvent, TypeOK
  <2>3. metadata' \subseteq metadata \union {holding[w]}
    BY <2>1, <2>2, PersistEventRows
  <2>4. InHand(e)' => InHand(e)
    BY <1>1, <2>2 DEF InHand
  <2> QED
    BY <2>2, <2>3, <2>4 DEF InPipeline, InQueue, InHand
<1> QED
  BY <1>2, <1>3, <1>4, <1>5, <1>6 DEF Next, Publish, PublishPoison, Start,
     StartWithoutHistory, StartProcess, Rebalance, Reader, FetchMessage,
     RejectMessage, ProcessMessage, CommitMessages, ProcessMessageFaulty, Worker,
     Expire, historyVars, postgresVars

\* HistoryFollowsRanking, also for the event about to be queued.
RankingFirst ==
    (faults["expiry"] = 0 /\ TTLSeconds(IdempotencyTTL) > 0) =>
        /\ \A e \in Events : Weighted(e) /\ InPipeline(e) => e \in marked
        /\ (pc = "enqueue" /\ Weighted(CurrentMessage)) => CurrentMessage \in marked

LEMMA RankingFirstStep ==
    ASSUME TypeOK, CursorsOK, RankingFirst, Next
    PROVE  RankingFirst'
<1> SUFFICES ASSUME faults'["expiry"] = 0, TTLSeconds(IdempotencyTTL) > 0
             PROVE  /\ \A e \in Events : Weighted(e) /\ InPipeline(e)' => e \in marked'
                    /\ (pc' = "enqueue" /\ Weighted(CurrentMessage)')
                           => CurrentMessage' \in marked'
  BY DEF RankingFirst, Weighted, EventScore
<1>1. faults["expiry"] = 0 /\ ~Expire
  BY NoExpirySoFar
<1>2. marked \subseteq marked'
  BY <1>1, RedisStep, ProcessEventMarks DEF redisVars
<1>3. \A e \in Events : Weighted(e) /\ InPipeline(e)' => e \in marked'
  BY <1>1, <1>2, PipelineStep DEF RankingFirst
<1>4. ASSUME pc' = "enqueue", Weighted(CurrentMessage)'
      PROVE  CurrentMessage' \in marked'
  <2>1. CASE UNCHANGED <<readerVars, committed>>
    <3>1. pc = "enqueue" /\ current' = current /\ current.part \in Partitions
          /\ current.off \in 1..Len(log[current.part])
      BY <1>4, <2>1 DEF readerVars, CursorsOK, Busy, Positions
    <3>2. CurrentMessage' = CurrentMessage
      BY <3>1, LogGrows DEF CurrentMessage, TypeOK
    <3> QED
      BY <1>1, <1>2, <1>4, <3>1, <3>2 DEF RankingFirst, Weighted, EventScore
  <2>2. CASE Rebalance
    BY <1>1, <1>2, <1>4, <2>2 DEF Rebalance, RankingFirst, CurrentMessage, kafkaVars,
       Weighted, EventScore
  <2>3. CASE ProcessMessage \/ ProcessMessageFaulty
    <3>1. PICK status \in {"processed", "duplicate", "ignored"} :
             /\ \/ ProcessEvent(CurrentMessage, status)
                \/ ProcessEventFaulty(CurrentMessage, status)
             /\ AfterProcessEvent(status)
      BY <1>4, <2>3, ProcessStep DEF AfterRedisError
    <3>2. CurrentMessage' = CurrentMessage /\ CurrentMessage \in Events
      BY <2>3, <3>1, ProcessStep DEF AfterProcessEvent, CurrentMessage, kafkaVars
    <3> QED
      BY <1>4, <3>1, <3>2, ProcessEventAnswer DEF Weighted, EventScore
  <2> QED
    BY <1>4, <2>1, <2>2, <2>3, ReaderStep DEF Start, StartWithoutHistory,
       StartProcess, Stop, Reader, FetchMessage, RejectMessage, Enqueue, CommitMessages
<1> QED
  BY <1>3, <1>4

\* Nothing is counted, queued or recorded that is not in the topic.
FromTopic ==
    \A e \in Events : (e \in marked \/ InPipeline(e)) => e \in Published

LEMMA CurrentIsPublished ==
    ASSUME TypeOK, CursorsOK, Busy, CurrentMessage \in Events
    PROVE  CurrentMessage \in Published
BY DEF CursorsOK, Positions, CurrentMessage, Published

LEMMA FromTopicStep ==
    ASSUME TypeOK, CursorsOK, FromTopic, Next
    PROVE  FromTopic'
<1>1. Published \subseteq Published'
  BY LogGrows DEF Published, TypeOK
<1>2. \A e \in Events : e \in marked' => e \in marked \/ (Busy /\ e = CurrentMessage)
  BY RedisStep, ProcessEventMarks DEF redisVars, Expire, MarkerExpires,
     WindowExpires, Busy
<1>3. \A e \in Events : InPipeline(e)' => InPipeline(e) \/ (Busy /\ e = CurrentMessage)
  BY PipelineStep DEF Busy
<1> QED
  BY <1>1, <1>2, <1>3, CurrentIsPublished DEF FromTopic

-----------------------------------------------------------------------------
(* The inductive invariant and what follows from it.                       *)

ExpiryBounded == faults["expiry"] <= MaxExpiries

\* The list of recent events has what RecentListsCountedEvents asks of every
\* page of it.
RecentSettled == (faults["expiry"] = 0) => RecentIsMarked

IndInv ==
    /\ TypeOK
    /\ CursorsOK
    /\ ExpiryBounded
    /\ SnapshotsMatchMetadata
    /\ TrendingCountsEachEventOnce
    /\ RecentSettled
    /\ RedisSettled
    /\ HistorySettled
    /\ RankingFirst
    /\ FromTopic

LEMMA IndInvInit == Init => IndInv
<1> SUFFICES ASSUME Init PROVE IndInv
  OBVIOUS
<1> USE DEF Init, RedisInit, PostgresInit
<1>1. TypeOK
  <2>1. RedisTypeOK
    BY DEF RedisTypeOK, EmptyWindow
  <2>2. PostgresTypeOK
    BY DEF PostgresTypeOK, EmptyTable, NoRow, Totals
  <2>3. ServiceTypeOK
    <3>1. /\ <<>> \in Seq(Messages) /\ <<>> \in Seq(Events)
          /\ IdleWorkers \in [Workers -> Events \union {NoEvent}]
          /\ ZeroMetrics \in [Counters -> Nat]
      BY DEF IdleWorkers, ZeroMetrics
    <3> QED
      BY <3>1 DEF ServiceTypeOK
  <2> QED
    BY <2>1, <2>2, <2>3 DEF TypeOK
<1>2. CursorsOK
  BY DEF CursorsOK, Busy
<1>3. ExpiryBounded
  BY ConsumerAssumption DEF ExpiryBounded, FaultKinds, ConsumerAssumption
<1>4. SnapshotsMatchMetadata
  <2>2. \A r, h : ExpectedTotals({}, r, h) = NoRow
    BY EmptyTotals DEF NoRow
  <2>3. Scoring({}, 1) = {}
    BY DEF Scoring
  <2> QED
    BY <2>2, <2>3 DEF SnapshotsMatchMetadata, EmptyTable
<1>5. TrendingCountsEachEventOnce
  <2>1. \A r : OfRepo({}, r) = {}
    BY DEF OfRepo
  <2> QED
    BY <2>1, ScoreSumEmpty DEF TrendingCountsEachEventOnce, RankingIsSum
<1>6. RedisSettled /\ HistorySettled
  BY DEF RedisSettled, HistorySettled, Busy
<1>8. RecentSettled
  BY FS_EmptySet, RedisAssumption DEF RecentSettled, RecentIsMarked, RedisAssumption
<1>7. RankingFirst /\ FromTopic
  BY ConsumerAssumption
     DEF RankingFirst, FromTopic, InPipeline, InQueue, InHand, IdleWorkers,
         ConsumerAssumption
<1> QED
  BY <1>1, <1>2, <1>3, <1>4, <1>5, <1>6, <1>7, <1>8 DEF IndInv

LEMMA ExpiryBoundedStep ==
    ASSUME TypeOK, ExpiryBounded, Next
    PROVE  ExpiryBounded'
<1>1. faults \in [FaultKinds -> Nat] /\ MaxExpiries \in Nat
  BY ConsumerAssumption DEF TypeOK, ServiceTypeOK, ConsumerAssumption
<1>2. \A kind \in FaultKinds : Fault(kind) => faults'["expiry"] <= MaxExpiries
  BY <1>1 DEF Fault, ExpiryBounded, MaxFaults, FaultKinds
<1>3. {"stop", "rebalance", "redis", "postgres", "expiry"} \subseteq FaultKinds
  BY DEF FaultKinds
<1>4. faults' = faults \/ \E kind \in FaultKinds : Fault(kind)
  BY <1>3 DEF Next, Publish, PublishPoison, Start, StartWithoutHistory,
     StartProcess, Stop, Rebalance, Reader, FetchMessage, RejectMessage,
     ProcessMessage, Enqueue, CommitMessages, ProcessMessageFaulty, Worker,
     TakeRecord, PersistRecord, PersistRecordFaulty, Expire
<1> QED
  BY <1>2, <1>4 DEF ExpiryBounded

LEMMA SnapshotsStep ==
    ASSUME TypeOK, SnapshotsMatchMetadata, Next
    PROVE  SnapshotsMatchMetadata'
<1>1. CASE UNCHANGED postgresVars
  BY <1>1 DEF SnapshotsMatchMetadata, postgresVars
<1>2. ASSUME NEW w \in Workers, PersistRecord(w) \/ PersistRecordFaulty(w)
      PROVE  SnapshotsMatchMetadata'
  BY <1>2, PersistCall, PersistEventMatches DEF TypeOK
<1> QED
  BY <1>1, <1>2, PostgresStep

LEMMA RankingStep ==
    ASSUME TypeOK, TrendingCountsEachEventOnce, Next
    PROVE  TrendingCountsEachEventOnce'
<1> SUFFICES ASSUME faults'["expiry"] = 0, TTLSeconds(IdempotencyTTL) > 0
             PROVE  RankingIsSum'
  BY DEF TrendingCountsEachEventOnce
<1>1. faults["expiry"] = 0 /\ ~Expire
  BY NoExpirySoFar
<1>2. RankingIsSum
  BY <1>1 DEF TrendingCountsEachEventOnce
<1>3. CASE UNCHANGED redisVars
  BY <1>2, <1>3 DEF RankingIsSum, redisVars
<1> QED
  BY <1>1, <1>2, <1>3, RedisStep, ProcessEventSum DEF TypeOK

LEMMA RecentStep ==
    ASSUME TypeOK, RecentSettled, Next
    PROVE  RecentSettled'
<1> SUFFICES ASSUME faults'["expiry"] = 0
             PROVE  RecentIsMarked'
  BY DEF RecentSettled
<1>1. RecentIsMarked /\ ~Expire
  BY NoExpirySoFar DEF RecentSettled
<1>2. CASE UNCHANGED redisVars
  BY <1>1, <1>2 DEF RecentIsMarked, redisVars
<1> QED
  BY <1>1, <1>2, RedisStep, ProcessEventRecent DEF TypeOK

LEMMA IndInvStep == IndInv /\ [Next]_vars => IndInv'
<1> SUFFICES ASSUME IndInv, [Next]_vars PROVE IndInv'
  OBVIOUS
<1>1. CASE UNCHANGED vars
  <2> USE <1>1 DEF vars, redisVars, postgresVars, kafkaVars, readerVars, historyVars,
          logVars
  <2>1. TypeOK'
    BY DEF IndInv, TypeOK, RedisTypeOK, PostgresTypeOK, ServiceTypeOK
  <2>2. CursorsOK' /\ ExpiryBounded' /\ RankingFirst' /\ FromTopic'
    BY DEF IndInv, CursorsOK, ExpiryBounded, RankingFirst, FromTopic, Busy,
       ForHistory, CurrentMessage, InPipeline, InQueue, InHand, Published, Weighted,
       EventScore
  <2>3. SnapshotsMatchMetadata' /\ TrendingCountsEachEventOnce' /\ RecentSettled'
    BY DEF IndInv, SnapshotsMatchMetadata, TrendingCountsEachEventOnce, RankingIsSum,
       RecentSettled, RecentIsMarked
  <2>4. RedisSettled'
    BY DEF IndInv, RedisSettled, SettledInRedis, Working, Busy, ForRedis, Weighted,
       EventScore, Complete
  <2>5. HistorySettled'
    BY DEF IndInv, HistorySettled, SettledInHistory, Working, Busy, InQueue, InHand,
       ForHistory, Weighted, EventScore, Complete
  <2> QED
    BY <2>1, <2>2, <2>3, <2>4, <2>5 DEF IndInv
<1>2. CASE Next
  <2>1. TypeOK'
    BY <1>2, RedisTypes, PostgresTypes, ServiceTypes DEF IndInv, TypeOK
  <2> QED
    BY <1>2, <2>1, CursorsStep, ExpiryBoundedStep, SnapshotsStep, RankingStep,
       RecentStep, RedisSettledStep, HistorySettledStep, RankingFirstStep, FromTopicStep DEF IndInv
<1> QED
  BY <1>1, <1>2

THEOREM InductiveInvariant == Spec => []IndInv
<1> QED
  BY IndInvInit, IndInvStep, PTL DEF Spec

\* Every variable keeps its type.
THEOREM TypeCorrectness == Spec => []TypeOK
<1>1. IndInv => TypeOK
  BY DEF IndInv
<1> QED
  BY <1>1, InductiveInvariant, PTL

\* PersistEvent keeps the window tables in agreement with the rows of metadata,
\* for any number of workers and through failed and lost transactions.
THEOREM HistoryIsConsistent == Spec => []SnapshotsMatchMetadata
<1>1. IndInv => SnapshotsMatchMetadata
  BY DEF IndInv
<1> QED
  BY <1>1, InductiveInvariant, PTL

\* No crash, redelivery, duplicate or lost reply makes the aggregation script
\* count an event twice, or mark one without counting it.
THEOREM RankingIsExact == Spec => []TrendingCountsEachEventOnce
<1>1. IndInv => TrendingCountsEachEventOnce
  BY DEF IndInv
<1> QED
  BY <1>1, InductiveInvariant, PTL

\* A page of the list has the first events of the list.
LEMMA RecentPage ==
    ASSUME RedisTypeOK, NEW limit \in 1..RecentEventsLimit
    PROVE  LET page == RecentEvents(recent, limit, RecentEventsLimit)
           IN  /\ Len(page) = IF limit < Len(recent) THEN limit ELSE Len(recent)
               /\ \A i \in 1..Len(page) : page[i] = recent[i] /\ i \in 1..Len(recent)
<1> DEFINE shown == IF limit < Len(recent) THEN limit ELSE Len(recent)
<1>1. /\ recent \in Seq(Events) /\ Len(recent) \in Nat
      /\ RecentEventsLimit \in Nat /\ limit \in Nat /\ limit > 0
      /\ limit <= RecentEventsLimit
  BY RedisAssumption DEF RedisAssumption, RedisTypeOK
<1>2. RecentEvents(recent, limit, RecentEventsLimit) = SubSeq(recent, 1, shown)
  BY <1>1 DEF RecentEvents
<1>3. shown \in 0..Len(recent)
  BY <1>1
<1> HIDE DEF shown
<1>4. /\ Len(SubSeq(recent, 1, shown)) = shown
      /\ \A i \in 1..shown : SubSeq(recent, 1, shown)[i] = recent[i]
  BY <1>1, <1>3
<1> QED
  BY <1>1, <1>2, <1>3, <1>4 DEF shown

LEMMA RecentPages == IndInv => RecentListsCountedEvents
<1>1. ASSUME IndInv
      PROVE  RecentListsCountedEvents
  <2> SUFFICES ASSUME faults["expiry"] = 0, NEW limit \in 1..RecentEventsLimit
               PROVE  LET page == RecentEvents(recent, limit, RecentEventsLimit)
                      IN  /\ \A i \in 1..Len(page) : page[i] \in marked
                          /\ \A i, j \in 1..Len(page) : i # j => page[i] # page[j]
                          /\ Len(page) = IF Cardinality(marked) < limit
                                         THEN Cardinality(marked) ELSE limit
    BY DEF RecentListsCountedEvents
  <2> DEFINE page == RecentEvents(recent, limit, RecentEventsLimit)
  <2>1. RedisTypeOK /\ RecentIsMarked
    BY <1>1 DEF IndInv, TypeOK, RecentSettled
  <2>2. /\ Len(page) = IF limit < Len(recent) THEN limit ELSE Len(recent)
        /\ \A i \in 1..Len(page) : page[i] = recent[i] /\ i \in 1..Len(recent)
    BY <2>1, RecentPage
  <2> HIDE DEF page
  <2>3. /\ Cardinality(marked) \in Nat /\ RecentEventsLimit \in Nat
        /\ limit \in Nat /\ limit <= RecentEventsLimit
    BY <2>1, EventsAssumption, FS_Subset, FS_CardinalityType, RedisAssumption
       DEF EventsAssumption, RedisTypeOK, RedisAssumption
  <2>4. Len(page) = IF Cardinality(marked) < limit THEN Cardinality(marked) ELSE limit
    BY <2>1, <2>2, <2>3 DEF RecentIsMarked
  <2>5. /\ \A i \in 1..Len(page) : page[i] \in marked
        /\ \A i, j \in 1..Len(page) : i # j => page[i] # page[j]
    BY <2>1, <2>2 DEF RecentIsMarked
  <2> QED
    BY <2>4, <2>5 DEF page
<1> QED
  BY <1>1

\* The list of recent events never shows an event that is not counted, or one
\* twice, and never fewer than it could.
THEOREM RecentIsExact == Spec => []RecentListsCountedEvents
<1> QED
  BY RecentPages, InductiveInvariant, PTL

\* runConsumer commits no message that Redis lacks without having logged it.
THEOREM NothingSkippedSilently == Spec => []CommittedIsInRedis
<1>1. IndInv => CommittedIsInRedis
  BY DEF IndInv, RedisSettled, CommittedIsInRedis
<1> QED
  BY <1>1, InductiveInvariant, PTL

\* What a process commits reaches PostgreSQL or its log, as long as it lives.
THEOREM CommittedIsTraced == Spec => []CommittedReachesHistory
<1>1. IndInv => CommittedReachesHistory
  BY DEF IndInv, HistorySettled, CommittedReachesHistory
<1> QED
  BY <1>1, InductiveInvariant, PTL

\* PostgreSQL never has a weighted event that the ranking lacks.
THEOREM RankingComesFirst == Spec => []HistoryFollowsRanking
<1>1. IndInv => HistoryFollowsRanking
  BY DEF IndInv, RankingFirst, HistoryFollowsRanking, InPipeline
<1> QED
  BY <1>1, InductiveInvariant, PTL

\* The two rankings are pages over the same events: each row of metadata with
\* weight is in the ranking of Redis as well.
LEMMA PagesCompared ==
    ASSUME TypeOK, SnapshotsMatchMetadata, TrendingCountsEachEventOnce, RankingFirst
    PROVE  HistoryPageBehindTrendingPage
<1> SUFFICES ASSUME faults["expiry"] = 0, TTLSeconds(IdempotencyTTL) > 0
             PROVE  LET past == HistoricalTrending(snapshots, Cardinality(Events))
                        live == TrendingRepos(trending, Cardinality(Events))
                    IN  /\ Len(past) <= Len(live)
                        /\ \A i \in 1..Len(past) : past[i].score <= live[i].score
  BY DEF HistoryPageBehindTrendingPage
<1> DEFINE limit == OrDefault(Cardinality(Events), 10)
           rows(r) == Scoring(OfRepo(metadata, r), 1)
           score == [r \in Repos |-> SumOf([h \in Hours |-> snapshots[r][h].score])]
           count == [r \in Repos |-> SumOf([h \in Hours |-> snapshots[r][h].count])]
           ranked == {r \in Repos : count[r] > 0}
           listed == {r \in Repos : trending[r] > 0}
           lower == Highest(ranked, score, limit)
           higher == Highest(listed, trending, limit)
           past == HistoricalTrending(snapshots, Cardinality(Events))
           live == TrendingRepos(trending, Cardinality(Events))
<1>1. limit \in Nat
  BY EventsAssumption, FS_CardinalityType DEF EventsAssumption, OrDefault
<1>2. /\ metadata \in SUBSET Events /\ marked \in SUBSET Events
      /\ \A e \in metadata : Weighted(e) => e \in marked
      /\ \A r \in Repos : trending[r] = ScoreSum(OfRepo(marked, r))
  BY DEF TypeOK, PostgresTypeOK, RedisTypeOK, RankingFirst, InPipeline,
     TrendingCountsEachEventOnce, RankingIsSum
<1>3. ASSUME NEW r \in Repos
      PROVE  /\ score[r] = ScoreSum(rows(r))
             /\ count[r] = Cardinality(rows(r))
  <2>1. \A h \in Hours : snapshots[r][h] = ExpectedTotals(metadata, r, h)
    BY DEF SnapshotsMatchMetadata
  <2>2. /\ SumOf([h \in Hours |-> snapshots[r][h].score]) = ScoreSum(rows(r))
        /\ SumOf([h \in Hours |-> snapshots[r][h].count]) = Cardinality(rows(r))
    BY <1>2, <2>1, RankedSums
  <2> HIDE DEF rows
  <2> QED
    BY <2>2
<1>4. ASSUME NEW r \in Repos
      PROVE  /\ score[r] \in Nat /\ trending[r] \in Nat
             /\ score[r] <= trending[r]
             /\ count[r] > 0 => trending[r] > 0
  <2>1. /\ OfRepo(marked, r) \in SUBSET Events
        /\ rows(r) \in SUBSET OfRepo(marked, r)
    <3>1. \A e : EventScore(e) >= 1 => Weighted(e)
      <4>1. \A e : EventScore(e) \in 0..3
        BY ScoreRange
      <4> QED
        BY <4>1 DEF Weighted
    <3> QED
      BY <1>2, <3>1 DEF OfRepo, Scoring
  <2>2. count[r] > 0 => \E e \in OfRepo(marked, r) : Weighted(e)
    <3>1. count[r] > 0 <=> \E e \in metadata : RepoOf[e] = r /\ Weighted(e)
      <4>1. Cardinality(rows(r)) > 0
                <=> \E e \in metadata : RepoOf[e] = r /\ Weighted(e)
        BY <1>2, RankedRepos
      <4> HIDE DEF rows, count
      <4> QED
        BY <1>3, <4>1
    <3> HIDE DEF count
    <3> QED
      BY <1>2, <3>1 DEF OfRepo
  <2> HIDE DEF rows, count, score
  <2>3. /\ ScoreSum(rows(r)) \in Nat /\ ScoreSum(OfRepo(marked, r)) \in Nat
        /\ ScoreSum(rows(r)) <= ScoreSum(OfRepo(marked, r))
    BY <2>1, ScoreSumGrows
  <2>4. ScoreSum(OfRepo(marked, r)) > 0
            <=> \E e \in OfRepo(marked, r) : Weighted(e)
    BY <2>1, ScoreSumGrows
  <2> QED
    BY <1>2, <1>3, <2>2, <2>3, <2>4
<1>5. IsFiniteSet(listed)
  <2>1. ASSUME NEW r \in listed
        PROVE  \E e \in Events : RepoOf[e] = r
    <3>1. OfRepo(marked, r) \in SUBSET Events /\ ScoreSum(OfRepo(marked, r)) > 0
      BY <1>2 DEF OfRepo
    <3>2. PICK e \in OfRepo(marked, r) : Weighted(e)
      BY <3>1, ScoreSumGrows
    <3> QED
      BY <1>2, <3>2 DEF OfRepo
  <2> HIDE DEF listed
  <2> QED
    BY <2>1, RepositoriesFinite
<1>6. /\ ranked \in SUBSET listed
      /\ \A r \in ranked : score[r] \in Int /\ score[r] <= trending[r]
      /\ \A r \in listed : trending[r] \in Int
  <2> HIDE DEF score, count
  <2> QED
    BY <1>4
<1>7. /\ past = [i \in 1..Len(lower) |-> [repo  |-> lower[i],
                                        score |-> score[lower[i]],
                                        count |-> count[lower[i]]]]
      /\ live = [i \in 1..Len(higher) |-> [repo |-> higher[i],
                                          score |-> trending[higher[i]]]]
  BY Zenon DEF HistoricalTrending, TrendingRepos
<1> HIDE DEF limit, rows, score, count, ranked, listed, past, live
<1>8. /\ Len(lower) <= Len(higher)
      /\ Len(lower) \in Nat /\ Len(higher) \in Nat
      /\ \A i \in 1..Len(lower) : score[lower[i]] <= trending[higher[i]]
  BY <1>1, <1>5, <1>6, PagesInOrder
<1> HIDE DEF lower, higher
<1>9. Len(past) = Len(lower) /\ Len(live) = Len(higher)
  BY <1>7, <1>8
<1>10. ASSUME NEW i \in 1..Len(lower)
       PROVE  past[i].score = score[lower[i]] /\ live[i].score = trending[higher[i]]
  <2>1. i \in 1..Len(higher)
    BY <1>8
  <2>2. /\ past[i] = [repo |-> lower[i], score |-> score[lower[i]],
                      count |-> count[lower[i]]]
        /\ live[i] = [repo |-> higher[i], score |-> trending[higher[i]]]
    BY <1>7, <2>1
  <2> QED
    BY <2>2
<1> QED
  BY <1>8, <1>9, <1>10 DEF past, live

\* A reader of both pages never finds more in the historical ranking.
THEOREM HistoryPageIsBehind == Spec => []HistoryPageBehindTrendingPage
<1>1. IndInv => HistoryPageBehindTrendingPage
  BY PagesCompared DEF IndInv
<1> QED
  BY <1>1, InductiveInvariant, PTL

-----------------------------------------------------------------------------
(* When the documentation is right: what it says of recovery and restarts  *)
(* is broken by the one kind of fault that its counterexample shows, and   *)
(* by no other.                                                            *)

\* ProcessEvent returns an error only when a call to Redis fails or no marker
\* can be set.
ErrorsAreOutages ==
    (faults["redis"] = 0 /\ TTLSeconds(IdempotencyTTL) > 0) => redisErrors = {}

LEMMA ErrorsAreOutagesStep ==
    ASSUME TypeOK, ErrorsAreOutages, Next
    PROVE  ErrorsAreOutages'
<1> SUFFICES ASSUME faults'["redis"] = 0, TTLSeconds(IdempotencyTTL) > 0
             PROVE  redisErrors' = redisErrors
  <2>1. "redis" \in FaultKinds
    BY DEF FaultKinds
  <2> QED
    BY <2>1, NoFaultSoFar DEF ErrorsAreOutages
<1>1. ~ProcessMessageFaulty
  <2>1. "redis" \in FaultKinds
    BY DEF FaultKinds
  <2> QED
    BY <2>1, NoFaultSoFar DEF ProcessMessageFaulty
<1>2. CASE ProcessMessage
  <2>1. ~ProcessEvent(CurrentMessage, "error")
    BY DEF ProcessEvent, aggregateEventScript
  <2> QED
    BY <1>2, <2>1 DEF ProcessMessage, AfterProcessEvent
<1>3. CASE ~ProcessMessage
  BY <1>1, <1>3 DEF Next, Publish, PublishPoison, Start, StartWithoutHistory,
     StartProcess, Stop, Rebalance, Reader, FetchMessage, RejectMessage,
     Enqueue, CommitMessages, Worker, TakeRecord, PersistRecord,
     PersistRecordFaulty, Expire, logVars
<1> QED
  BY <1>2, <1>3

\* docs/benchmarking.md:98: as long as no call to Redis has failed, and no
\* marker has expired, every event the group has committed is in the ranking,
\* through restarts, rebalances and failures of PostgreSQL.
THEOREM OnlyOutagesLoseCounts ==
    ASSUME TTLSeconds(IdempotencyTTL) > 0
    PROVE  Spec => [](faults["redis"] = 0 => CommittedIsCounted)
<1>1. Init => ErrorsAreOutages
  BY DEF Init, ErrorsAreOutages
<1>2. IndInv /\ ErrorsAreOutages /\ [Next]_vars => ErrorsAreOutages'
  <2>1. CASE UNCHANGED vars
    BY <2>1 DEF ErrorsAreOutages, vars, logVars
  <2>2. CASE Next
    BY <2>2, ErrorsAreOutagesStep DEF IndInv
  <2> QED
    BY <2>1, <2>2
<1>3. IndInv /\ ErrorsAreOutages => (faults["redis"] = 0 => CommittedIsCounted)
  BY DEF IndInv, ErrorsAreOutages, RedisSettled, SettledInRedis, CommittedIsCounted
<1> QED
  BY <1>1, <1>2, <1>3, InductiveInvariant, PTL DEF Spec

\* The first process reads the topic from its beginning.
ReadsFromTheBeginning ==
    (faults["stop"] = 0) =>
        \A p \in Partitions : resumed[p] = 0 /\ (pc = "down" => committed[p] = 0)

LEMMA ReadsFromTheBeginningStep ==
    ASSUME TypeOK, ReadsFromTheBeginning, Next
    PROVE  ReadsFromTheBeginning'
<1> SUFFICES ASSUME faults'["stop"] = 0, NEW p \in Partitions
             PROVE  resumed'[p] = 0 /\ (pc' = "down" => committed'[p] = 0)
  BY DEF ReadsFromTheBeginning
<1>1. faults["stop"] = 0 /\ ~Stop
  <2>1. "stop" \in FaultKinds
    BY DEF FaultKinds
  <2> QED
    BY <2>1, NoFaultSoFar DEF Stop
<1>2. resumed[p] = 0 /\ (pc = "down" => committed[p] = 0)
  BY <1>1 DEF ReadsFromTheBeginning
<1>3. CASE UNCHANGED <<readerVars, committed>>
  BY <1>2, <1>3 DEF readerVars
<1>4. CASE Start \/ StartWithoutHistory
  BY <1>2, <1>4 DEF Start, StartWithoutHistory, StartProcess, kafkaVars
<1>5. CASE Rebalance
  BY <1>2, <1>5 DEF Rebalance, kafkaVars
<1>6. CASE Reader \/ ProcessMessageFaulty
  <2>1. resumed' = resumed /\ pc' # "down"
    BY <1>6, ProcessStep DEF Reader, FetchMessage, RejectMessage, Enqueue,
       CommitMessages, AfterProcessEvent, AfterRedisError
  <2> QED
    BY <1>2, <2>1
<1> QED
  BY <1>1, <1>3, <1>4, <1>5, <1>6, ReaderStep

\* docs/benchmarking.md:101: until a process stops, all that the group has
\* committed reaches history or is named in a log, through rebalances and
\* failures of either store.
THEOREM OnlyStopsLoseHistory == Spec => [](faults["stop"] = 0 => RestartPreservesHistory)
<1>1. Init => ReadsFromTheBeginning
  BY DEF Init, ReadsFromTheBeginning
<1>2. IndInv /\ ReadsFromTheBeginning /\ [Next]_vars => ReadsFromTheBeginning'
  <2>1. CASE UNCHANGED vars
    BY <2>1 DEF ReadsFromTheBeginning, vars, readerVars, kafkaVars
  <2>2. CASE Next
    BY <2>2, ReadsFromTheBeginningStep DEF IndInv
  <2> QED
    BY <2>1, <2>2
<1>3. ASSUME IndInv, ReadsFromTheBeginning, faults["stop"] = 0
      PROVE  RestartPreservesHistory
  <2>1. CommittedReachesHistory
    BY <1>3 DEF IndInv, HistorySettled, CommittedReachesHistory
  <2>2. \A p \in Partitions : resumed[p] = 0
    BY <1>3 DEF ReadsFromTheBeginning
  <2>3. 0 + 1 = 1
    OBVIOUS
  <2> QED
    BY <2>1, <2>2, <2>3 DEF CommittedReachesHistory, RestartPreservesHistory
<1> QED
  BY <1>1, <1>2, <1>3, InductiveInvariant, PTL DEF Spec

-----------------------------------------------------------------------------
(* The write counters.                                                     *)

\* Only a call of PersistEvent moves a counter of writes or adds a row, and
\* only the end of the process resets the counters.
LEMMA WriteCountersStep ==
    ASSUME Next
    PROVE  \/ Stop
           \/ /\ metadata' = metadata
              /\ metrics \in [Counters -> Nat] =>
                     /\ metrics'["postgresWrites"] = metrics["postgresWrites"]
                     /\ metrics'["postgresWriteFailures"] =
                            metrics["postgresWriteFailures"]
           \/ \E w \in Workers : PersistRecord(w) \/ PersistRecordFaulty(w)
<1>1. {"consumed", "processed", "duplicates", "processingFailures", "redisFailures",
       "persistenceDropped", "postgresWrites", "postgresWriteFailures"}
          \subseteq Counters
  BY DEF Counters
<1>2. ASSUME metrics \in [Counters -> Nat],
             NEW c \in Counters \ {"postgresWrites", "postgresWriteFailures"},
             metrics' = [metrics EXCEPT ![c] = @ + 1]
      PROVE  /\ metrics'["postgresWrites"] = metrics["postgresWrites"]
             /\ metrics'["postgresWriteFailures"] = metrics["postgresWriteFailures"]
  BY <1>2
<1>3. \/ Stop
      \/ \E w \in Workers : PersistRecord(w) \/ PersistRecordFaulty(w)
      \/ /\ metadata' = metadata
         /\ \/ metrics' = metrics
            \/ \E c \in Counters \ {"postgresWrites", "postgresWriteFailures"} :
                  metrics' = [metrics EXCEPT ![c] = @ + 1]
  <2>1. /\ "consumed" \in Counters \ {"postgresWrites", "postgresWriteFailures"}
        /\ "processed" \in Counters \ {"postgresWrites", "postgresWriteFailures"}
        /\ "duplicates" \in Counters \ {"postgresWrites", "postgresWriteFailures"}
        /\ "redisFailures" \in Counters \ {"postgresWrites", "postgresWriteFailures"}
        /\ "processingFailures" \in
               Counters \ {"postgresWrites", "postgresWriteFailures"}
        /\ "persistenceDropped" \in
               Counters \ {"postgresWrites", "postgresWriteFailures"}
    BY <1>1
  <2>2. CASE Reader \/ ProcessMessageFaulty
    BY <2>1, <2>2 DEF Reader, FetchMessage, RejectMessage, ProcessMessage, Enqueue,
       enqueuePersistence, CommitMessages, ProcessMessageFaulty, AfterProcessEvent,
       AfterRedisError, Count, postgresVars
  <2>3. CASE ~(Reader \/ ProcessMessageFaulty)
    BY <2>3 DEF Next, Publish, PublishPoison, Start, StartWithoutHistory,
       StartProcess, Rebalance, Worker, TakeRecord, Expire, postgresVars
  <2> QED
    BY <2>2, <2>3
<1> QED
  BY <1>2, <1>3

\* A row is counted in the step that adds it: as a write when PostgreSQL has
\* answered, as a failure when the answer is lost.
LEMMA WriteCountersHold ==
    ASSUME TypeOK, WriteCountersBoundRows, Next
    PROVE  WriteCountersBoundRows'
<1> DEFINE writes == metrics["postgresWrites"]
           failures == metrics["postgresWriteFailures"]
<1> SUFFICES ASSUME faults'["stop"] = 0
             PROVE  /\ writes' <= Cardinality(metadata')
                    /\ Cardinality(metadata') <= writes' + failures'
  BY DEF WriteCountersBoundRows
<1>1. /\ metrics \in [Counters -> Nat] /\ writes \in Nat /\ failures \in Nat
      /\ "postgresWrites" \in Counters /\ "postgresWriteFailures" \in Counters
      /\ "snapshotWrites" \in Counters
  BY DEF TypeOK, ServiceTypeOK, Counters
<1>2. IsFiniteSet(metadata) /\ Cardinality(metadata) \in Nat
  BY EventsAssumption, FS_Subset, FS_CardinalityType
     DEF EventsAssumption, TypeOK, PostgresTypeOK
<1>3. ~Stop /\ writes <= Cardinality(metadata)
      /\ Cardinality(metadata) <= writes + failures
  <2>1. "stop" \in FaultKinds
    BY DEF FaultKinds
  <2> QED
    BY <2>1, NoFaultSoFar DEF Stop, WriteCountersBoundRows
<1>4. CASE metadata' = metadata /\ writes' = writes /\ failures' = failures
  BY <1>3, <1>4
<1>5. ASSUME NEW w \in Workers, PersistRecord(w) \/ PersistRecordFaulty(w)
      PROVE  /\ writes' <= Cardinality(metadata')
             /\ Cardinality(metadata') <= writes' + failures'
  <2>1. PICK e \in Events : e = holding[w]
    BY <1>5, PersistCall DEF TypeOK
  <2>2. PICK outcome \in {"persisted", "known", "error"} :
           /\ PersistEvent(e, outcome) \/ PersistEventFaulty(e, outcome)
           /\ AfterPersistEvent(w, outcome)
    BY <1>5, <2>1, PersistCall DEF TypeOK
  <2>3. \/ metadata' = metadata /\ outcome # "persisted"
        \/ /\ e \notin metadata /\ metadata' = metadata \union {e}
           /\ outcome # "known"
    BY <2>2 DEF PersistEvent, PersistEventFaulty, PersistTransaction, postgresVars
  <2>4. \/ /\ Cardinality(metadata') = Cardinality(metadata)
           /\ outcome # "persisted"
        \/ /\ Cardinality(metadata') = Cardinality(metadata) + 1
           /\ outcome # "known"
    BY <1>2, <2>3, FS_AddElement
  <2>5. /\ outcome = "persisted" => writes' = writes + 1 /\ failures' = failures
        /\ outcome = "known" => writes' = writes /\ failures' = failures
        /\ outcome = "error" => writes' = writes /\ failures' = failures + 1
    BY <1>1, <2>2 DEF AfterPersistEvent, Count
  <2> QED
    BY <1>1, <1>2, <1>3, <2>4, <2>5
<1> QED
  BY <1>1, <1>3, <1>4, <1>5, WriteCountersStep

\* RecordPostgresWrite and RecordPostgresWriteFailure between them count every
\* row, and count as written no row that is not there.
THEOREM WriteCountersAreBounds == Spec => []WriteCountersBoundRows
<1>1. Init => WriteCountersBoundRows
  BY FS_EmptySet DEF Init, PostgresInit, WriteCountersBoundRows, ZeroMetrics, Counters
<1>2. IndInv /\ WriteCountersBoundRows /\ [Next]_vars => WriteCountersBoundRows'
  <2>1. ASSUME IndInv, WriteCountersBoundRows, Next
        PROVE  WriteCountersBoundRows'
    BY <2>1, WriteCountersHold DEF IndInv
  <2>2. ASSUME WriteCountersBoundRows, UNCHANGED vars
        PROVE  WriteCountersBoundRows'
    BY <2>2 DEF WriteCountersBoundRows, vars, postgresVars
  <2> QED
    BY <2>1, <2>2
<1> QED
  BY <1>1, <1>2, InductiveInvariant, PTL DEF Spec

-----------------------------------------------------------------------------
(* The refinement.                                                         *)

LEMMA PromiseInit == Init => Promise!Init
BY DEF Init, RedisInit, PostgresInit, Promise!Init, Published, EmptyTable, NoRow

\* Every step publishes, counts or records one event, or changes nothing that
\* Analytics shows.
LEMMA PromiseStep ==
    ASSUME MaxExpiries = 0, TTLSeconds(IdempotencyTTL) > 0,
           IndInv, IndInv', [Next]_vars
    PROVE  [Promise!Next]_(Promise!vars)
<1> USE DEF Promise!vars
<1>1. faults["expiry"] = 0 /\ (Next => ~Expire)
  <2>1. faults'["expiry"] = 0 /\ faults["expiry"] = 0
    BY DEF IndInv, ExpiryBounded, TypeOK, ServiceTypeOK, FaultKinds
  <2> QED
    BY <2>1, NoExpirySoFar DEF IndInv
<1>2. log' = log => Published' = Published
  BY DEF Published
<1>3. CASE UNCHANGED <<log, redisVars, postgresVars>>
  BY <1>2, <1>3 DEF redisVars, postgresVars
<1>4. ASSUME NEW e \in Events, Publish(e)
      PROVE  Promise!Next
  <2>1. /\ log' = [log EXCEPT ![PartitionOf[e]] = Append(@, e)]
        /\ UNCHANGED <<redisVars, postgresVars>>
    BY <1>4 DEF Publish
  <2>2. log \in [Partitions -> Seq(Messages)] /\ PartitionOf[e] \in Partitions
        /\ e \in Messages
    BY ConsumerAssumption DEF ConsumerAssumption, IndInv, TypeOK, ServiceTypeOK, Messages
  <2>3. \A p \in Partitions : /\ p # PartitionOf[e] => log'[p] = log[p]
                              /\ Len(log[p]) \in Nat
    BY <2>1, <2>2
  <2>4. /\ Len(log'[PartitionOf[e]]) = Len(log[PartitionOf[e]]) + 1
        /\ log'[PartitionOf[e]][Len(log[PartitionOf[e]]) + 1] = e
        /\ \A i \in 1..Len(log[PartitionOf[e]]) :
               log'[PartitionOf[e]][i] = log[PartitionOf[e]][i]
    BY <2>1, <2>2
  <2>5. Published' = Published \union {e}
    <3>1. e \in Published'
      BY <2>2, <2>3, <2>4 DEF Published
    <3>2. Published \subseteq Published'
      BY <2>2, <2>3, <2>4 DEF Published
    <3>3. ASSUME NEW x \in Published' PROVE x \in Published \union {e}
      <4>0. PICK p \in Partitions : \E i \in 1..Len(log'[p]) : log'[p][i] = x
        BY DEF Published
      <4>1. PICK i \in 1..Len(log'[p]) : log'[p][i] = x
        BY <4>0
      <4>2. CASE p = PartitionOf[e] /\ i = Len(log[PartitionOf[e]]) + 1
        BY <2>4, <4>1, <4>2
      <4>3. CASE ~(p = PartitionOf[e] /\ i = Len(log[PartitionOf[e]]) + 1)
        <5>1. i \in 1..Len(log[p]) /\ log[p][i] = x
          BY <2>2, <2>3, <2>4, <4>1, <4>3
        <5> QED
          BY <5>1, <3>3 DEF Published
      <4> QED
        BY <4>2, <4>3
    <3> QED
      BY <3>1, <3>2, <3>3
  <2>6. Promise!PublishEvent(e)
    BY <2>1, <2>5 DEF Promise!PublishEvent, redisVars, postgresVars
  <2> QED
    BY <2>6 DEF Promise!Next
<1>5. ASSUME NEW p \in Partitions, PublishPoison(p)
      PROVE  UNCHANGED Promise!vars
  <2>1. /\ log' = [log EXCEPT ![p] = Append(@, Poison)]
        /\ UNCHANGED <<redisVars, postgresVars>>
    BY <1>5 DEF PublishPoison
  <2>2. /\ log \in [Partitions -> Seq(Messages)] /\ Poison \in Messages
        /\ Poison \notin Events
    BY ConsumerAssumption DEF ConsumerAssumption, IndInv, TypeOK, ServiceTypeOK, Messages
  <2>3. /\ \A q \in Partitions : q # p => log'[q] = log[q]
        /\ Len(log'[p]) = Len(log[p]) + 1 /\ Len(log[p]) \in Nat
        /\ log'[p][Len(log[p]) + 1] = Poison
        /\ \A i \in 1..Len(log[p]) : log'[p][i] = log[p][i]
    BY <2>1, <2>2
  <2>4. Published \subseteq Published'
    BY <2>2, <2>3 DEF Published
  <2>5. ASSUME NEW x \in Published' PROVE x \in Published
    <3>1. x \in Events
      BY DEF Published
    <3>2. PICK q \in Partitions : \E i \in 1..Len(log'[q]) : log'[q][i] = x
      BY DEF Published
    <3>3. PICK i \in 1..Len(log'[q]) : log'[q][i] = x
      BY <3>2
    <3>4. i \in 1..Len(log[q]) /\ log[q][i] = x
      BY <2>2, <2>3, <3>1, <3>3
    <3> QED
      BY <3>1, <3>4 DEF Published
  <2> QED
    BY <2>1, <2>4, <2>5 DEF redisVars, postgresVars
<1>6. ASSUME ProcessMessage \/ ProcessMessageFaulty \/ RejectMessage
      PROVE  Promise!Next \/ UNCHANGED Promise!vars
  <2>1. log' = log /\ UNCHANGED postgresVars
    BY <1>6, ProcessStep DEF RejectMessage, kafkaVars
  <2>2. CASE UNCHANGED redisVars
    BY <1>2, <2>1, <2>2 DEF redisVars, postgresVars
  <2>3. CASE ~UNCHANGED redisVars
    <3>1. PICK e \in Events : /\ e = CurrentMessage /\ pc = "process"
                              /\ \E status : \/ ProcessEvent(e, status)
                                             \/ ProcessEventFaulty(e, status)
      BY <1>6, <2>3, ProcessStep
         DEF RejectMessage, ProcessMessage, ProcessMessageFaulty
    <3>2. Weighted(e) /\ Complete(e) /\ e \notin marked /\ Aggregate(e)
      BY <2>3, <3>1 DEF ProcessEvent, ProcessEventFaulty, aggregateEventScript
    <3>3. e \in Published
      BY <3>1, CurrentIsPublished DEF IndInv, Busy
    <3>4. /\ marked' = marked \union {e}
          /\ trending' = [trending EXCEPT ![RepoOf[e]] = @ + EventScore(e)]
      BY <3>2 DEF Aggregate, ZINCRBY
    <3>5. Promise!CountEvent(e)
      BY <1>2, <2>1, <3>2, <3>3, <3>4 DEF Promise!CountEvent, Promise!Weighted,
         Promise!Complete, Promise!EventScore, Promise!scoreForEvent, Weighted,
         Complete, EventScore, scoreForEvent, postgresVars
    <3> QED
      BY <3>5 DEF Promise!Next
  <2> QED
    BY <2>2, <2>3
<1>7. ASSUME NEW w \in Workers, PersistRecord(w) \/ PersistRecordFaulty(w)
      PROVE  Promise!Next \/ UNCHANGED Promise!vars
  <2>1. log' = log /\ UNCHANGED redisVars
    BY <1>7 DEF PersistRecord, PersistRecordFaulty, kafkaVars
  <2>2. CASE UNCHANGED postgresVars
    BY <1>2, <2>1, <2>2 DEF redisVars, postgresVars
  <2>3. CASE ~UNCHANGED postgresVars
    <3>1. PICK e \in Events : /\ e = holding[w]
                              /\ \E outcome : \/ PersistEvent(e, outcome)
                                              \/ PersistEventFaulty(e, outcome)
      BY <1>7, PersistCall DEF IndInv, TypeOK
    <3>2. Complete(e) /\ e \notin metadata /\ PersistTransaction(e)
      BY <2>3, <3>1 DEF PersistEvent, PersistEventFaulty, PersistTransaction
    <3>3. InPipeline(e)
      BY <3>1 DEF InPipeline, InHand
    <3>4. e \in Published /\ (Weighted(e) => e \in marked)
      BY <1>1, <3>3 DEF IndInv, FromTopic, RankingFirst
    <3>5. /\ metadata' = metadata \union {e}
          /\ snapshots' = IF Weighted(e)
               THEN [snapshots EXCEPT ![RepoOf[e]][HourOf[e]] =
                       [score |-> @.score + EventScore(e), count |-> @.count + 1]]
               ELSE snapshots
      BY <3>2 DEF PersistTransaction, upsertRepoSnapshot, Upsert
    <3>6. Promise!RecordEvent(e)
      BY <1>2, <2>1, <3>2, <3>4, <3>5 DEF Promise!RecordEvent, Promise!Weighted,
         Promise!Complete, Promise!EventScore, Promise!scoreForEvent, Weighted,
         Complete, EventScore, scoreForEvent, redisVars
    <3> QED
      BY <3>6 DEF Promise!Next
  <2> QED
    BY <2>2, <2>3
<1>8. CASE UNCHANGED vars
  BY <1>3, <1>8 DEF vars, kafkaVars
<1>9. CASE Next
  BY <1>1, <1>3, <1>4, <1>5, <1>6, <1>7, <1>9 DEF Next, Start, StartWithoutHistory,
     StartProcess, Stop, Rebalance, Reader, FetchMessage, Enqueue, CommitMessages,
     Worker, TakeRecord, kafkaVars
<1> QED
  BY <1>8, <1>9

\* While no marker expires the consumer implements Analytics: readers see every
\* event counted at most once and recorded at most once, after it was counted.
THEOREM Refinement ==
    ASSUME MaxExpiries = 0, TTLSeconds(IdempotencyTTL) > 0
    PROVE  Spec => ImplementsAnalytics
<1>1. IndInv /\ IndInv' /\ [Next]_vars => [Promise!Next]_(Promise!vars)
  BY PromiseStep
<1> QED
  BY <1>1, PromiseInit, InductiveInvariant, PTL
     DEF Spec, ImplementsAnalytics, Promise!Spec
=============================================================================
