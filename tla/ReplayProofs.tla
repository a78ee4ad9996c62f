---------------------------- MODULE ReplayProofs ----------------------------
(***************************************************************************)
(* Theorems about the consumer and the replay side by side, for any set of *)
(* events, partitions and workers and any bound. A step of the consumer    *)
(* keeps IndInv by IndInvStep; the work is to show that a step of the      *)
(* replay keeps it too, what the replay itself keeps and how it stays      *)
(* bounded.                                                                *)
(***************************************************************************)
EXTENDS ReplayProperties, ConsumerProofs

ReplayBusy == replayPc \in {"process", "persist", "commit"}

\* What the replay itself keeps.
ReplayVarsOK ==
    /\ replayCommitted \in [Partitions -> Nat]
    /\ replayPosition \in [Partitions -> Nat]
    /\ replayResumed \in [Partitions -> Nat]
    /\ rebalanced \in Nat
    /\ replayPc \in {"down", "fetch", "process", "persist", "commit"}
    /\ replayCurrent \in Positions \union {NoMessage}
    /\ processed \in Nat
    /\ replayErrors \in SUBSET Positions
    /\ replays \in Nat

\* The message at hand exists, it is an event once ProcessEvent has had it,
\* and the offsets point into the topic.
ReplayCursorsOK ==
    /\ \A p \in Partitions : /\ replayPosition[p] \in 0..Len(log[p])
                             /\ replayCommitted[p] \in 0..Len(log[p])
    /\ ReplayBusy => /\ replayCurrent \in Positions
                     /\ replayCurrent.off \in 1..Len(log[replayCurrent.part])
    /\ replayPc \in {"persist", "commit"} => ReplayedMessage \in Events

-----------------------------------------------------------------------------
(* What a step of the replay does to the shared state.                     *)

\* The topic is only read, and no key expires.
LEMMA ReplayStepShared ==
    ASSUME TypeOK, ReplayStep
    PROVE  /\ log' = log
           /\ faults' \in [FaultKinds -> Nat]
           /\ faults'["expiry"] = faults["expiry"]
<1>1. faults \in [FaultKinds -> Nat]
  BY DEF TypeOK, ServiceTypeOK
<1>2. /\ {"stop", "rebalance", "redis", "postgres"} \subseteq FaultKinds
      /\ "expiry" \in FaultKinds
  BY DEF FaultKinds
<1>3. ASSUME NEW kind \in {"stop", "rebalance", "redis", "postgres"}, Fault(kind)
      PROVE  /\ faults' \in [FaultKinds -> Nat]
             /\ faults'["expiry"] = faults["expiry"]
  BY <1>1, <1>2, <1>3 DEF Fault
<1>4. log' = log
  BY DEF ReplayStep, StartReplay, FinishReplay, StopReplay, RebalanceReplay,
     FetchReplayed, SkipUndecoded, RebuildRedis, RebuildRedisFaulty,
     RebuildPostgres, RebuildPostgresFaulty, CommitReplayed
<1>5. \/ faults' = faults
      \/ \E kind \in {"stop", "rebalance", "redis", "postgres"} : Fault(kind)
  BY DEF ReplayStep, StartReplay, FinishReplay, StopReplay, RebalanceReplay,
     FetchReplayed, SkipUndecoded, RebuildRedis, RebuildRedisFaulty,
     RebuildPostgres, RebuildPostgresFaulty, CommitReplayed
<1> QED
  BY <1>1, <1>3, <1>4, <1>5

\* Redis is left alone, or called for the message at hand.
LEMMA ReplayRedisStep ==
    ASSUME ReplayStep
    PROVE  \/ UNCHANGED redisVars
           \/ /\ replayPc = "process" /\ ReplayedMessage \in Events
              /\ UNCHANGED postgresVars
              /\ \E status : \/ ProcessEvent(ReplayedMessage, status)
                             \/ ProcessEventFaulty(ReplayedMessage, status)
BY DEF ReplayStep, StartReplay, FinishReplay, StopReplay, RebalanceReplay,
   FetchReplayed, SkipUndecoded, RebuildRedis, RebuildRedisFaulty,
   RebuildPostgres, RebuildPostgresFaulty, CommitReplayed

\* PostgreSQL is left alone, or called for the message at hand.
LEMMA ReplayPostgresStep ==
    ASSUME ReplayStep
    PROVE  \/ UNCHANGED postgresVars
           \/ /\ replayPc = "persist" /\ UNCHANGED redisVars
              /\ \E outcome : \/ PersistEvent(ReplayedMessage, outcome)
                              \/ PersistEventFaulty(ReplayedMessage, outcome)
BY DEF ReplayStep, StartReplay, FinishReplay, StopReplay, RebalanceReplay,
   FetchReplayed, SkipUndecoded, RebuildRedis, RebuildRedisFaulty,
   RebuildPostgres, RebuildPostgresFaulty, CommitReplayed

LEMMA ReplayedIsPublished ==
    ASSUME ReplayCursorsOK, ReplayBusy, ReplayedMessage \in Events
    PROVE  ReplayedMessage \in Published
BY DEF ReplayCursorsOK, Positions, ReplayedMessage, Published

-----------------------------------------------------------------------------
(* The variables of the replay.                                            *)

LEMMA ReplayVarsStep ==
    ASSUME ReplayVarsOK, ReplayCursorsOK, ReplayStep
    PROVE  ReplayVarsOK'
<1>1. ReplayBusy => /\ replayCurrent \in Positions
                    /\ replayCurrent.part \in Partitions /\ replayCurrent.off \in Nat
  BY DEF ReplayCursorsOK, Positions
<1>2. CASE StartReplay
  BY <1>2 DEF StartReplay, ReplayVarsOK
<1>3. CASE FinishReplay \/ StopReplay \/ RebalanceReplay
  BY <1>3 DEF FinishReplay, StopReplay, RebalanceReplay, ReplayVarsOK
<1>4. ASSUME NEW p \in Partitions, FetchReplayed(p)
      PROVE  ReplayVarsOK'
  <2>1. /\ replayPosition' = [replayPosition EXCEPT ![p] = @ + 1]
        /\ replayCurrent' = [part |-> p, off |-> replayPosition[p] + 1]
    BY <1>4 DEF FetchReplayed
  <2>2. replayPosition' \in [Partitions -> Nat] /\ replayCurrent' \in Positions
    BY <2>1 DEF ReplayVarsOK, Positions
  <2> QED
    BY <1>4, <2>2 DEF FetchReplayed, ReplayVarsOK
<1>5. CASE SkipUndecoded
  <2>1. /\ replayCommitted' \in [Partitions -> Nat]
        /\ replayErrors' \in SUBSET Positions
    BY <1>1, <1>5 DEF SkipUndecoded, ReplayVarsOK, ReplayBusy
  <2> QED
    BY <1>5, <2>1 DEF SkipUndecoded, NextMessage, ReplayVarsOK
<1>6. CASE RebuildRedis \/ RebuildRedisFaulty
  <2>1. replayCurrent \in Positions
    BY <1>1, <1>6 DEF RebuildRedis, RebuildRedisFaulty, ReplayBusy
  <2> QED
    BY <1>6, <2>1 DEF RebuildRedis, RebuildRedisFaulty, AfterStoreError, NextMessage,
       ReplayVarsOK
<1>7. CASE RebuildPostgres \/ RebuildPostgresFaulty
  <2>1. replayCurrent \in Positions
    BY <1>1, <1>7 DEF RebuildPostgres, RebuildPostgresFaulty, ReplayBusy
  <2> QED
    BY <1>7, <2>1 DEF RebuildPostgres, RebuildPostgresFaulty, AfterStoreError,
       NextMessage, ReplayVarsOK
<1>8. CASE CommitReplayed
  <2>1. replayCommitted' \in [Partitions -> Nat]
    BY <1>1, <1>8 DEF CommitReplayed, ReplayVarsOK, ReplayBusy
  <2> QED
    BY <1>8, <2>1 DEF CommitReplayed, NextMessage, ReplayVarsOK
<1> QED
  BY <1>2, <1>3, <1>4, <1>5, <1>6, <1>7, <1>8 DEF ReplayStep

\* The consumer only lets the topic grow.
LEMMA ReplayCursorsStay ==
    ASSUME TypeOK, ReplayVarsOK, ReplayCursorsOK, Next, UNCHANGED replayVars
    PROVE  ReplayCursorsOK'
<1>1. /\ \A p \in Partitions : /\ Len(log[p]) \in Nat /\ Len(log'[p]) \in Nat
                               /\ Len(log[p]) <= Len(log'[p])
                               /\ \A i \in 1..Len(log[p]) : log'[p][i] = log[p][i]
  BY LogGrows DEF TypeOK
<1>2. ReplayBusy => /\ replayCurrent.part \in Partitions /\ replayCurrent.off \in Nat
                    /\ ReplayedMessage' = ReplayedMessage
  BY <1>1 DEF ReplayCursorsOK, Positions, ReplayedMessage, replayVars
<1> QED
  BY <1>1, <1>2 DEF ReplayCursorsOK, ReplayVarsOK, ReplayBusy, replayVars

LEMMA ReplayCursorsStep ==
    ASSUME TypeOK, ReplayVarsOK, ReplayCursorsOK, ReplayStep
    PROVE  ReplayCursorsOK'
<1>1. log' = log /\ \A p \in Partitions : Len(log[p]) \in Nat
  BY ReplayStepShared DEF TypeOK, ServiceTypeOK
<1>2. ReplayBusy => /\ replayCurrent.part \in Partitions /\ replayCurrent.off \in Nat
  BY DEF ReplayCursorsOK, Positions
<1>3. CASE StartReplay
  BY <1>1, <1>3 DEF StartReplay, ReplayCursorsOK, ReplayBusy
<1>4. CASE FinishReplay \/ StopReplay
  BY <1>1, <1>4 DEF FinishReplay, StopReplay, ReplayCursorsOK, ReplayBusy
<1>5. CASE RebalanceReplay
  BY <1>1, <1>5 DEF RebalanceReplay, ReplayCursorsOK, ReplayBusy, ReplayedMessage
<1>6. ASSUME NEW p \in Partitions, FetchReplayed(p)
      PROVE  ReplayCursorsOK'
  BY <1>1, <1>6 DEF FetchReplayed, ReplayCursorsOK, ReplayVarsOK, ReplayBusy, Positions
<1>7. CASE SkipUndecoded
  <2>1. /\ replayPosition' = replayPosition /\ replayPc = "process"
        /\ replayPc' = "fetch"
        /\ \/ replayCommitted' = replayCommitted
           \/ replayCommitted' =
                [replayCommitted EXCEPT ![replayCurrent.part] = replayCurrent.off]
    BY <1>7 DEF SkipUndecoded, NextMessage
  <2>2. \A p \in Partitions : replayCommitted'[p] \in 0..Len(log[p])
    <3>1. replayCurrent.off \in 0..Len(log[replayCurrent.part])
      BY <1>1, <1>2, <2>1 DEF ReplayCursorsOK, ReplayBusy
    <3>2. \A p \in Partitions :
              \/ replayCommitted'[p] = replayCommitted[p]
              \/ p = replayCurrent.part /\ replayCommitted'[p] = replayCurrent.off
      BY <2>1 DEF ReplayVarsOK
    <3> QED
      BY <3>1, <3>2 DEF ReplayCursorsOK
  <2> QED
    BY <1>1, <2>1, <2>2 DEF ReplayCursorsOK, ReplayBusy
<1>8. CASE RebuildRedis \/ RebuildRedisFaulty
  <2>1. /\ UNCHANGED <<replayCommitted, replayPosition>>
        /\ replayPc = "process" /\ ReplayedMessage \in Events
        /\ \/ replayPc' = "fetch"
           \/ replayPc' = "persist" /\ replayCurrent' = replayCurrent
    BY <1>8 DEF RebuildRedis, RebuildRedisFaulty, AfterStoreError, NextMessage
  <2> QED
    BY <1>1, <2>1 DEF ReplayCursorsOK, ReplayBusy, ReplayedMessage
<1>9. CASE RebuildPostgres \/ RebuildPostgresFaulty
  <2>1. /\ UNCHANGED <<replayCommitted, replayPosition>>
        /\ replayPc = "persist"
        /\ \/ replayPc' = "fetch"
           \/ replayPc' = "commit" /\ replayCurrent' = replayCurrent
    BY <1>9 DEF RebuildPostgres, RebuildPostgresFaulty, AfterStoreError, NextMessage
  <2> QED
    BY <1>1, <2>1 DEF ReplayCursorsOK, ReplayBusy, ReplayedMessage
<1>10. CASE CommitReplayed
  BY <1>1, <1>2, <1>10
     DEF CommitReplayed, NextMessage, ReplayCursorsOK, ReplayVarsOK, ReplayBusy
<1> QED
  BY <1>3, <1>4, <1>5, <1>6, <1>7, <1>8, <1>9, <1>10 DEF ReplayStep

-----------------------------------------------------------------------------
(* What the replay has committed.                                          *)

ReplayWorking(p, i) == replayCurrent = [part |-> p, off |-> i]

\* The marker of the event is there, as far as Rebuilt asks for it.
HasMarker(m) ==
    faults["expiry"] = 0 /\ TTLSeconds(IdempotencyTTL) > 0 /\ Weighted(m)
        => m \in marked

\* The message is in both stores or named in the log of a replay.
SettledByReplay(p, i) ==
    [part |-> p, off |-> i] \in replayErrors \/ Rebuilt(log[p][i])

\* ReplayedIsRebuilt, for all messages the reader has returned but the one at
\* hand, and for all before the one at hand, which a rebalance may have put
\* past the cursor.
ReplaySettled ==
    /\ \A p \in Partitions : \A i \in 1..replayCommitted[p] : SettledByReplay(p, i)
    /\ replayPc # "down" =>
          \A p \in Partitions : \A i \in 1..replayPosition[p] :
              SettledByReplay(p, i) \/ (ReplayBusy /\ ReplayWorking(p, i))
    /\ ReplayBusy => \A i \in 1..(replayCurrent.off - 1) :
                         SettledByReplay(replayCurrent.part, i)
    /\ replayPc = "persist" => HasMarker(ReplayedMessage)
    /\ replayPc = "commit" => SettledByReplay(replayCurrent.part, replayCurrent.off)

RInv ==
    /\ IndInv
    /\ ReplayVarsOK
    /\ ReplayCursorsOK
    /\ ReplaySettled

\* The replay adds at most the message at hand to what the stores know.
LEMMA ReplayPostgresGrows ==
    ASSUME ReplayCursorsOK, ReplayStep
    PROVE  /\ metadata \subseteq metadata'
           /\ \A e \in metadata' : e \in metadata \/ (replayPc = "persist" /\ e = ReplayedMessage)
<1>1. replayPc = "persist" => ReplayedMessage \in Events
  BY DEF ReplayCursorsOK
<1> QED
  BY <1>1, ReplayPostgresStep, PersistEventRows DEF postgresVars

LEMMA ReplayRedisGrows ==
    ASSUME ReplayStep
    PROVE  /\ marked \subseteq marked'
           /\ \A e \in marked' : \/ e \in marked
                                 \/ /\ replayPc = "process" /\ e = ReplayedMessage
                                    /\ ReplayedMessage \in Events
BY ReplayRedisStep, ProcessEventMarks DEF redisVars

\* No step takes a row from metadata or a failure from the log, and none but an
\* expiry a marker.
LEMMA StoresGrow ==
    ASSUME RInv, ReplayNext
    PROVE  /\ metadata \subseteq metadata'
           /\ replayErrors \subseteq replayErrors'
           /\ faults'["expiry"] = 0 =>
                  faults["expiry"] = 0 /\ marked \subseteq marked'
           /\ \A p \in Partitions :
                 /\ Len(log[p]) \in Nat /\ Len(log[p]) <= Len(log'[p])
                 /\ \A i \in 1..Len(log[p]) : log'[p][i] = log[p][i]
<1>1. CASE Next /\ UNCHANGED replayVars
  <2>1. metadata \subseteq metadata'
    <3>1. ASSUME NEW w \in Workers, PersistRecord(w) \/ PersistRecordFaulty(w)
          PROVE  metadata \subseteq metadata'
      BY <3>1, PersistCall, PersistEventRows DEF RInv, IndInv, TypeOK
    <3> QED
      BY <1>1, <3>1, PostgresStep DEF postgresVars
  <2>2. faults'["expiry"] = 0 => faults["expiry"] = 0 /\ marked \subseteq marked'
    BY <1>1, NoExpirySoFar, RedisStep, ProcessEventMarks DEF redisVars, RInv, IndInv
  <2> QED
    BY <1>1, <2>1, <2>2, LogGrows DEF replayVars, RInv, IndInv, TypeOK
<1>2. CASE ReplayStep /\ UNCHANGED consumerVars
  <2>1. metadata \subseteq metadata'
    BY <1>2, ReplayPostgresGrows DEF RInv
  <2>2. marked \subseteq marked'
    BY <1>2, ReplayRedisStep, ProcessEventMarks DEF redisVars
  <2>3. replayErrors \subseteq replayErrors'
    BY <1>2 DEF ReplayStep, StartReplay, FinishReplay, StopReplay, RebalanceReplay,
       FetchReplayed, SkipUndecoded, RebuildRedis, RebuildRedisFaulty,
       RebuildPostgres, RebuildPostgresFaulty, CommitReplayed, AfterStoreError
  <2>4. /\ log' = log /\ faults'["expiry"] = faults["expiry"]
        /\ \A p \in Partitions : Len(log[p]) \in Nat
    BY <1>2, ReplayStepShared DEF RInv, IndInv, TypeOK, ServiceTypeOK
  <2> QED
    BY <2>1, <2>2, <2>3, <2>4
<1> QED
  BY <1>1, <1>2 DEF ReplayNext

-----------------------------------------------------------------------------
(* The consumer's invariant under a step of the replay.                    *)

LEMMA ReplayStepStores ==
    ASSUME RInv, ReplayStep
    PROVE  /\ RedisTypeOK' /\ PostgresTypeOK'
           /\ SnapshotsMatchMetadata' /\ TrendingCountsEachEventOnce'
           /\ RecentSettled'
<1>1. /\ RedisTypeOK /\ PostgresTypeOK
      /\ SnapshotsMatchMetadata /\ TrendingCountsEachEventOnce /\ RecentSettled
      /\ faults'["expiry"] = faults["expiry"]
      /\ replayPc = "persist" => ReplayedMessage \in Events
  BY ReplayStepShared DEF RInv, IndInv, TypeOK, ReplayCursorsOK
<1>2. CASE UNCHANGED redisVars
  <2>1. RedisTypeOK' /\ TrendingCountsEachEventOnce' /\ RecentSettled'
    BY <1>1, <1>2 DEF redisVars, RedisTypeOK, TrendingCountsEachEventOnce, RankingIsSum,
       RecentSettled, RecentIsMarked
  <2>2. CASE UNCHANGED postgresVars
    BY <1>1, <2>1, <2>2 DEF postgresVars, PostgresTypeOK, SnapshotsMatchMetadata
  <2> QED
    BY <1>1, <2>1, <2>2, ReplayPostgresStep, PersistEventTypes, PersistEventMatches
<1>3. ASSUME ReplayedMessage \in Events, UNCHANGED postgresVars,
             NEW status, \/ ProcessEvent(ReplayedMessage, status)
                         \/ ProcessEventFaulty(ReplayedMessage, status)
      PROVE  /\ RedisTypeOK' /\ PostgresTypeOK'
             /\ SnapshotsMatchMetadata' /\ TrendingCountsEachEventOnce'
             /\ RecentSettled'
  <2>1. RedisTypeOK'
    BY <1>1, <1>3, ProcessEventTypes
  <2>2. TrendingCountsEachEventOnce' /\ RecentSettled'
    BY <1>1, <1>3, ProcessEventSum, ProcessEventRecent
       DEF TrendingCountsEachEventOnce, RecentSettled
  <2> QED
    BY <1>1, <1>3, <2>1, <2>2 DEF postgresVars, PostgresTypeOK, SnapshotsMatchMetadata
<1> QED
  BY <1>2, <1>3, ReplayRedisStep

LEMMA ReplayStepIndInv ==
    ASSUME RInv, ReplayStep, UNCHANGED consumerVars
    PROVE  IndInv'
<1> USE DEF consumerVars, readerVars, historyVars, logVars
<1>1. /\ TypeOK /\ ReplayCursorsOK /\ log' = log
      /\ faults' \in [FaultKinds -> Nat] /\ faults'["expiry"] = faults["expiry"]
  BY ReplayStepShared DEF RInv, IndInv
<1>2. /\ marked \subseteq marked' /\ metadata \subseteq metadata'
      /\ Published' = Published
  BY <1>1, ReplayRedisGrows, ReplayPostgresGrows DEF Published
<1>3. TypeOK'
  <2>1. ServiceTypeOK'
    BY <1>1 DEF TypeOK, ServiceTypeOK
  <2> QED
    BY <2>1, ReplayStepStores DEF TypeOK
<1>4. CursorsOK' /\ ExpiryBounded'
  BY <1>1 DEF RInv, IndInv, CursorsOK, ExpiryBounded, Busy, ForHistory, CurrentMessage
<1>5. RedisSettled'
  <2>1. \A p, i : SettledInRedis(p, i) => SettledInRedis(p, i)'
    BY <1>1, <1>2 DEF SettledInRedis
  <2>2. RedisSettled
    BY DEF RInv, IndInv
  <2> QED
    BY <1>1, <2>1, <2>2 DEF RedisSettled, Busy, Working
<1>6. HistorySettled'
  <2>1. \A p, i : SettledInHistory(p, i) => SettledInHistory(p, i)'
    BY <1>1, <1>2 DEF SettledInHistory, InQueue, InHand
  <2>2. HistorySettled
    BY DEF RInv, IndInv
  <2> QED
    BY <1>1, <2>1, <2>2 DEF HistorySettled, Busy, Working
<1>7. \A e : InPipeline(e)' => \/ InPipeline(e)
                               \/ replayPc = "persist" /\ e = ReplayedMessage
  BY <1>1, ReplayPostgresGrows DEF InPipeline, InQueue, InHand
<1>8. RankingFirst'
  <2>1. RankingFirst /\ (replayPc = "persist" => HasMarker(ReplayedMessage))
    BY DEF RInv, IndInv, ReplaySettled
  <2>2. CurrentMessage' = CurrentMessage
    BY <1>1 DEF CurrentMessage
  <2> QED
    BY <1>1, <1>2, <1>7, <2>1, <2>2 DEF RankingFirst, HasMarker, Weighted, EventScore
<1>9. FromTopic'
  BY <1>1, <1>2, <1>7, ReplayRedisGrows, ReplayedIsPublished
     DEF RInv, IndInv, FromTopic, ReplayBusy, ReplayCursorsOK
<1> QED
  BY <1>3, <1>4, <1>5, <1>6, <1>8, <1>9, ReplayStepStores DEF IndInv

-----------------------------------------------------------------------------
(* What the replay has committed stays rebuilt.                            *)

LEMMA SettledByReplayStays ==
    ASSUME RInv, ReplayNext,
           NEW p \in Partitions, NEW i \in 1..Len(log[p]), SettledByReplay(p, i)
    PROVE  SettledByReplay(p, i)'
<1>1. log'[p][i] = log[p][i]
  BY StoresGrow
<1>2. metadata \subseteq metadata' /\ replayErrors \subseteq replayErrors'
  BY StoresGrow
<1>3. faults'["expiry"] = 0 => faults["expiry"] = 0 /\ marked \subseteq marked'
  BY StoresGrow
<1> QED
  BY <1>1, <1>2, <1>3 DEF SettledByReplay, Rebuilt, Weighted, EventScore

LEMMA HasMarkerStays ==
    ASSUME RInv, ReplayNext, NEW m, HasMarker(m)
    PROVE  HasMarker(m)'
<1>1. faults'["expiry"] = 0 => faults["expiry"] = 0 /\ marked \subseteq marked'
  BY StoresGrow
<1> QED
  BY <1>1 DEF HasMarker, Weighted, EventScore

\* The claims of ReplaySettled about the messages of this state, in the next one.
LEMMA SettledSoFar ==
    ASSUME RInv, ReplayNext
    PROVE  /\ \A p \in Partitions : \A i \in 1..replayCommitted[p] :
                  SettledByReplay(p, i)'
           /\ replayPc # "down" =>
                 \A p \in Partitions : \A i \in 1..replayPosition[p] :
                     SettledByReplay(p, i)' \/ (ReplayBusy /\ ReplayWorking(p, i))
           /\ ReplayBusy => \A p \in Partitions : \A i \in 1..(replayCurrent.off - 1) :
                                p = replayCurrent.part => SettledByReplay(p, i)'
           /\ replayPc = "commit" =>
                 \A p, i : ReplayWorking(p, i) => SettledByReplay(p, i)'
<1>1. /\ replayCommitted \in [Partitions -> Nat] /\ replayPosition \in [Partitions -> Nat]
      /\ \A p \in Partitions : /\ Len(log[p]) \in Nat
                               /\ replayCommitted[p] <= Len(log[p])
                               /\ replayPosition[p] <= Len(log[p])
  BY DEF RInv, IndInv, TypeOK, ServiceTypeOK, ReplayVarsOK, ReplayCursorsOK
<1>2. ReplayBusy => /\ replayCurrent.part \in Partitions /\ replayCurrent.off \in Nat
                    /\ replayCurrent.off \in 1..Len(log[replayCurrent.part])
                    /\ replayCurrent = [part |-> replayCurrent.part,
                                        off |-> replayCurrent.off]
  BY DEF RInv, ReplayCursorsOK, Positions
<1>3. ASSUME NEW p \in Partitions, NEW i \in 1..Len(log[p]), SettledByReplay(p, i)
      PROVE  SettledByReplay(p, i)'
  BY <1>3, SettledByReplayStays
<1>4. ReplaySettled
  BY DEF RInv
<1>5. \A p \in Partitions : \A i \in 1..replayCommitted[p] : SettledByReplay(p, i)'
  BY <1>1, <1>3, <1>4 DEF ReplaySettled
<1>6. replayPc # "down" =>
         \A p \in Partitions : \A i \in 1..replayPosition[p] :
             SettledByReplay(p, i)' \/ (ReplayBusy /\ ReplayWorking(p, i))
  BY <1>1, <1>3, <1>4 DEF ReplaySettled
<1>7. ReplayBusy => \A p \in Partitions : \A i \in 1..(replayCurrent.off - 1) :
                        p = replayCurrent.part => SettledByReplay(p, i)'
  BY <1>1, <1>2, <1>3, <1>4 DEF ReplaySettled
<1>8. replayPc = "commit" =>
         \A p, i : ReplayWorking(p, i) => SettledByReplay(p, i)'
  BY <1>2, <1>3, <1>4 DEF ReplaySettled, ReplayWorking, ReplayBusy
<1> QED
  BY <1>5, <1>6, <1>7, <1>8

LEMMA ReplaySettledStays ==
    ASSUME RInv, ReplayNext, UNCHANGED replayVars
    PROVE  ReplaySettled'
<1>1. /\ ReplayBusy => /\ replayCurrent.part \in Partitions
                       /\ replayCurrent.off \in 1..Len(log[replayCurrent.part])
                       /\ replayCurrent = [part |-> replayCurrent.part,
                                           off |-> replayCurrent.off]
                       /\ ReplayedMessage' = ReplayedMessage
  BY StoresGrow DEF RInv, ReplayCursorsOK, Positions, ReplayedMessage, replayVars
<1>2. replayPc = "persist" => HasMarker(ReplayedMessage)'
  <2>1. ASSUME replayPc = "persist"
        PROVE  HasMarker(ReplayedMessage)'
    <3>1. PICK m : m = ReplayedMessage
      OBVIOUS
    <3>2. HasMarker(m)'
      BY <2>1, <3>1, HasMarkerStays DEF RInv, ReplaySettled
    <3>3. ReplayedMessage' = m
      BY <1>1, <2>1, <3>1 DEF ReplayBusy
    <3> QED
      BY <3>2, <3>3 DEF HasMarker, Weighted, EventScore
  <2> QED
    BY <2>1
<1> QED
  BY <1>1, <1>2, SettledSoFar DEF ReplaySettled, ReplayBusy, ReplayWorking, replayVars

LEMMA ReplaySettledStep ==
    ASSUME RInv, ReplayStep, UNCHANGED consumerVars
    PROVE  ReplaySettled'
<1>1. /\ log' = log
      /\ replayCommitted \in [Partitions -> Nat] /\ replayPosition \in [Partitions -> Nat]
      /\ \A p \in Partitions : Len(log[p]) \in Nat
  BY ReplayStepShared DEF RInv, IndInv, TypeOK, ServiceTypeOK, ReplayVarsOK
<1>2. ReplayBusy => /\ replayCurrent.part \in Partitions /\ replayCurrent.off \in Nat
                    /\ replayCurrent.off \in 1..Len(log[replayCurrent.part])
                    /\ replayCurrent = [part |-> replayCurrent.part,
                                        off |-> replayCurrent.off]
  BY DEF RInv, ReplayCursorsOK, Positions
<1>3. ReplayNext
  BY DEF ReplayNext
<1>4. /\ \A p \in Partitions : \A i \in 1..replayCommitted[p] : SettledByReplay(p, i)'
      /\ replayPc # "down" =>
            \A p \in Partitions : \A i \in 1..replayPosition[p] :
                SettledByReplay(p, i)' \/ (ReplayBusy /\ ReplayWorking(p, i))
      /\ ReplayBusy => \A p \in Partitions : \A i \in 1..(replayCurrent.off - 1) :
                           p = replayCurrent.part => SettledByReplay(p, i)'
      /\ replayPc = "commit" =>
            \A p, i : ReplayWorking(p, i) => SettledByReplay(p, i)'
  BY <1>3, SettledSoFar
\* The goroutine is done with its message, which has been logged as failed.
<1>5. ASSUME ReplayBusy, replayPc' = "fetch", replayPosition' = replayPosition,
             replayErrors' = replayErrors \union {replayCurrent},
             \/ replayCommitted' = replayCommitted
             \/ replayCommitted' =
                  [replayCommitted EXCEPT ![replayCurrent.part] = replayCurrent.off]
      PROVE  ReplaySettled'
  <2>1. \A p, i : ReplayWorking(p, i) => SettledByReplay(p, i)'
    BY <1>5 DEF ReplayWorking, SettledByReplay
  <2>2. \A p \in Partitions : \A i \in 1..replayCommitted'[p] :
            \/ i \in 1..replayCommitted[p]
            \/ p = replayCurrent.part /\ i \in 1..(replayCurrent.off - 1)
            \/ ReplayWorking(p, i)
    <3>1. \A p \in Partitions :
              \/ replayCommitted'[p] = replayCommitted[p]
              \/ p = replayCurrent.part /\ replayCommitted'[p] = replayCurrent.off
      BY <1>1, <1>5
    <3> QED
      BY <1>1, <1>2, <1>5, <3>1 DEF ReplayWorking
  <2>3. \A p \in Partitions : \A i \in 1..replayCommitted'[p] : SettledByReplay(p, i)'
    BY <1>4, <1>5, <2>1, <2>2
  <2> QED
    BY <1>4, <1>5, <2>1, <2>3 DEF ReplaySettled, ReplayBusy
<1>6. CASE StartReplay
  BY <1>4, <1>6 DEF StartReplay, ReplaySettled, ReplayBusy
<1>7. CASE FinishReplay \/ StopReplay
  BY <1>4, <1>7 DEF FinishReplay, StopReplay, ReplaySettled, ReplayBusy
<1>8. CASE RebalanceReplay
  <2>1. /\ UNCHANGED <<replayPc, replayCurrent, replayCommitted>>
        /\ replayPosition' = replayCommitted
        /\ ReplayedMessage' = ReplayedMessage
    BY <1>1, <1>8 DEF RebalanceReplay, ReplayedMessage
  <2>2. replayPc = "persist" => HasMarker(ReplayedMessage)'
    BY <1>1, <1>8, <2>1, ReplayStepShared
       DEF RebalanceReplay, RInv, IndInv, ReplaySettled, HasMarker, Weighted,
           EventScore, redisVars
  <2> QED
    BY <1>2, <1>4, <2>1, <2>2 DEF ReplaySettled, ReplayBusy, ReplayWorking
<1>9. ASSUME NEW q \in Partitions, FetchReplayed(q)
      PROVE  ReplaySettled'
  <2>1. /\ replayPosition' = [replayPosition EXCEPT ![q] = @ + 1]
        /\ replayCommitted' = replayCommitted
        /\ replayCurrent' = [part |-> q, off |-> replayPosition[q] + 1]
        /\ replayPc = "fetch" /\ replayPc' = "process"
    BY <1>9 DEF FetchReplayed
  <2>2. \A p \in Partitions : \A i \in 1..replayPosition[p] : SettledByReplay(p, i)'
    BY <1>4, <2>1 DEF ReplayBusy
  <2>3. \A p \in Partitions : \A i \in 1..replayPosition'[p] :
            i \in 1..replayPosition[p] \/ ReplayWorking(p, i)'
    BY <1>1, <2>1 DEF ReplayWorking
  <2>4. \A i \in 1..(replayCurrent'.off - 1) : SettledByReplay(replayCurrent.part, i)'
    BY <1>1, <2>1, <2>2
  <2> QED
    BY <1>4, <2>1, <2>2, <2>3, <2>4 DEF ReplaySettled, ReplayBusy
<1>10. CASE SkipUndecoded
  BY <1>5, <1>10 DEF SkipUndecoded, NextMessage, ReplayBusy
<1>11. CASE RebuildRedis \/ RebuildRedisFaulty
  <2>1. /\ UNCHANGED <<replayCommitted, replayPosition>>
        /\ replayPc = "process" /\ ReplayedMessage \in Events
        /\ \/ /\ replayPc' = "fetch"
              /\ replayErrors' = replayErrors \union {replayCurrent}
           \/ /\ replayPc' = "persist"
              /\ replayCurrent' = replayCurrent
              /\ \E status \in {"processed", "duplicate", "ignored"} :
                    \/ ProcessEvent(ReplayedMessage, status)
                    \/ ProcessEventFaulty(ReplayedMessage, status)
    BY <1>11 DEF RebuildRedis, RebuildRedisFaulty, AfterStoreError, NextMessage
  <2>2. CASE replayPc' = "fetch"
    BY <1>5, <2>1, <2>2 DEF ReplayBusy
  <2>3. CASE replayPc' = "persist"
    <3>1. replayCurrent' = replayCurrent /\ ReplayedMessage' = ReplayedMessage
      BY <1>1, <2>1, <2>3 DEF ReplayedMessage
    <3>2. Weighted(ReplayedMessage) => ReplayedMessage \in marked'
      BY <2>1, <2>3, ProcessEventAnswer
    <3>3. HasMarker(ReplayedMessage)'
      BY <3>1, <3>2 DEF HasMarker, Weighted, EventScore
    <3> QED
      BY <1>2, <1>4, <2>1, <2>3, <3>1, <3>3 DEF ReplaySettled, ReplayBusy, ReplayWorking
  <2> QED
    BY <2>1, <2>2, <2>3
<1>12. CASE RebuildPostgres \/ RebuildPostgresFaulty
  <2>1. /\ UNCHANGED <<replayCommitted, replayPosition, redisVars>>
        /\ replayPc = "persist"
        /\ \/ /\ replayPc' = "fetch"
              /\ replayErrors' = replayErrors \union {replayCurrent}
           \/ /\ replayPc' = "commit"
              /\ replayCurrent' = replayCurrent
              /\ \E outcome \in {"persisted", "known"} :
                    PersistEvent(ReplayedMessage, outcome)
    BY <1>12 DEF RebuildPostgres, RebuildPostgresFaulty, AfterStoreError, NextMessage
  <2>2. CASE replayPc' = "fetch"
    BY <1>5, <2>1, <2>2 DEF ReplayBusy
  <2>3. CASE replayPc' = "commit"
    <3>1. replayCurrent' = replayCurrent /\ ReplayedMessage' = ReplayedMessage
      BY <1>1, <2>1, <2>3 DEF ReplayedMessage
    <3>2. ReplayedMessage \in metadata'
      BY <2>1, <2>3, PersistEventRows DEF RInv, ReplayCursorsOK
    <3>3. HasMarker(ReplayedMessage) /\ marked' = marked
          /\ faults'["expiry"] = faults["expiry"]
      BY <2>1, ReplayStepShared DEF RInv, IndInv, ReplaySettled, redisVars
    <3>4. Rebuilt(ReplayedMessage)'
      BY <3>1, <3>2, <3>3 DEF Rebuilt, HasMarker, Weighted, EventScore
    <3>5. SettledByReplay(replayCurrent.part, replayCurrent.off)'
      BY <3>1, <3>4 DEF SettledByReplay, ReplayedMessage
    <3> QED
      BY <1>2, <1>4, <2>1, <2>3, <3>1, <3>5 DEF ReplaySettled, ReplayBusy, ReplayWorking
  <2> QED
    BY <2>1, <2>2, <2>3
<1>13. CASE CommitReplayed
  <2>1. /\ replayCommitted' =
             [replayCommitted EXCEPT ![replayCurrent.part] = replayCurrent.off]
        /\ replayPosition' = replayPosition
        /\ replayPc = "commit" /\ replayPc' = "fetch"
    BY <1>13 DEF CommitReplayed, NextMessage
  <2>2. \A p \in Partitions : \A i \in 1..replayCommitted'[p] :
            \/ i \in 1..replayCommitted[p]
            \/ p = replayCurrent.part /\ i \in 1..(replayCurrent.off - 1)
            \/ ReplayWorking(p, i)
    BY <1>1, <1>2, <2>1 DEF ReplayBusy, ReplayWorking
  <2>3. \A p \in Partitions : \A i \in 1..replayCommitted'[p] : SettledByReplay(p, i)'
    BY <1>4, <2>1, <2>2 DEF ReplayBusy
  <2> QED
    BY <1>4, <2>1, <2>3 DEF ReplaySettled, ReplayBusy
<1> QED
  BY <1>6, <1>7, <1>8, <1>9, <1>10, <1>11, <1>12, <1>13 DEF ReplayStep

-----------------------------------------------------------------------------
(* The theorems.                                                           *)

LEMMA RInvInit == ReplayInit => RInv
<1> SUFFICES ASSUME ReplayInit PROVE RInv
  OBVIOUS
<1>1. IndInv
  BY IndInvInit DEF ReplayInit
<1>2. ReplayVarsOK
  BY DEF ReplayInit, ReplayVarsOK
<1>3. ReplayCursorsOK
  BY <1>1 DEF ReplayInit, ReplayCursorsOK, ReplayBusy, IndInv, TypeOK, ServiceTypeOK
<1>4. ReplaySettled
  BY DEF ReplayInit, ReplaySettled, ReplayBusy
<1> QED
  BY <1>1, <1>2, <1>3, <1>4 DEF RInv

LEMMA RInvStep == RInv /\ [ReplayNext]_<<vars, replayVars>> => RInv'
<1> SUFFICES ASSUME RInv, [ReplayNext]_<<vars, replayVars>> PROVE RInv'
  OBVIOUS
<1>1. CASE UNCHANGED <<vars, replayVars>>
  <2>1. IndInv'
    BY <1>1, IndInvStep DEF RInv
  <2>2. ReplayVarsOK' /\ ReplayCursorsOK'
    BY <1>1 DEF RInv, ReplayVarsOK, ReplayCursorsOK, ReplayBusy, ReplayedMessage,
       vars, kafkaVars, replayVars
  <2>3. ReplaySettled'
    BY <1>1 DEF RInv, ReplaySettled, SettledByReplay, Rebuilt, HasMarker, ReplayBusy,
       ReplayWorking, ReplayedMessage, Weighted, EventScore, vars, kafkaVars,
       redisVars, postgresVars, replayVars
  <2> QED
    BY <2>1, <2>2, <2>3 DEF RInv
<1>2. CASE Next /\ UNCHANGED replayVars
  <2>1. IndInv'
    BY <1>2, IndInvStep DEF RInv
  <2>2. ReplayVarsOK'
    BY <1>2 DEF RInv, ReplayVarsOK, replayVars
  <2>3. ReplayCursorsOK'
    BY <1>2, ReplayCursorsStay DEF RInv, IndInv
  <2>4. ReplaySettled'
    BY <1>2, ReplaySettledStays DEF ReplayNext
  <2> QED
    BY <2>1, <2>2, <2>3, <2>4 DEF RInv
<1>3. CASE ReplayStep /\ UNCHANGED consumerVars
  <2>1. ReplayVarsOK' /\ ReplayCursorsOK'
    BY <1>3, ReplayVarsStep, ReplayCursorsStep DEF RInv, IndInv
  <2> QED
    BY <1>3, <2>1, ReplayStepIndInv, ReplaySettledStep DEF RInv
<1> QED
  BY <1>1, <1>2, <1>3 DEF ReplayNext

THEOREM ReplayInductiveInvariant == ReplaySpec => []RInv
<1> QED
  BY RInvInit, RInvStep, PTL DEF ReplaySpec

\* Every variable of both processes keeps its type.
THEOREM ReplayTypeCorrectness == ReplaySpec => []ReplayTypeOK
<1>1. RInv => ReplayTypeOK
  BY DEF RInv, IndInv, ReplayVarsOK, ReplayCursorsOK, ReplayBusy, ReplayTypeOK
<1> QED
  BY <1>1, ReplayInductiveInvariant, PTL

\* cmd/replay commits no message that the two stores lack without having
\* logged it, whatever the consumer does to them meanwhile.
THEOREM ReplayRebuilds == ReplaySpec => []ReplayedIsRebuilt
<1>1. RInv => ReplayedIsRebuilt
  BY DEF RInv, ReplaySettled, SettledByReplay, ReplayedIsRebuilt
<1> QED
  BY <1>1, ReplayInductiveInvariant, PTL

\* A replay does not corrupt the stores: with both processes writing, the
\* ranking still is the sum over the marked events.
THEOREM RankingIsExactBesideReplay == ReplaySpec => []TrendingCountsEachEventOnce
<1>1. RInv => TrendingCountsEachEventOnce
  BY DEF RInv, IndInv
<1> QED
  BY <1>1, ReplayInductiveInvariant, PTL

\* With both processes writing, the window tables agree with the rows of
\* metadata (ON CONFLICT).
THEOREM HistoryIsConsistentBesideReplay == ReplaySpec => []SnapshotsMatchMetadata
<1>1. RInv => SnapshotsMatchMetadata
  BY DEF RInv, IndInv
<1> QED
  BY <1>1, ReplayInductiveInvariant, PTL

\* A replay, which also writes rows, keeps history behind the ranking.
THEOREM RankingComesFirstBesideReplay == ReplaySpec => []HistoryFollowsRanking
<1>1. RInv => HistoryFollowsRanking
  BY DEF RInv, IndInv, RankingFirst, HistoryFollowsRanking, InPipeline
<1> QED
  BY <1>1, ReplayInductiveInvariant, PTL

\* A replay takes from the consumer nothing that it relies on: what the group
\* of the consumer has committed still is in Redis, or named in its log.
THEOREM CommittedIsInRedisBesideReplay == ReplaySpec => []CommittedIsInRedis
<1>1. RInv => CommittedIsInRedis
  BY DEF RInv, IndInv, RedisSettled, CommittedIsInRedis
<1> QED
  BY <1>1, ReplayInductiveInvariant, PTL

\* And it is in history, on its way there, or named in a log.
THEOREM CommittedIsTracedBesideReplay == ReplaySpec => []CommittedReachesHistory
<1>1. RInv => CommittedReachesHistory
  BY DEF RInv, IndInv, HistorySettled, CommittedReachesHistory
<1> QED
  BY <1>1, ReplayInductiveInvariant, PTL

\* While a replay writes both stores, the list of recent events shows counted
\* events only, none twice and as many as it can.
THEOREM RecentIsExactBesideReplay == ReplaySpec => []RecentListsCountedEvents
<1>1. RInv => RecentListsCountedEvents
  BY RecentPages DEF RInv
<1> QED
  BY <1>1, ReplayInductiveInvariant, PTL

\* And a reader of both rankings never finds more in the historical one.
THEOREM HistoryPageIsBehindBesideReplay ==
    ReplaySpec => []HistoryPageBehindTrendingPage
<1>1. RInv => HistoryPageBehindTrendingPage
  BY PagesCompared DEF RInv, IndInv
<1> QED
  BY <1>1, ReplayInductiveInvariant, PTL

-----------------------------------------------------------------------------
(* When the documentation is right.                                        *)

\* docs/benchmarking.md:73: as long as no marker has expired, replays beside
\* the consumer count no event of the topic twice.
THEOREM OnlyExpiryCountsTwice ==
    ASSUME TTLSeconds(IdempotencyTTL) > 0
    PROVE  ReplaySpec => [](faults["expiry"] = 0 => ReplayIsSafe)
<1>1. ASSUME RInv, faults["expiry"] = 0, NEW r \in Repos
      PROVE  trending[r] <= ScoreSum(OfRepo(Published, r))
  <2>1. trending[r] = ScoreSum(OfRepo(marked, r))
    BY <1>1 DEF RInv, IndInv, TrendingCountsEachEventOnce, RankingIsSum
  <2>2. /\ OfRepo(Published, r) \in SUBSET Events
        /\ OfRepo(marked, r) \in SUBSET OfRepo(Published, r)
    BY <1>1 DEF RInv, IndInv, FromTopic, OfRepo, Published, TypeOK, RedisTypeOK
  <2> QED
    BY <2>1, <2>2, ScoreSumGrows
<1>2. RInv => (faults["expiry"] = 0 => ReplayIsSafe)
  BY <1>1 DEF ReplayIsSafe
<1> QED
  BY <1>2, ReplayInductiveInvariant, PTL

\* docs/postgres-analytics.md:55: a replay whose group has committed nothing
\* when it starts, and that has read the whole topic, leaves no gap in history
\* that it has not itself reported.
THEOREM FirstReplayFillsGaps ==
    ReplaySpec => []((\A p \in Partitions : replayResumed[p] = 0) => ReplayFillsGaps)
<1>1. ASSUME RInv, \A p \in Partitions : replayResumed[p] = 0,
             replayPc = "fetch", \A p \in Partitions : replayPosition[p] = Len(log[p]),
             NEW p \in Partitions, NEW i \in 1..Len(log[p])
      PROVE  \/ log[p][i] \in metadata
             \/ i > replayResumed[p] /\ [part |-> p, off |-> i] \in replayErrors
  <2>1. SettledByReplay(p, i)
    BY <1>1 DEF RInv, ReplaySettled, ReplayBusy
  <2>2. i > replayResumed[p]
    BY <1>1
  <2> QED
    BY <2>1, <2>2 DEF SettledByReplay, Rebuilt
<1>2. RInv => ((\A p \in Partitions : replayResumed[p] = 0) => ReplayFillsGaps)
  BY <1>1 DEF ReplayFillsGaps
<1> QED
  BY <1>2, ReplayInductiveInvariant, PTL

-----------------------------------------------------------------------------
(* The bounds of a replay.                                                 *)

\* The offsets moved over that the reader will not return again before the
\* group is rebalanced: those up to its position and before the message at hand.
OffsetsBehind ==
    {x \in OffsetsMoved :
        /\ x[2] <= replayPosition[x[1]]
        /\ ReplayBusy => x[1] # replayCurrent.part \/ x[2] < replayCurrent.off}

\* A rebalance has put the reader before the message at hand, which may be
\* counted now and delivered again later.
ComesAgain ==
    ReplayBusy /\ replayPosition[replayCurrent.part] < replayCurrent.off

\* The limit is looked at before a message is fetched.
LimitKept ==
    ReplayMaxMessages > 0 =>
        processed + (IF ReplayBusy THEN 1 ELSE 0) <= ReplayMaxMessages

\* Nothing takes the reader or the group back before the offsets at which this
\* replay began.
NotBeforeStart ==
    /\ \A p \in Partitions : /\ replayResumed[p] <= replayCommitted[p]
                             /\ replayResumed[p] <= replayPosition[p]
    /\ ReplayBusy => replayResumed[replayCurrent.part] < replayCurrent.off

\* Every message counted is an offset behind, but one for each rebalance.
CountedIsBehind ==
    /\ processed <= Cardinality(OffsetsBehind) + rebalanced
    /\ ComesAgain => processed < Cardinality(OffsetsBehind) + rebalanced

\* ReplayStaysInBounds, and what makes it inductive.
ReplayInBounds ==
    /\ LimitKept
    /\ IsFiniteSet(OffsetsMoved)
    /\ NotBeforeStart
    /\ CountedIsBehind

\* The offsets between two bounds, told apart by them.
LEMMA OffsetsBetween ==
    ASSUME NEW from \in [Partitions -> Nat], NEW to \in [Partitions -> Nat]
    PROVE  \A x : x \in UNION {{p} \X (from[p] + 1 .. to[p]) : p \in Partitions} <=>
               x \in Partitions \X Nat /\ from[x[1]] < x[2] /\ x[2] <= to[x[1]]
<1>1. ASSUME NEW p \in Partitions, NEW x, x \in {p} \X (from[p] + 1 .. to[p])
      PROVE  x \in Partitions \X Nat /\ from[x[1]] < x[2] /\ x[2] <= to[x[1]]
  <2>1. /\ x[1] = p /\ x[2] \in from[p] + 1 .. to[p] /\ x = <<x[1], x[2]>>
        /\ from[p] \in Nat /\ to[p] \in Nat
    BY <1>1
  <2> QED
    BY <2>1
<1>2. ASSUME NEW p \in Partitions, NEW i \in Nat, from[p] < i, i <= to[p]
      PROVE  <<p, i>> \in {p} \X (from[p] + 1 .. to[p])
  BY <1>2
<1> QED
  BY <1>1, <1>2

\* They are none at the start of a replay, and stay finitely many when one
\* partition is committed.
LEMMA NothingMoved ==
    ASSUME ReplayVarsOK, replayResumed = replayCommitted
    PROVE  OffsetsMoved = {}
<1>1. \A p \in Partitions : replayResumed[p] + 1 .. replayCommitted[p] = {}
  BY DEF ReplayVarsOK
<1> QED
  BY <1>1 DEF OffsetsMoved

LEMMA CommitMoves ==
    ASSUME ReplayVarsOK, IsFiniteSet(OffsetsMoved), NEW part \in Partitions,
           NEW off \in Nat, replayResumed' = replayResumed,
           replayCommitted' = [replayCommitted EXCEPT ![part] = off]
    PROVE  IsFiniteSet(OffsetsMoved')
<1> DEFINE range == replayResumed[part] + 1 .. off
           moved == {part} \X range
<1>1. /\ replayResumed[part] \in Nat
      /\ \A p \in Partitions : replayCommitted'[p] =
             IF p = part THEN off ELSE replayCommitted[p]
  BY DEF ReplayVarsOK
<1>2. IsFiniteSet(moved)
  <2>1. IsFiniteSet(range)
    <3>1. replayResumed[part] + 1 \in Int /\ off \in Int
      BY <1>1
    <3>2. ASSUME NEW a \in Int, NEW b \in Int
          PROVE  IsFiniteSet(a .. b)
      BY FS_Interval
    <3> QED
      BY <3>1, <3>2
  <2>2. IsFiniteSet({part})
    BY FS_Singleton
  <2> QED
    BY <2>1, <2>2, FS_Product
<1>3. OffsetsMoved' \subseteq OffsetsMoved \union moved
  BY <1>1 DEF OffsetsMoved
<1> QED
  BY <1>2, <1>3, FS_Union, FS_Subset

\* One more element at least.
LEMMA OneMore ==
    ASSUME NEW S, NEW T, NEW x, IsFiniteSet(T), S \subseteq T, x \in T, x \notin S
    PROVE  Cardinality(S) + 1 <= Cardinality(T)
<1>1. IsFiniteSet(S) /\ IsFiniteSet(S \union {x}) /\ S \union {x} \subseteq T
  BY FS_Subset
<1>2. Cardinality(S \union {x}) = Cardinality(S) + 1
  BY <1>1, FS_AddElement
<1>3. Cardinality(S \union {x}) <= Cardinality(T)
  BY <1>1, FS_Subset
<1>4. Cardinality(S) \in Nat /\ Cardinality(T) \in Nat
  BY <1>1, FS_CardinalityType
<1> QED
  BY <1>2, <1>3, <1>4

\* What keeps the count behind while no offset comes back: nothing is counted,
\* or the group is rebalanced, or what is counted was expected to come again.
CountKept ==
    \/ /\ processed' = processed /\ rebalanced' = rebalanced
       /\ ComesAgain' => ComesAgain
    \/ processed' = processed /\ rebalanced' = rebalanced + 1
    \/ /\ ComesAgain /\ ~ComesAgain'
       /\ processed' = processed + 1 /\ rebalanced' = rebalanced

LEMMA CountStaysBehind ==
    ASSUME ReplayVarsOK, CountedIsBehind, CountKept,
           IsFiniteSet(OffsetsBehind'), OffsetsBehind \subseteq OffsetsBehind'
    PROVE  CountedIsBehind'
<1>1. /\ Cardinality(OffsetsBehind) \in Nat /\ Cardinality(OffsetsBehind') \in Nat
      /\ Cardinality(OffsetsBehind) <= Cardinality(OffsetsBehind')
  BY FS_Subset, FS_CardinalityType
<1>2. processed \in Nat /\ rebalanced \in Nat
  BY DEF ReplayVarsOK
<1> QED
  BY <1>1, <1>2 DEF CountedIsBehind, CountKept

LEMMA ReplayInBoundsInit == ReplayInit => ReplayInBounds
<1> SUFFICES ASSUME ReplayInit PROVE ReplayInBounds
  OBVIOUS
<1>1. /\ replayPc = "down" /\ processed = 0 /\ rebalanced = 0
      /\ replayResumed = replayCommitted /\ replayPosition = replayCommitted
      /\ replayCommitted \in [Partitions -> Nat]
  BY DEF ReplayInit
<1>2. OffsetsMoved = {} /\ OffsetsBehind = {}
  BY <1>1, RInvInit, NothingMoved DEF RInv, OffsetsBehind
<1>3. IsFiniteSet(OffsetsMoved) /\ Cardinality(OffsetsBehind) = 0
  BY <1>2, FS_EmptySet
<1> QED
  BY <1>1, <1>3, ReplayAssumption DEF ReplayInBounds, LimitKept, NotBeforeStart,
     CountedIsBehind, ComesAgain, ReplayBusy, ReplayAssumption

LEMMA ReplayInBoundsStep ==
    ASSUME RInv, RInv', ReplayInBounds, ReplayStep, UNCHANGED consumerVars
    PROVE  ReplayInBounds'
<1>1. /\ replayCommitted \in [Partitions -> Nat] /\ replayPosition \in [Partitions -> Nat]
      /\ replayResumed \in [Partitions -> Nat]
      /\ processed \in Nat /\ rebalanced \in Nat /\ ReplayMaxMessages \in Nat
      /\ ReplayVarsOK /\ ReplayVarsOK'
  BY ReplayAssumption DEF RInv, ReplayVarsOK, ReplayAssumption
<1>2. ReplayBusy => /\ replayCurrent.part \in Partitions /\ replayCurrent.off \in Nat
  BY DEF RInv, ReplayCursorsOK, Positions
<1>3. /\ \A x : x \in OffsetsMoved <=>
             /\ x \in Partitions \X Nat
             /\ replayResumed[x[1]] < x[2] /\ x[2] <= replayCommitted[x[1]]
      /\ \A x : x \in OffsetsMoved' <=>
             /\ x \in Partitions \X Nat
             /\ replayResumed'[x[1]] < x[2] /\ x[2] <= replayCommitted'[x[1]]
  BY <1>1, OffsetsBetween DEF OffsetsMoved, ReplayVarsOK
\* It is enough to look at what moves.
<1>4. ASSUME LimitKept', IsFiniteSet(OffsetsMoved'), NotBeforeStart',
             OffsetsBehind \subseteq OffsetsBehind', CountKept
      PROVE  ReplayInBounds'
  <2>1. IsFiniteSet(OffsetsBehind')
    BY <1>4, FS_Subset DEF OffsetsBehind
  <2> QED
    BY <1>1, <1>4, <2>1, CountStaysBehind DEF ReplayInBounds
<1>5. CASE StartReplay
  <2>1. /\ replayResumed' = replayCommitted /\ replayPosition' = replayCommitted
        /\ replayCommitted' = replayCommitted /\ processed' = 0 /\ rebalanced' = 0
        /\ ~ReplayBusy'
    BY <1>5 DEF StartReplay, ReplayBusy
  <2>2. OffsetsMoved' = {} /\ OffsetsBehind' = {}
    <3>1. \A p \in Partitions : replayResumed'[p] + 1 .. replayCommitted'[p] = {}
      BY <1>1, <2>1
    <3> QED
      BY <3>1 DEF OffsetsMoved, OffsetsBehind
  <2>3. IsFiniteSet(OffsetsMoved') /\ Cardinality(OffsetsBehind') = 0
    BY <2>2, FS_EmptySet
  <2>4. LimitKept' /\ NotBeforeStart' /\ CountedIsBehind'
    BY <1>1, <2>1, <2>3 DEF LimitKept, NotBeforeStart, CountedIsBehind, ComesAgain
  <2> QED
    BY <2>3, <2>4 DEF ReplayInBounds
\* The process is done with the message at hand without committing it.
<1>6. ASSUME UNCHANGED <<replayCommitted, replayPosition, replayResumed, rebalanced,
                         processed>>,
             ~ReplayBusy'
      PROVE  ReplayInBounds'
  <2>1. OffsetsMoved' = OffsetsMoved
    BY <1>6 DEF OffsetsMoved
  <2>2. OffsetsBehind \subseteq OffsetsBehind'
    BY <1>6, <2>1 DEF OffsetsBehind
  <2>3. LimitKept' /\ NotBeforeStart'
    BY <1>1, <1>6 DEF ReplayInBounds, LimitKept, NotBeforeStart
  <2>4. CountKept
    BY <1>6 DEF CountKept, ComesAgain
  <2> QED
    BY <1>4, <2>1, <2>2, <2>3, <2>4 DEF ReplayInBounds
\* It goes on with it.
<1>7. ASSUME UNCHANGED <<replayCommitted, replayPosition, replayResumed, rebalanced,
                         processed, replayCurrent>>,
             ReplayBusy, ReplayBusy'
      PROVE  ReplayInBounds'
  <2>1. OffsetsMoved' = OffsetsMoved /\ OffsetsBehind' = OffsetsBehind
    BY <1>7 DEF OffsetsMoved, OffsetsBehind
  <2>2. LimitKept' /\ NotBeforeStart' /\ CountedIsBehind'
    BY <1>7, <2>1 DEF ReplayInBounds, LimitKept, NotBeforeStart, CountedIsBehind,
       ComesAgain
  <2> QED
    BY <2>1, <2>2 DEF ReplayInBounds
<1>8. CASE RebalanceReplay
  <2>1. /\ UNCHANGED <<replayCommitted, replayResumed, processed, replayCurrent>>
        /\ replayPosition' = replayCommitted /\ rebalanced' = rebalanced + 1
        /\ OffsetsMoved' = OffsetsMoved /\ ReplayBusy' = ReplayBusy
    BY <1>8 DEF RebalanceReplay, OffsetsMoved, ReplayBusy
  <2>2. OffsetsBehind \subseteq OffsetsBehind'
    BY <1>3, <2>1 DEF OffsetsBehind
  <2>3. LimitKept' /\ NotBeforeStart'
    BY <2>1 DEF ReplayInBounds, LimitKept, NotBeforeStart
  <2>4. CountKept
    BY <2>1 DEF CountKept
  <2> QED
    BY <1>4, <2>1, <2>2, <2>3, <2>4 DEF ReplayInBounds
<1>9. ASSUME NEW p \in Partitions, FetchReplayed(p)
      PROVE  ReplayInBounds'
  <2>1. /\ UNCHANGED <<replayCommitted, replayResumed, rebalanced, processed>>
        /\ ~LimitReached /\ ~ReplayBusy /\ ReplayBusy'
        /\ replayPosition' = [replayPosition EXCEPT ![p] = @ + 1]
        /\ replayCurrent' = [part |-> p, off |-> replayPosition[p] + 1]
    BY <1>9 DEF FetchReplayed, ReplayBusy
  <2>2. OffsetsMoved' = OffsetsMoved
    BY <2>1 DEF OffsetsMoved
  <2>3. LimitKept'
    BY <1>1, <2>1 DEF LimitKept, LimitReached
  <2>4. \A q \in Partitions : replayPosition'[q] =
                               IF q = p THEN replayPosition[q] + 1 ELSE replayPosition[q]
    BY <1>1, <2>1
  <2>5. NotBeforeStart'
    BY <1>1, <2>1, <2>4 DEF ReplayInBounds, NotBeforeStart
  <2>6. OffsetsBehind \subseteq OffsetsBehind'
    <3>1. ASSUME NEW x \in OffsetsMoved, x[2] <= replayPosition[x[1]]
          PROVE  /\ x[2] <= replayPosition'[x[1]]
                 /\ x[1] # p \/ x[2] < replayPosition[p] + 1
      <4>1. x[1] \in Partitions /\ x[2] \in Nat
        BY <1>3
      <4> QED
        BY <1>1, <2>4, <3>1, <4>1
    <3> QED
      BY <2>1, <2>2, <3>1 DEF OffsetsBehind
  <2>7. ~ComesAgain'
    BY <1>1, <2>1, <2>4 DEF ComesAgain
  <2>8. CountKept
    BY <2>1, <2>7 DEF CountKept
  <2> QED
    BY <1>4, <2>2, <2>3, <2>5, <2>6, <2>8 DEF ReplayInBounds
\* The message at hand is committed, and counted or not.
<1>10. ASSUME ReplayBusy, ~ReplayBusy',
              UNCHANGED <<replayPosition, replayResumed, rebalanced>>,
              processed' \in {processed, processed + 1},
              replayCommitted' =
                  [replayCommitted EXCEPT ![replayCurrent.part] = replayCurrent.off]
       PROVE  ReplayInBounds'
  <2> DEFINE part == replayCurrent.part
             off == replayCurrent.off
  <2>1. part \in Partitions /\ off \in Nat
    BY <1>2, <1>10
  <2>2. \A p \in Partitions : replayCommitted'[p] =
                               IF p = part THEN off ELSE replayCommitted[p]
    BY <1>1, <1>10
  <2>3. IsFiniteSet(OffsetsMoved')
    <3>1. IsFiniteSet(OffsetsMoved) /\ replayResumed' = replayResumed
      BY <1>10 DEF ReplayInBounds
    <3> QED
      BY <1>1, <1>10, <2>1, <3>1, CommitMoves
  <2>4. LimitKept'
    <3>1. ReplayMaxMessages > 0 => processed + 1 <= ReplayMaxMessages
      BY <1>10 DEF ReplayInBounds, LimitKept
    <3>2. processed' = processed \/ processed' = processed + 1
      BY <1>10
    <3>3. ReplayMaxMessages > 0 => processed' + 0 <= ReplayMaxMessages
      BY <1>1, <3>1, <3>2
    <3> QED
      BY <1>10, <3>3 DEF LimitKept
  <2>5. replayResumed[part] < off
    BY <1>10 DEF ReplayInBounds, NotBeforeStart
  <2>6. NotBeforeStart'
    BY <1>1, <1>10, <2>1, <2>2, <2>5 DEF ReplayInBounds, NotBeforeStart
  <2>7. OffsetsBehind \subseteq OffsetsBehind' /\ <<part, off>> \notin OffsetsBehind
    <3>1. ASSUME NEW x \in OffsetsBehind
          PROVE  x \in OffsetsBehind' /\ x # <<part, off>>
      <4>1. /\ x \in Partitions \X Nat /\ x[1] \in Partitions /\ x[2] \in Nat
            /\ replayResumed[x[1]] < x[2] /\ x[2] <= replayCommitted[x[1]]
            /\ x[2] <= replayPosition[x[1]]
            /\ x[1] # part \/ x[2] < off
        BY <1>3, <1>10, <3>1 DEF OffsetsBehind
      <4>2. x[2] <= replayCommitted'[x[1]]
        BY <2>1, <2>2, <4>1
      <4>3. x \in OffsetsMoved'
        BY <1>3, <1>10, <4>1, <4>2
      <4>4. x # <<part, off>>
        BY <2>1, <4>1
      <4> QED
        BY <1>10, <4>1, <4>3, <4>4 DEF OffsetsBehind
    <3> QED
      BY <3>1
  <2>8. ~ComesAgain'
    BY <1>10 DEF ComesAgain
  <2>9. CASE ComesAgain \/ processed' = processed
    <3>1. CountKept
      BY <1>10, <2>8, <2>9 DEF CountKept
    <3> QED
      BY <1>4, <2>3, <2>4, <2>6, <2>7, <3>1
  <2>10. CASE ~ComesAgain /\ processed' = processed + 1
    <3>1. off <= replayPosition[part]
      BY <1>1, <1>10, <2>1, <2>10 DEF ComesAgain
    <3>2. <<part, off>> \in OffsetsMoved'
      BY <1>3, <1>10, <2>1, <2>2, <2>5
    <3>3. <<part, off>> \in OffsetsBehind'
      BY <1>10, <3>1, <3>2 DEF OffsetsBehind
    <3>4. IsFiniteSet(OffsetsBehind') /\ IsFiniteSet(OffsetsBehind)
      BY <2>3, <2>7, FS_Subset DEF OffsetsBehind
    <3>5. /\ Cardinality(OffsetsBehind) \in Nat /\ Cardinality(OffsetsBehind') \in Nat
          /\ Cardinality(OffsetsBehind) + 1 <= Cardinality(OffsetsBehind')
      BY <2>7, <3>3, <3>4, OneMore, FS_CardinalityType
    <3>6. processed <= Cardinality(OffsetsBehind) + rebalanced
      BY DEF ReplayInBounds, CountedIsBehind
    <3>7. CountedIsBehind'
      BY <1>1, <1>10, <2>8, <2>10, <3>5, <3>6 DEF CountedIsBehind
    <3> QED
      BY <2>3, <2>4, <2>6, <3>7 DEF ReplayInBounds
  <2> QED
    BY <1>10, <2>9, <2>10
<1>11. CASE FinishReplay \/ StopReplay
  BY <1>6, <1>11 DEF FinishReplay, StopReplay, ReplayBusy
<1>12. CASE SkipUndecoded
  <2>1. CASE replayCommitted' = replayCommitted
    BY <1>6, <1>12, <2>1 DEF SkipUndecoded, NextMessage, ReplayBusy
  <2>2. CASE replayCommitted' =
               [replayCommitted EXCEPT ![replayCurrent.part] = replayCurrent.off]
    BY <1>10, <1>12, <2>2 DEF SkipUndecoded, NextMessage, ReplayBusy
  <2> QED
    BY <1>12, <2>1, <2>2 DEF SkipUndecoded
<1>13. CASE RebuildRedis \/ RebuildRedisFaulty
  BY <1>6, <1>7, <1>13 DEF RebuildRedis, RebuildRedisFaulty, AfterStoreError,
     NextMessage, ReplayBusy
<1>14. CASE RebuildPostgres \/ RebuildPostgresFaulty
  BY <1>6, <1>7, <1>14 DEF RebuildPostgres, RebuildPostgresFaulty, AfterStoreError,
     NextMessage, ReplayBusy
<1>15. CASE CommitReplayed
  BY <1>10, <1>15 DEF CommitReplayed, NextMessage, ReplayBusy
<1> QED
  BY <1>5, <1>8, <1>9, <1>11, <1>12, <1>13, <1>14, <1>15 DEF ReplayStep

\* The consumer moves no offset of the replay.
LEMMA ReplayInBoundsStays ==
    ASSUME ReplayInBounds, UNCHANGED replayVars
    PROVE  ReplayInBounds'
<1>1. OffsetsMoved' = OffsetsMoved /\ ReplayBusy' = ReplayBusy
  BY DEF OffsetsMoved, ReplayBusy, replayVars
<1>2. OffsetsBehind' = OffsetsBehind /\ ComesAgain' = ComesAgain
  BY <1>1 DEF OffsetsBehind, ComesAgain, replayVars
<1> QED
  BY <1>1, <1>2 DEF ReplayInBounds, LimitKept, NotBeforeStart, CountedIsBehind, replayVars

\* REPLAY_MAX_MESSAGES is a bound on what one replay commits, and for any number
\* of rebalances, skipped messages, lost commits and failing stores what it has
\* counted is behind the offsets of its group, but one message for each
\* rebalance.
THEOREM ReplayIsBounded == ReplaySpec => []ReplayStaysInBounds
<1>1. RInv /\ RInv' /\ ReplayInBounds /\ [ReplayNext]_<<vars, replayVars>>
          => ReplayInBounds'
  BY ReplayInBoundsStep, ReplayInBoundsStays DEF ReplayNext, vars
<1>2. ASSUME RInv, ReplayInBounds
      PROVE  ReplayStaysInBounds
  <2>1. /\ processed \in Nat /\ rebalanced \in Nat /\ ReplayMaxMessages \in Nat
    BY <1>2, ReplayAssumption DEF RInv, ReplayVarsOK, ReplayAssumption
  <2>2. IsFiniteSet(OffsetsMoved) /\ OffsetsBehind \subseteq OffsetsMoved
    BY <1>2 DEF ReplayInBounds, OffsetsBehind
  <2>3. /\ Cardinality(OffsetsBehind) \in Nat /\ Cardinality(OffsetsMoved) \in Nat
        /\ Cardinality(OffsetsBehind) <= Cardinality(OffsetsMoved)
    BY <2>2, FS_Subset, FS_CardinalityType
  <2>4. processed <= Cardinality(OffsetsMoved) + rebalanced
    BY <1>2, <2>1, <2>3 DEF ReplayInBounds, CountedIsBehind
  <2>5. ReplayMaxMessages > 0 => processed <= ReplayMaxMessages
    BY <1>2, <2>1 DEF ReplayInBounds, LimitKept
  <2> QED
    BY <2>4, <2>5 DEF ReplayStaysInBounds
<1> QED
  BY <1>1, <1>2, ReplayInBoundsInit, ReplayInductiveInvariant, PTL DEF ReplaySpec

-----------------------------------------------------------------------------
(* The refinement.                                                         *)

\* A step of the replay counts or records one event, or readers see nothing.
LEMMA ReplayPromiseStep ==
    ASSUME MaxExpiries = 0, TTLSeconds(IdempotencyTTL) > 0,
           RInv, ReplayStep, UNCHANGED consumerVars
    PROVE  [Promise!Next]_(Promise!vars)
<1> USE DEF Promise!vars
<1>1. log' = log /\ Published' = Published
  BY ReplayStepShared DEF RInv, IndInv, Published
<1>2. faults["expiry"] = 0
  BY DEF RInv, IndInv, ExpiryBounded, TypeOK, ServiceTypeOK, FaultKinds
<1>3. CASE UNCHANGED <<redisVars, postgresVars>>
  BY <1>1, <1>3 DEF redisVars, postgresVars
<1>4. CASE ~UNCHANGED redisVars
  <2>1. UNCHANGED postgresVars
    BY <1>4, ReplayRedisStep
  <2>2. PICK e \in Events : /\ e = ReplayedMessage /\ replayPc = "process"
                            /\ \E status : \/ ProcessEvent(e, status)
                                           \/ ProcessEventFaulty(e, status)
    BY <1>4, ReplayRedisStep
  <2>3. Weighted(e) /\ Complete(e) /\ e \notin marked /\ Aggregate(e)
    BY <1>4, <2>2 DEF ProcessEvent, ProcessEventFaulty, aggregateEventScript
  <2>4. e \in Published
    BY <2>2, ReplayedIsPublished DEF RInv, ReplayBusy
  <2>5. /\ marked' = marked \union {e}
        /\ trending' = [trending EXCEPT ![RepoOf[e]] = @ + EventScore(e)]
    BY <2>3 DEF Aggregate, ZINCRBY
  <2>6. Promise!CountEvent(e)
    BY <1>1, <2>1, <2>3, <2>4, <2>5 DEF Promise!CountEvent, Promise!Weighted,
       Promise!Complete, Promise!EventScore, Promise!scoreForEvent, Weighted,
       Complete, EventScore, scoreForEvent, postgresVars
  <2> QED
    BY <2>6 DEF Promise!Next
<1>5. CASE ~UNCHANGED postgresVars
  <2>1. UNCHANGED redisVars
    BY <1>5, ReplayPostgresStep
  <2>2. PICK e \in Events : /\ e = ReplayedMessage /\ replayPc = "persist"
                            /\ \E outcome : \/ PersistEvent(e, outcome)
                                            \/ PersistEventFaulty(e, outcome)
    BY <1>5, ReplayPostgresStep DEF RInv, ReplayCursorsOK
  <2>3. Complete(e) /\ e \notin metadata /\ PersistTransaction(e)
    BY <1>5, <2>2 DEF PersistEvent, PersistEventFaulty, PersistTransaction
  <2>4. e \in Published /\ (Weighted(e) => e \in marked)
    BY <1>2, <2>2, ReplayedIsPublished DEF RInv, ReplayBusy, ReplaySettled, HasMarker
  <2>5. /\ metadata' = metadata \union {e}
        /\ snapshots' = IF Weighted(e)
             THEN [snapshots EXCEPT ![RepoOf[e]][HourOf[e]] =
                     [score |-> @.score + EventScore(e), count |-> @.count + 1]]
             ELSE snapshots
    BY <2>3 DEF PersistTransaction, upsertRepoSnapshot, Upsert
  <2>6. Promise!RecordEvent(e)
    BY <1>1, <2>1, <2>3, <2>4, <2>5 DEF Promise!RecordEvent, Promise!Weighted,
       Promise!Complete, Promise!EventScore, Promise!scoreForEvent, Weighted,
       Complete, EventScore, scoreForEvent, redisVars
  <2> QED
    BY <2>6 DEF Promise!Next
<1> QED
  BY <1>3, <1>4, <1>5

\* While no marker expires, consumer and replay together implement Analytics:
\* replaying the topic shows readers nothing but events counted and recorded
\* that were not yet.
THEOREM ReplayRefinement ==
    ASSUME MaxExpiries = 0, TTLSeconds(IdempotencyTTL) > 0
    PROVE  ReplaySpec => ImplementsAnalytics
<1>1. ReplayInit => Promise!Init
  BY PromiseInit DEF ReplayInit
<1>2. RInv /\ RInv' /\ [ReplayNext]_<<vars, replayVars>> => [Promise!Next]_(Promise!vars)
  <2> SUFFICES ASSUME RInv, RInv', [ReplayNext]_<<vars, replayVars>>
               PROVE  [Promise!Next]_(Promise!vars)
    OBVIOUS
  <2>1. CASE [Next]_vars
    BY <2>1, PromiseStep DEF RInv
  <2>2. CASE ReplayStep /\ UNCHANGED consumerVars
    BY <2>2, ReplayPromiseStep
  <2> QED
    BY <2>1, <2>2 DEF ReplayNext
<1> QED
  BY <1>1, <1>2, ReplayInductiveInvariant, PTL
     DEF ReplaySpec, ImplementsAnalytics, Promise!Spec
=============================================================================
