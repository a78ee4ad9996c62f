------------------------------- MODULE Replay -------------------------------
(***************************************************************************)
(* The replay command of cmd/replay/main.go beside the running consumer: a *)
(* second process that reads the same topic with a group of its own and    *)
(* writes to the same Redis and the same PostgreSQL. An operator starts    *)
(* it; it works on one message at a time and commits a message only after  *)
(* both stores have answered.                                              *)
(*                                                                         *)
(* The group keeps its offsets between two replays. The rate limit delays  *)
(* messages, or panics before the first, and is left out.                  *)
(***************************************************************************)
EXTENDS Consumer

CONSTANTS ReplayMaxMessages, \* REPLAY_MAX_MESSAGES; 0: no limit
          MaxReplays         \* bound of the model: replays started

ASSUME ReplayAssumption == {ReplayMaxMessages, MaxReplays} \subseteq Nat

VARIABLES replayCommitted, \* partition -> offset of the replay group
          replayPosition,  \* partition -> last offset fetched
          replayResumed,   \* partition -> offset this replay started from
          rebalanced,      \* rebalances of the group since it started
          replayPc,        \* where main is; "down": no replay is running
          replayCurrent,   \* the message it is working on
          processed,       \* messages this replay has committed
          replayErrors,    \* messages whose failure a replay has logged
          replays          \* replays started so far

replayVars == <<replayCommitted, replayPosition, replayResumed, rebalanced,
                replayPc, replayCurrent, processed, replayErrors, replays>>

consumerVars == <<committed, readerVars, historyVars, metrics, logVars>>

ReplayInit ==
    /\ Init
    /\ replayCommitted = [p \in Partitions |-> 0]
    /\ replayPosition = [p \in Partitions |-> 0]
    /\ replayResumed = [p \in Partitions |-> 0]
    /\ rebalanced = 0
    /\ replayPc = "down"
    /\ replayCurrent = NoMessage
    /\ processed = 0
    /\ replayErrors = {}
    /\ replays = 0

ReplayedMessage == log[replayCurrent.part][replayCurrent.off]

\* The loop ends before it fetches another message.
LimitReached == ReplayMaxMessages > 0 /\ processed >= ReplayMaxMessages

NextMessage ==
    /\ replayPc' = "fetch"
    /\ replayCurrent' = NoMessage

-----------------------------------------------------------------------------

\* main up to the loop. When PostgreSQL is not there the command exits at
\* once, which changes nothing. A group without offsets starts at the first.
StartReplay ==
    /\ replayPc = "down"
    /\ replays < MaxReplays
    /\ replays' = replays + 1
    /\ replayPc' = "fetch"
    /\ replayPosition' = replayCommitted
    /\ replayResumed' = replayCommitted
    /\ rebalanced' = 0
    /\ processed' = 0
    /\ UNCHANGED <<replayCommitted, replayCurrent, replayErrors, redisVars,
                   postgresVars, log, faults>>

\* REPLAY_MAX_MESSAGES is reached and main returns.
FinishReplay ==
    /\ replayPc = "fetch"
    /\ LimitReached
    /\ replayPc' = "down"
    /\ UNCHANGED <<replayCommitted, replayPosition, replayResumed, rebalanced,
                   replayCurrent, processed, replayErrors, replays, redisVars,
                   postgresVars, log, faults>>

\* The process ends anywhere: a signal, or os.Exit after an error of
\* FetchMessage or CommitMessages.
StopReplay ==
    /\ replayPc # "down"
    /\ Fault("stop")
    /\ replayPc' = "down"
    /\ replayCurrent' = NoMessage
    /\ UNCHANGED <<replayCommitted, replayPosition, replayResumed, rebalanced,
                   processed, replayErrors, replays, redisVars, postgresVars,
                   log>>

\* The replay group begins a new generation: the reader resumes at the
\* committed offsets, while the loop goes on with the message it has.
RebalanceReplay ==
    /\ replayPc # "down"
    /\ Fault("rebalance")
    /\ replayPosition' = replayCommitted
    /\ rebalanced' = rebalanced + 1
    /\ UNCHANGED <<replayCommitted, replayResumed, replayPc, replayCurrent,
                   processed, replayErrors, replays, redisVars, postgresVars,
                   log>>

FetchReplayed(p) ==
    /\ replayPc = "fetch"
    /\ ~LimitReached
    /\ replayPosition[p] < Len(log[p])
    /\ replayPosition' = [replayPosition EXCEPT ![p] = @ + 1]
    /\ replayCurrent' = [part |-> p, off |-> replayPosition[p] + 1]
    /\ replayPc' = "process"
    /\ UNCHANGED <<replayCommitted, replayResumed, rebalanced, processed,
                   replayErrors, replays, redisVars, postgresVars, log,
                   faults>>

\* Mutant of SkipUndecoded: no continue after the error.
SkipUndecodedGoesOn ==
    /\ replayPc = "process"
    /\ ReplayedMessage = Poison
    /\ replayErrors' = replayErrors \union {replayCurrent}
    /\ replayPc' = "persist"
    /\ UNCHANGED <<replayCommitted, replayPosition, replayResumed, rebalanced,
                   replayCurrent, processed, replays, redisVars, postgresVars,
                   log, faults>>

\* Mutant of SkipUndecoded: the message is counted, committed or not.
SkipUndecodedCounted ==
    /\ replayPc = "process"
    /\ ReplayedMessage = Poison
    /\ replayCommitted' \in
         {replayCommitted,
          [replayCommitted EXCEPT ![replayCurrent.part] = replayCurrent.off]}
    /\ replayErrors' = replayErrors \union {replayCurrent}
    /\ processed' = processed + 1
    /\ NextMessage
    /\ UNCHANGED <<replayPosition, replayResumed, rebalanced, replays,
                   redisVars, postgresVars, log, faults>>

\* json.Unmarshal fails. The message is committed, and an error of this
\* commit is ignored.
SkipUndecoded ==
    /\ replayPc = "process"
    /\ ReplayedMessage = Poison
    /\ replayCommitted' \in
         {replayCommitted,
          [replayCommitted EXCEPT ![replayCurrent.part] = replayCurrent.off]}
    /\ replayErrors' = replayErrors \union {replayCurrent}
    /\ NextMessage
    /\ UNCHANGED <<replayPosition, replayResumed, rebalanced, processed,
                   replays, redisVars, postgresVars, log, faults>>

\* Mutant of AfterStoreError: the message is persisted in spite of the error.
AfterStoreErrorGoesOn ==
    /\ replayPc' = "persist"
    /\ replayErrors' = replayErrors \union {replayCurrent}
    /\ UNCHANGED replayCurrent

\* Either store has returned an error, for an invalid event as for a failure:
\* the loop goes on to the next message without committing this one.
AfterStoreError ==
    /\ replayErrors' = replayErrors \union {replayCurrent}
    /\ NextMessage

\* Mutant of RebuildRedis: a duplicate is committed without its history.
RebuildRedisSkipsDuplicates ==
    /\ replayPc = "process"
    /\ ReplayedMessage \in Events
    /\ \/ /\ \E status \in {"processed", "duplicate", "ignored"} :
                /\ ProcessEvent(ReplayedMessage, status)
                /\ replayPc' = IF status = "duplicate" THEN "commit" ELSE "persist"
          /\ UNCHANGED <<replayCurrent, replayErrors>>
       \/ /\ \E status \in {"invalid", "error"} :
                ProcessEvent(ReplayedMessage, status)
          /\ AfterStoreError
    /\ UNCHANGED <<replayCommitted, replayPosition, replayResumed, rebalanced,
                   processed, replays, postgresVars, log, faults>>

\* realtimeStore.ProcessEvent.
RebuildRedis ==
    /\ replayPc = "process"
    /\ ReplayedMessage \in Events
    /\ \/ /\ \E status \in {"processed", "duplicate", "ignored"} :
                ProcessEvent(ReplayedMessage, status)
          /\ replayPc' = "persist"
          /\ UNCHANGED <<replayCurrent, replayErrors>>
       \/ /\ \E status \in {"invalid", "error"} :
                ProcessEvent(ReplayedMessage, status)
          /\ AfterStoreError
    /\ UNCHANGED <<replayCommitted, replayPosition, replayResumed, rebalanced,
                   processed, replays, postgresVars, log, faults>>

RebuildRedisFaulty ==
    /\ replayPc = "process"
    /\ ReplayedMessage \in Events
    /\ Fault("redis")
    /\ \/ /\ ProcessEventFaulty(ReplayedMessage, "duplicate")
          /\ replayPc' = "persist"
          /\ UNCHANGED <<replayCurrent, replayErrors>>
       \/ /\ ProcessEventFaulty(ReplayedMessage, "error")
          /\ AfterStoreError
    /\ UNCHANGED <<replayCommitted, replayPosition, replayResumed, rebalanced,
                   processed, replays, postgresVars, log>>

\* historyStore.PersistEvent; whether the row is new does not matter.
RebuildPostgres ==
    /\ replayPc = "persist"
    /\ \/ /\ \E outcome \in {"persisted", "known"} :
                PersistEvent(ReplayedMessage, outcome)
          /\ replayPc' = "commit"
          /\ UNCHANGED <<replayCurrent, replayErrors>>
       \/ /\ PersistEvent(ReplayedMessage, "error")
          /\ AfterStoreError
    /\ UNCHANGED <<replayCommitted, replayPosition, replayResumed, rebalanced,
                   processed, replays, redisVars, log, faults>>

RebuildPostgresFaulty ==
    /\ replayPc = "persist"
    /\ Fault("postgres")
    /\ PersistEventFaulty(ReplayedMessage, "error")
    /\ AfterStoreError
    /\ UNCHANGED <<replayCommitted, replayPosition, replayResumed, rebalanced,
                   processed, replays, redisVars, log>>

CommitReplayed ==
    /\ replayPc = "commit"
    /\ replayCommitted' =
         [replayCommitted EXCEPT ![replayCurrent.part] = replayCurrent.off]
    /\ processed' = processed + 1
    /\ NextMessage
    /\ UNCHANGED <<replayPosition, replayResumed, rebalanced, replayErrors,
                   replays, redisVars, postgresVars, log, faults>>

-----------------------------------------------------------------------------

ReplayStep ==
    \/ StartReplay
    \/ FinishReplay
    \/ StopReplay
    \/ RebalanceReplay
    \/ \E p \in Partitions : FetchReplayed(p)
    \/ SkipUndecoded
    \/ RebuildRedis
    \/ RebuildRedisFaulty
    \/ RebuildPostgres
    \/ RebuildPostgresFaulty
    \/ CommitReplayed

\* The consumer and the replay run side by side.
ReplayNext ==
    \/ Next /\ UNCHANGED replayVars
    \/ ReplayStep /\ UNCHANGED consumerVars

ReplaySpec == ReplayInit /\ [][ReplayNext]_<<vars, replayVars>>
=============================================================================
