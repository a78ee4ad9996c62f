-------------------------- MODULE ReplayProperties --------------------------
(***************************************************************************)
(* What a replay beside the running consumer owes the two stores. The      *)
(* invariants of the stores and ImplementsAnalytics, stated for the        *)
(* consumer, are claimed of the two processes together.                    *)
(***************************************************************************)
EXTENDS Replay, ConsumerProperties

\* Every variable of the replay has its type, and each step of the loop has
\* the message it works on.
ReplayTypeOK ==
    /\ TypeOK
    /\ replayCommitted \in [Partitions -> Nat]
    /\ replayPosition \in [Partitions -> Nat]
    /\ replayResumed \in [Partitions -> Nat]
    /\ rebalanced \in Nat
    /\ replayPc \in {"down", "fetch", "process", "persist", "commit"}
    /\ replayCurrent \in Positions \union {NoMessage}
    /\ processed \in Nat
    /\ replayErrors \in SUBSET Positions
    /\ replays \in Nat
    /\ replayPc \in {"process", "persist", "commit"} => replayCurrent \in Positions
    /\ replayPc \in {"persist", "commit"} => ReplayedMessage \in Events

\* The message has its row of metadata and, if it has weight, its marker.
Rebuilt(m) ==
    /\ m \in metadata
    /\ faults["expiry"] = 0 /\ TTLSeconds(IdempotencyTTL) > 0 /\ Weighted(m)
          => m \in marked

\* What the replay group has committed is in both stores, or the log of a
\* replay names it: also the history of an event whose marker an earlier
\* process has set (PersistEvent follows ProcessEvent whatever its status).
ReplayedIsRebuilt ==
    \A p \in Partitions : \A i \in 1..replayCommitted[p] :
        \/ [part |-> p, off |-> i] \in replayErrors
        \/ Rebuilt(log[p][i])

\* The offsets of its group that the replay has moved over.
OffsetsMoved ==
    UNION {{p} \X (replayResumed[p] + 1 .. replayCommitted[p]) : p \in Partitions}

\* A bounded replay ends after ReplayMaxMessages committed messages. What it has
\* counted as processed is behind the offsets of its group, so that the next
\* replay goes on from there: but for one message at most for each rebalance,
\* which delivers again what is at hand, what was skipped, and what a late
\* commit has moved the offset back to.
ReplayStaysInBounds ==
    /\ ReplayMaxMessages > 0 => processed <= ReplayMaxMessages
    /\ processed <= Cardinality(OffsetsMoved) + rebalanced

-----------------------------------------------------------------------------
(* What the documentation says and the code does not keep.                 *)

\* docs/benchmarking.md:73, "Replay remains safe": the ranking of a repository
\* never exceeds the scores of its published events, each once (the marker has
\* a time to live, the topic a longer one).
ReplayIsSafe ==
    \A r \in Repos : trending[r] <= ScoreSum(OfRepo(Published, r))

\* docs/postgres-analytics.md:55, "Run `make replay` if historical gaps need to
\* be filled": a replay that has read the whole topic leaves no gap in history
\* that it has not itself reported (groupID).
ReplayFillsGaps ==
    (replayPc = "fetch" /\ \A p \in Partitions : replayPosition[p] = Len(log[p])) =>
        \A p \in Partitions : \A i \in 1..Len(log[p]) :
            \/ ~ForHistory(log[p][i])
            \/ log[p][i] \in metadata
            \/ i > replayResumed[p] /\ [part |-> p, off |-> i] \in replayErrors
=============================================================================
