---------------------------- MODULE PostgresStore ----------------------------
(***************************************************************************)
(* The historical store: the four tables of internal/persistence/store.go  *)
(* and Store.PersistEvent, the only writer. PersistEvent is one database   *)
(* transaction, here one step: nobody sees or depends on what it has       *)
(* written before its commit.                                              *)
(*                                                                         *)
(* A row of a window table that does not exist yet is one with count 0.    *)
(* Columns that are only displayed (ids, urls, logins, time stamps) are    *)
(* left out.                                                               *)
(***************************************************************************)
EXTENDS Events

VARIABLES metadata,  \* processed_event_metadata: ids that have a row
          windows,   \* aggregation_windows: hours that have a row
          snapshots, \* repository_score_snapshots, by repository and hour
          summaries  \* repository_hourly_summaries, by repository and hour

postgresVars == <<metadata, windows, snapshots, summaries>>

Totals == [score : Nat, count : Nat]

NoRow == [score |-> 0, count |-> 0]

PostgresTypeOK ==
    /\ metadata \in SUBSET Events
    /\ windows \in SUBSET Hours
    /\ snapshots \in [Repos -> [Hours -> Totals]]
    /\ summaries \in [Repos -> [Hours -> Totals]]

EmptyTable == [r \in Repos |-> [h \in Hours |-> NoRow]]

\* InitSchema on an empty database.
PostgresInit ==
    /\ metadata = {}
    /\ windows = {}
    /\ snapshots = EmptyTable
    /\ summaries = EmptyTable

\* INSERT ... ON CONFLICT DO UPDATE SET score = score + EXCLUDED.score,
\* event_count = event_count + 1.
Upsert(table, e) ==
    [table EXCEPT ![RepoOf[e]][HourOf[e]] =
        [score |-> @.score + EventScore(e), count |-> @.count + 1]]

upsertRepoSnapshot(e) == snapshots' = Upsert(snapshots, e)

upsertHourlySummary(e) == summaries' = Upsert(summaries, e)

upsertWindow(e) == windows' = windows \union {HourOf[e]}

\* Mutant of PersistTransaction: RowsAffected is not looked at.
PersistIgnoringConflict(e) ==
    /\ metadata' = metadata \union {e}
    /\ IF Weighted(e)
       THEN upsertWindow(e) /\ upsertRepoSnapshot(e) /\ upsertHourlySummary(e)
       ELSE UNCHANGED <<windows, snapshots, summaries>>

\* The committed transaction. A known id changes nothing; an event without
\* weight leaves only its row of metadata.
PersistTransaction(e) ==
    \/ /\ e \in metadata
       /\ UNCHANGED postgresVars
    \/ /\ e \notin metadata
       /\ ~Weighted(e)
       /\ metadata' = metadata \union {e}
       /\ UNCHANGED <<windows, snapshots, summaries>>
    \/ /\ e \notin metadata
       /\ Weighted(e)
       /\ metadata' = metadata \union {e}
       /\ upsertWindow(e)
       /\ upsertRepoSnapshot(e)
       /\ upsertHourlySummary(e)

\* Store.PersistEvent when PostgreSQL answers.
PersistEvent(e, outcome) ==
    \/ /\ ~Complete(e)
       /\ outcome = "error"
       /\ UNCHANGED postgresVars
    \/ /\ Complete(e)
       /\ outcome = IF e \in metadata THEN "known" ELSE "persisted"
       /\ PersistTransaction(e)

\* PersistEvent when the connection or PostgreSQL fails during the call: the
\* transaction is rolled back, or it commits and the answer is lost.
PersistEventFaulty(e, outcome) ==
    /\ Complete(e)
    /\ outcome = "error"
    /\ \/ UNCHANGED postgresVars
       \/ PersistTransaction(e)

-----------------------------------------------------------------------------
\* What a cell of a window table should hold for a set of rows of metadata.
ExpectedTotals(rows, r, h) ==
    [score |-> ScoreSum(Scoring(OfRepoHour(rows, r, h), 1)),
     count |-> Cardinality(Scoring(OfRepoHour(rows, r, h), 1))]

\* The window tables agree with the rows of metadata: for each repository and
\* hour the snapshot and the summary hold the number and the scores of exactly
\* the weighted events with a row, each once, and the hour has its row (the
\* ON CONFLICT clauses of the four statements of PersistEvent), whatever
\* workers, replays and failures did.
SnapshotsMatchMetadata ==
    /\ \A r \in Repos, h \in Hours :
          /\ snapshots[r][h] = ExpectedTotals(metadata, r, h)
          /\ summaries[r][h] = ExpectedTotals(metadata, r, h)
    /\ windows = {HourOf[e] : e \in Scoring(metadata, 1)}
=============================================================================
