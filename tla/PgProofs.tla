------------------------------ MODULE PgProofs ------------------------------
(***************************************************************************)
(* Overlapping calls of PersistEvent, for every number of sessions, pools, *)
(* connections and events: they cannot block each other for good, they are *)
(* atomic to readers, whose queries agree, and each row is reported to one *)
(* caller.                                                                 *)
(***************************************************************************)
EXTENDS PgProperties, QueryProofs

\* No two open transactions have written the same row.
Exclusive ==
    \A s, t \in Sessions : \A stmt \in Statements :
        (s # t /\ stmt \in wrote[s] /\ stmt \in wrote[t])
            => ~SameRow(stmt, call[s], call[t])

\* What a session has written, by the place it has come to.
Progress(s) ==
    /\ pc[s] = "idle" => call[s] = NoEvent
    /\ pc[s] # "idle" => call[s] \in Events /\ Complete(call[s])
    /\ pc[s] \in {"idle", "begin", "insert"} => wrote[s] = {}
    /\ pc[s] \in {"window", "snapshot", "summary"} => Weighted(call[s])
    /\ pc[s] = "window" => wrote[s] = {"insert"}
    /\ pc[s] = "snapshot" => wrote[s] = {"insert", "window"}
    /\ pc[s] = "summary" => wrote[s] = {"insert", "window", "snapshot"}
    /\ pc[s] = "commit" =>
          \/ wrote[s] = {} /\ call[s] \in metadata
          \/ wrote[s] = {"insert"} /\ ~Weighted(call[s])
          \/ wrote[s] = Statements /\ Weighted(call[s])

\* A session that has inserted its event is the only one that may, and its
\* row versions are the committed ones plus its event.
Current(s) ==
    /\ "insert" \in wrote[s] => call[s] \notin metadata
    /\ "snapshot" \in wrote[s] =>
          draft[s].snapshot = Upserted(snapshots, call[s])
    /\ "summary" \in wrote[s] =>
          draft[s].summary = Upserted(summaries, call[s])

PgInv ==
    /\ PgTypeOK
    /\ SnapshotsMatchMetadata
    /\ ToldOnce
    /\ Exclusive
    /\ \A s \in Sessions : Progress(s) /\ Current(s)

-----------------------------------------------------------------------------

LEMMA InitPg == Init => PgInv
<1> SUFFICES ASSUME Init PROVE PgInv
  OBVIOUS
<1>1. PostgresTypeOK
  BY DEF Init, PostgresInit, PostgresTypeOK, EmptyTable, NoRow, Totals
<1>2. SnapshotsMatchMetadata
  <2>1. Scoring({}, 1) = {}
    BY DEF Scoring
  <2> QED
    BY <2>1, EmptyTotals
       DEF Init, PostgresInit, SnapshotsMatchMetadata, EmptyTable, NoRow
<1>3. PgTypeOK
  BY <1>1 DEF Init, PgTypeOK, NoDraft, NoRow, Totals, InTransaction
<1>4. ToldOnce /\ Exclusive /\ \A s \in Sessions : Progress(s) /\ Current(s)
  BY DEF Init, ToldOnce, Exclusive, Progress, Current
<1> QED
  BY <1>2, <1>3, <1>4 DEF PgInv

\* A cell with the event added is a pair of totals.
LEMMA UpsertedType ==
    ASSUME NEW table \in [Repos -> [Hours -> Totals]], NEW e \in Events, Complete(e)
    PROVE  /\ RepoOf[e] \in Repos /\ HourOf[e] \in Hours
           /\ Upserted(table, e) \in Totals
           /\ Put(table, e, Upserted(table, e)) = Upsert(table, e)
<1>1. RepoOf[e] \in Repos /\ HourOf[e] \in Hours /\ EventScore(e) \in Nat
  <2>1. RepoOf[e] \in Repos /\ HourOf[e] \in Hours
    BY EventsAssumption DEF EventsAssumption, Complete
  <2>2. EventScore(e) \in Nat
    BY ScoreRange
  <2> QED
    BY <2>1, <2>2
<1>2. table[RepoOf[e]][HourOf[e]] \in Totals
  BY <1>1
<1>3. Upserted(table, e) = [score |-> table[RepoOf[e]][HourOf[e]].score + EventScore(e),
                            count |-> table[RepoOf[e]][HourOf[e]].count + 1]
  BY <1>1 DEF Upserted, Upsert
<1>4. Upserted(table, e) \in Totals
  BY <1>1, <1>2, <1>3 DEF Totals
<1>5. Put(table, e, Upserted(table, e)) = Upsert(table, e)
  BY <1>1, <1>3 DEF Put, Upsert
<1> QED
  BY <1>1, <1>4, <1>5

\* Adding one event to a table leaves the cells of the others alone.
LEMMA UpsertedElsewhere ==
    ASSUME NEW table \in [Repos -> [Hours -> Totals]],
           NEW e \in Events, Complete(e), NEW f \in Events, Complete(f),
           ~(RepoOf[e] = RepoOf[f] /\ HourOf[e] = HourOf[f])
    PROVE  Upserted(Upsert(table, e), f) = Upserted(table, f)
<1>1. /\ RepoOf[e] \in Repos /\ HourOf[e] \in Hours
      /\ RepoOf[f] \in Repos /\ HourOf[f] \in Hours
  BY UpsertedType
<1>2. Upsert(table, e)[RepoOf[f]][HourOf[f]] = table[RepoOf[f]][HourOf[f]]
  BY <1>1 DEF Upsert
<1>3. Upsert(table, e) \in [Repos -> [Hours -> Totals]]
  <2>1. /\ Upserted(table, e) \in Totals
        /\ Upsert(table, e) = Put(table, e, Upserted(table, e))
    BY UpsertedType
  <2>2. Put(table, e, Upserted(table, e)) \in [Repos -> [Hours -> Totals]]
    BY <1>1, <2>1 DEF Put
  <2> QED
    BY <2>1, <2>2
<1> QED
  BY <1>1, <1>2, <1>3 DEF Upserted, Upsert

-----------------------------------------------------------------------------
(* Steps within a transaction.                                             *)

\* What a step of session s may do to what it has not committed.
LEMMA LocalStep ==
    ASSUME PgInv, UNCHANGED <<postgresVars, told>>, NEW s \in Sessions,
           PgTypeOK', Exclusive',
           \A t \in Sessions \ {s} : /\ call'[t] = call[t] /\ pc'[t] = pc[t]
                                     /\ wrote'[t] = wrote[t] /\ draft'[t] = draft[t],
           Progress(s)', Current(s)'
    PROVE  PgInv'
<1>1. SnapshotsMatchMetadata' /\ ToldOnce'
  BY DEF PgInv, SnapshotsMatchMetadata, ToldOnce, postgresVars
<1>2. ASSUME NEW t \in Sessions \ {s} PROVE Progress(t)' /\ Current(t)'
  <2>1. Progress(t) /\ Current(t)
    BY DEF PgInv
  <2>2. Progress(t)'
    BY <2>1 DEF Progress, postgresVars
  <2>3. Current(t)'
    BY <2>1 DEF Current, postgresVars, Upserted, Upsert
  <2> QED
    BY <2>2, <2>3
<1> QED
  BY <1>1, <1>2 DEF PgInv

LEMMA CallInv ==
    ASSUME PgInv, NEW s \in Sessions, NEW e \in Events, Call(s, e)
    PROVE  PgInv'
<1>1. PgTypeOK /\ wrote[s] = {} /\ Exclusive
  BY DEF PgInv, Progress, Call
<1>2. PgTypeOK'
  BY <1>1, PgAssumption DEF PgAssumption, PgTypeOK, Call, Goto, InTransaction, postgresVars, PostgresTypeOK
<1>3. Exclusive'
  BY <1>1 DEF Exclusive, Call, PgTypeOK, SameRow
<1>4. Progress(s)' /\ Current(s)'
  BY <1>1 DEF Progress, Current, Call, Goto, PgTypeOK
<1> QED
  BY <1>1, <1>2, <1>3, <1>4, LocalStep DEF Call, Goto, PgTypeOK

LEMMA BeginTxInv ==
    ASSUME PgInv, NEW s \in Sessions, BeginTx(s)
    PROVE  PgInv'
<1>1. PgTypeOK /\ Exclusive /\ Progress(s) /\ Current(s)
  BY DEF PgInv
<1>2. PgTypeOK'
  BY <1>1 DEF PgTypeOK, BeginTx, Goto, InTransaction, Statements, postgresVars,
              PostgresTypeOK
<1>3. Exclusive'
  BY <1>1 DEF Exclusive, BeginTx
<1>4. Progress(s)' /\ Current(s)'
  BY <1>1 DEF Progress, Current, BeginTx, Goto, PgTypeOK
<1> QED
  BY <1>1, <1>2, <1>3, <1>4, LocalStep DEF BeginTx, Goto, PgTypeOK

\* A statement that did not have to wait keeps rows exclusive.
LEMMA WritesExclusive ==
    ASSUME PgInv, NEW s \in Sessions, NEW stmt \in Statements,
           ~Blocked(s, stmt), Writes(s, stmt), UNCHANGED call
    PROVE  Exclusive'
<1>1. Exclusive /\ wrote \in [Sessions -> SUBSET Statements]
  BY DEF PgInv, PgTypeOK
<1>2. \A t \in Sessions \ {s} : stmt \in wrote[t] =>
          /\ ~SameRow(stmt, call[s], call[t])
          /\ ~SameRow(stmt, call[t], call[s])
  BY DEF Blocked, SameRow
<1>3. SUFFICES ASSUME NEW x \in Sessions, NEW y \in Sessions, NEW st \in Statements,
                      x # y, st \in wrote'[x], st \in wrote'[y]
               PROVE  ~SameRow(st, call[x], call[y])
  BY DEF Exclusive, SameRow
<1>4. \A x1 \in Sessions \ {s} : wrote'[x1] = wrote[x1]
  BY <1>1 DEF Writes
<1>5. wrote'[s] = wrote[s] \union {stmt}
  BY <1>1 DEF Writes
<1> QED
  BY <1>1, <1>2, <1>3, <1>4, <1>5 DEF Exclusive

LEMMA InsertInv ==
    ASSUME PgInv, NEW s \in Sessions, insertProcessedEvent(s)
    PROVE  PgInv'
<1>1. /\ PgTypeOK /\ Exclusive /\ Progress(s) /\ Current(s)
      /\ pc[s] = "insert" /\ wrote[s] = {}
  BY DEF PgInv, insertProcessedEvent, Progress
<1>2. PgTypeOK'
  <2>1. wrote' \in [Sessions -> SUBSET Statements]
    BY <1>1 DEF PgTypeOK, insertProcessedEvent, Writes, Statements
  <2>2. /\ pc' \in [Sessions -> InTransaction \union {"idle", "begin"}]
        /\ \A t \in Sessions \ {s} : pc'[t] = pc[t] /\ wrote'[t] = wrote[t]
        /\ pc'[s] \in InTransaction
    BY <1>1 DEF PgTypeOK, insertProcessedEvent, Goto, Writes, InTransaction, Statements
  <2>3. PostgresTypeOK' /\ UNCHANGED <<call, draft, told>>
    BY <1>1 DEF PgTypeOK, insertProcessedEvent, postgresVars, PostgresTypeOK
  <2> QED
    BY <1>1, <2>1, <2>2, <2>3 DEF PgTypeOK, InTransaction, Statements
<1>3. Exclusive'
  <2>1. CASE call[s] \in metadata
    BY <1>1, <2>1 DEF Exclusive, insertProcessedEvent
  <2>2. CASE call[s] \notin metadata
    BY <2>2, WritesExclusive DEF insertProcessedEvent, Statements
  <2> QED
    BY <2>1, <2>2
<1>4. Progress(s)' /\ Current(s)'
  BY <1>1 DEF Progress, Current, insertProcessedEvent, Goto, Writes, PgTypeOK,
              postgresVars
<1> QED
  BY <1>1, <1>2, <1>3, <1>4, LocalStep DEF insertProcessedEvent, Goto, Writes, PgTypeOK

LEMMA LockWindowInv ==
    ASSUME PgInv, NEW s \in Sessions, LockWindow(s)
    PROVE  PgInv'
<1>1. PgTypeOK /\ Progress(s) /\ Current(s) /\ pc[s] = "window"
  BY DEF PgInv, LockWindow
<1>2. PgTypeOK'
  BY <1>1 DEF PgTypeOK, LockWindow, Goto, Writes, InTransaction, Statements,
              postgresVars, PostgresTypeOK
<1>3. Exclusive'
  BY WritesExclusive DEF LockWindow, Statements
<1>4. Progress(s)' /\ Current(s)'
  BY <1>1 DEF Progress, Current, LockWindow, Goto, Writes, PgTypeOK, postgresVars
<1> QED
  BY <1>1, <1>2, <1>3, <1>4, LocalStep DEF LockWindow, Goto, Writes, PgTypeOK

LEMMA DraftSnapshotInv ==
    ASSUME PgInv, NEW s \in Sessions, DraftSnapshot(s)
    PROVE  PgInv'
<1>1. PgTypeOK /\ Progress(s) /\ Current(s) /\ pc[s] = "snapshot"
  BY DEF PgInv, DraftSnapshot
<1>2. Upserted(snapshots, call[s]) \in Totals
  BY <1>1, UpsertedType DEF Progress, PgTypeOK, PostgresTypeOK
<1>3. PgTypeOK'
  <2>1. draft' \in [Sessions -> [snapshot : Totals, summary : Totals]]
    BY <1>1, <1>2 DEF PgTypeOK, DraftSnapshot, NoRow, Totals
  <2> QED
    BY <1>1, <2>1 DEF PgTypeOK, DraftSnapshot, Goto, Writes, InTransaction,
                      Statements, postgresVars, PostgresTypeOK
<1>4. Exclusive'
  BY WritesExclusive DEF DraftSnapshot, Statements
<1>5. Progress(s)'
  BY <1>1 DEF Progress, DraftSnapshot, Goto, Writes, PgTypeOK
<1>6. Current(s)'
  BY <1>1 DEF Progress, Current, DraftSnapshot, Writes, PgTypeOK, postgresVars,
              Upserted, Upsert
<1> QED
  BY <1>1, <1>3, <1>4, <1>5, <1>6, LocalStep DEF DraftSnapshot, Goto, Writes, PgTypeOK

LEMMA DraftSummaryInv ==
    ASSUME PgInv, NEW s \in Sessions, DraftSummary(s)
    PROVE  PgInv'
<1>1. PgTypeOK /\ Progress(s) /\ Current(s) /\ pc[s] = "summary"
  BY DEF PgInv, DraftSummary
<1>2. Upserted(summaries, call[s]) \in Totals
  BY <1>1, UpsertedType DEF Progress, PgTypeOK, PostgresTypeOK
<1>3. PgTypeOK'
  BY <1>1, <1>2 DEF PgTypeOK, DraftSummary, Goto, Writes, InTransaction, Statements,
                    postgresVars, PostgresTypeOK
<1>4. Exclusive'
  BY WritesExclusive DEF DraftSummary, Statements
<1>5. Progress(s)'
  BY <1>1 DEF Progress, DraftSummary, Goto, Writes, PgTypeOK, Statements
<1>6. Current(s)'
  BY <1>1 DEF Progress, Current, DraftSummary, Writes, PgTypeOK, postgresVars,
              Upserted, Upsert
<1> QED
  BY <1>1, <1>3, <1>4, <1>5, <1>6, LocalStep DEF DraftSummary, Goto, Writes, PgTypeOK

LEMMA RollbackInv ==
    ASSUME PgInv, NEW s \in Sessions, Rollback(s)
    PROVE  PgInv'
<1>1. PgTypeOK /\ Exclusive
  BY DEF PgInv
<1>2. /\ call' = [call EXCEPT ![s] = NoEvent] /\ pc' = [pc EXCEPT ![s] = "idle"]
      /\ wrote' = [wrote EXCEPT ![s] = {}] /\ draft' = [draft EXCEPT ![s] = NoDraft]
      /\ UNCHANGED <<postgresVars, told>>
  BY DEF Rollback, Return, Goto
<1>3. PgTypeOK'
  <2>1. NoDraft \in [snapshot : Totals, summary : Totals]
    BY DEF NoDraft, NoRow, Totals
  <2> QED
    BY <1>1, <1>2, <2>1, PgAssumption
       DEF PgTypeOK, postgresVars, PostgresTypeOK, InTransaction, PgAssumption
<1>4. Exclusive'
  BY <1>1, <1>2 DEF Exclusive, PgTypeOK, SameRow
<1>5. Progress(s)' /\ Current(s)'
  BY <1>1, <1>2 DEF Progress, Current, PgTypeOK
<1> QED
  BY <1>1, <1>2, <1>3, <1>4, <1>5, LocalStep DEF PgTypeOK

-----------------------------------------------------------------------------
(* The commit.                                                             *)

\* What COMMIT installs is what PostgresStore does in one step.
LEMMA InstallStep ==
    ASSUME PgInv, NEW s \in Sessions, pc[s] = "commit", Install(s)
    PROVE  /\ call[s] \in Events /\ Complete(call[s])
           /\ PersistTransaction(call[s])
           /\ wrote[s] = {} => UNCHANGED postgresVars
           /\ wrote[s] # {} => "insert" \in wrote[s]
           /\ "snapshot" \in wrote[s] <=> "summary" \in wrote[s]
           /\ IF "snapshot" \in wrote[s]
              THEN /\ snapshots' = Upsert(snapshots, call[s])
                   /\ summaries' = Upsert(summaries, call[s])
              ELSE UNCHANGED <<snapshots, summaries>>
<1>1. PgTypeOK /\ Progress(s) /\ Current(s) /\ call[s] \in Events /\ Complete(call[s])
  BY DEF PgInv, Progress
<1>2. CASE wrote[s] = {} /\ call[s] \in metadata
  BY <1>1, <1>2 DEF Install, PersistTransaction, postgresVars
<1>3. CASE wrote[s] = {"insert"} /\ ~Weighted(call[s])
  BY <1>1, <1>3 DEF Install, PersistTransaction, Current
<1>4. CASE wrote[s] = Statements /\ Weighted(call[s])
  <2>1. /\ snapshots' = Put(snapshots, call[s], Upserted(snapshots, call[s]))
        /\ summaries' = Put(summaries, call[s], Upserted(summaries, call[s]))
        /\ metadata' = metadata \union {call[s]}
        /\ windows' = windows \union {HourOf[call[s]]}
        /\ call[s] \notin metadata
    BY <1>1, <1>4 DEF Install, Statements, Current
  <2>2. /\ snapshots' = Upsert(snapshots, call[s])
        /\ summaries' = Upsert(summaries, call[s])
    BY <1>1, <2>1, UpsertedType DEF PgTypeOK, PostgresTypeOK
  <2> QED
    BY <1>1, <1>4, <2>1, <2>2
       DEF PersistTransaction, upsertWindow, upsertRepoSnapshot, upsertHourlySummary,
           Statements
<1> QED
  BY <1>1, <1>2, <1>3, <1>4 DEF Progress

\* The other sessions do not notice.
LEMMA OthersStayCurrent ==
    ASSUME PgInv, NEW s \in Sessions, pc[s] = "commit", Install(s), Return(s),
           NEW t \in Sessions, s # t
    PROVE  Progress(t)' /\ Current(t)'
<1>1. PgTypeOK /\ Exclusive /\ Progress(t) /\ Current(t)
  BY DEF PgInv
<1>2. /\ call'[t] = call[t] /\ pc'[t] = pc[t]
      /\ wrote'[t] = wrote[t] /\ draft'[t] = draft[t]
  BY <1>1 DEF Return, Goto, PgTypeOK
<1>3. /\ metadata \subseteq metadata'
      /\ "insert" \in wrote[s] => metadata' = metadata \union {call[s]}
      /\ "insert" \notin wrote[s] => metadata' = metadata
  BY DEF Install
<1>4. Progress(t)'
  BY <1>1, <1>2, <1>3 DEF Progress
<1>5. "insert" \in wrote[t] => call[t] \notin metadata'
  BY <1>1, <1>3 DEF Current, Exclusive, SameRow, Statements
<1>6. (call[t] \in Events /\ Complete(call[t])) \/ wrote[t] = {}
  BY <1>1 DEF Progress
<1>7. ASSUME "snapshot" \in wrote[t]
      PROVE  Upserted(snapshots', call[t]) = Upserted(snapshots, call[t])
  <2>1. CASE "snapshot" \in wrote[s]
    <3>1. ~(RepoOf[call[s]] = RepoOf[call[t]] /\ HourOf[call[s]] = HourOf[call[t]])
      BY <1>1, <1>7, <2>1 DEF Exclusive, SameRow, Statements
    <3> QED
      BY <1>1, <1>6, <1>7, <2>1, <3>1, InstallStep, UpsertedElsewhere
         DEF PgTypeOK, PostgresTypeOK
  <2>2. CASE "snapshot" \notin wrote[s]
    BY <2>2, InstallStep
  <2> QED
    BY <2>1, <2>2
<1>8. ASSUME "summary" \in wrote[t]
      PROVE  Upserted(summaries', call[t]) = Upserted(summaries, call[t])
  <2>1. CASE "summary" \in wrote[s]
    <3>1. ~(RepoOf[call[s]] = RepoOf[call[t]] /\ HourOf[call[s]] = HourOf[call[t]])
      BY <1>1, <1>8, <2>1 DEF Exclusive, SameRow, Statements
    <3> QED
      BY <1>1, <1>6, <1>8, <2>1, <3>1, InstallStep, UpsertedElsewhere
         DEF PgTypeOK, PostgresTypeOK
  <2>2. CASE "summary" \notin wrote[s]
    BY <2>2, InstallStep
  <2> QED
    BY <2>1, <2>2
<1>9. Current(t)'
  BY <1>1, <1>2, <1>5, <1>7, <1>8 DEF Current
<1> QED
  BY <1>4, <1>9

\* A commit, answered or not, keeps the invariant.
LEMMA CommitInv ==
    ASSUME PgInv, NEW s \in Sessions, Commit(s) \/ CommitUnanswered(s)
    PROVE  PgInv'
<1>1. /\ PgTypeOK /\ ToldOnce /\ Exclusive /\ Current(s) /\ SnapshotsMatchMetadata
      /\ pc[s] = "commit" /\ Install(s) /\ Return(s)
  BY DEF PgInv, Commit, CommitUnanswered
<1>2. /\ call[s] \in Events
      /\ PersistEventFaulty(call[s], "error")
  BY <1>1, InstallStep DEF PersistEventFaulty
<1>3. PostgresTypeOK' /\ SnapshotsMatchMetadata'
  BY <1>1, <1>2, PersistEventTypes, PersistEventMatches DEF PgTypeOK
<1>4. /\ metadata \subseteq metadata'
      /\ "insert" \in wrote[s] => call[s] \in metadata'
  BY <1>1 DEF Install
<1>5. /\ told' \in [Events -> Nat]
      /\ \A e \in Events : \/ told'[e] = told[e]
                           \/ /\ e = call[s] /\ "insert" \in wrote[s]
                              /\ told'[e] = told[e] + 1
  BY <1>1, <1>2 DEF PgTypeOK, Commit, CommitUnanswered
<1>6. ToldOnce'
  BY <1>1, <1>4, <1>5 DEF ToldOnce, Current
<1>7. PgTypeOK'
  <2>1. NoDraft \in [snapshot : Totals, summary : Totals]
    BY DEF NoDraft, NoRow, Totals
  <2> QED
    BY <1>1, <1>3, <1>5, <2>1, PgAssumption
       DEF PgTypeOK, Return, Goto, InTransaction, PgAssumption
<1>8. Exclusive'
  BY <1>1 DEF Exclusive, Return, PgTypeOK, SameRow
<1>9. Progress(s)' /\ Current(s)'
  BY <1>1 DEF Progress, Current, Return, Goto, PgTypeOK
<1>10. \A t \in Sessions : t # s => Progress(t)' /\ Current(t)'
  BY <1>1, OthersStayCurrent
<1> QED
  BY <1>3, <1>6, <1>7, <1>8, <1>9, <1>10 DEF PgInv

-----------------------------------------------------------------------------

LEMMA PgStep == PgInv /\ [Next]_vars => PgInv'
<1> SUFFICES ASSUME PgInv, [Next]_vars PROVE PgInv'
  OBVIOUS
<1>1. CASE UNCHANGED vars
  BY <1>1 DEF PgInv, PgTypeOK, PostgresTypeOK, SnapshotsMatchMetadata, ToldOnce, Exclusive,
     Progress, Current, Upserted, Upsert, vars, sessionVars, postgresVars
<1>2. CASE Next
  <2>1. PICK s \in Sessions : \/ \E e \in Events : Call(s, e)
                              \/ Proceed(s)
                              \/ CommitUnanswered(s)
                              \/ Rollback(s)
    BY <1>2 DEF Next
  <2> QED
    BY <2>1, CallInv, BeginTxInv, InsertInv, LockWindowInv, DraftSnapshotInv,
       DraftSummaryInv, CommitInv, RollbackInv DEF Proceed
<1> QED
  BY <1>1, <1>2

\* While transactions overlap, fail and lose their answers: rows are exclusive,
\* drafts are current, and the tables match.
THEOREM PgInvariant == Spec => []PgInv
<1> QED
  BY InitPg, PgStep, PTL DEF Spec

\* Every variable keeps its type, and rows belong to open transactions.
THEOREM PgTypeCorrectness == Spec => []PgTypeOK
<1>1. PgInv => PgTypeOK
  BY DEF PgInv
<1> QED
  BY <1>1, PgInvariant, PTL

\* Snapshots, summaries and windows add up to the rows of metadata however the
\* statements of PersistEvent interleave.
THEOREM OverlapKeepsHistory == Spec => []SnapshotsMatchMetadata
<1>1. PgInv => SnapshotsMatchMetadata
  BY DEF PgInv
<1> QED
  BY <1>1, PgInvariant, PTL

\* PersistEvent returns true at most once per event.
THEOREM RowsToldOnce == Spec => []ToldOnce
<1>1. PgInv => ToldOnce
  BY DEF PgInv
<1> QED
  BY <1>1, PgInvariant, PTL

\* The session that has come furthest does not wait.
LEMMA FurthestGoesOn == PgInv => SomeoneCanGoOn
<1> SUFFICES ASSUME PgInv, NEW s0 \in Sessions, pc[s0] \in InTransaction
             PROVE  \E s \in Sessions : pc[s] \in InTransaction /\ ~Blocked(s, pc[s])
  BY DEF SomeoneCanGoOn
<1>1. \A t \in Sessions : Progress(t)
  BY DEF PgInv
<1>2. \A t \in Sessions :
          /\ "summary" \in wrote[t] => pc[t] = "commit"
          /\ "snapshot" \in wrote[t] => pc[t] \in {"summary", "commit"}
          /\ "window" \in wrote[t] => pc[t] \in {"snapshot", "summary", "commit"}
          /\ "insert" \in wrote[t] => pc[t] \in {"window", "snapshot", "summary", "commit"}
          /\ "commit" \notin wrote[t]
  <2> SUFFICES ASSUME NEW t \in Sessions
               PROVE  /\ "summary" \in wrote[t] => pc[t] = "commit"
                      /\ "snapshot" \in wrote[t] => pc[t] \in {"summary", "commit"}
                      /\ "window" \in wrote[t] =>
                            pc[t] \in {"snapshot", "summary", "commit"}
                      /\ "insert" \in wrote[t] =>
                            pc[t] \in {"window", "snapshot", "summary", "commit"}
                      /\ "commit" \notin wrote[t]
    OBVIOUS
  <2>1. pc[t] \in {"idle", "begin", "insert", "window", "snapshot", "summary", "commit"}
        /\ wrote[t] \subseteq Statements
    BY DEF PgInv, PgTypeOK, InTransaction, Statements
  <2> QED
    BY <1>1, <2>1 DEF Progress, Statements
<1>3. CASE \E s \in Sessions : pc[s] = "commit"
  BY <1>2, <1>3 DEF Blocked, InTransaction
<1>4. CASE \E s \in Sessions : pc[s] = "summary"
  BY <1>2, <1>3, <1>4 DEF Blocked, InTransaction, Statements
<1>5. CASE \E s \in Sessions : pc[s] = "snapshot"
  BY <1>2, <1>3, <1>4, <1>5 DEF Blocked, InTransaction, Statements
<1>6. CASE \E s \in Sessions : pc[s] = "window"
  BY <1>2, <1>3, <1>4, <1>5, <1>6 DEF Blocked, InTransaction, Statements
<1>7. CASE pc[s0] = "insert"
  BY <1>2, <1>3, <1>4, <1>5, <1>6, <1>7 DEF Blocked, InTransaction, Statements
<1> QED
  BY <1>3, <1>4, <1>5, <1>6, <1>7 DEF InTransaction, Statements

\* Whatever rows the open transactions want, one of them can go on.
THEOREM NoDeadlock == Spec => []SomeoneCanGoOn
<1> QED
  BY FurthestGoesOn, PgInvariant, PTL

-----------------------------------------------------------------------------
(* What readers see.                                                       *)

\* Of all steps only a commit changes the tables, as PersistEvent would.
LEMMA StepIsAtomic == PgInv /\ [Next]_vars => [AtomicStep]_postgresVars
<1> SUFFICES ASSUME PgInv, [Next]_vars PROVE [AtomicStep]_postgresVars
  OBVIOUS
<1>1. CASE \E s \in Sessions : Commit(s) \/ CommitUnanswered(s)
  BY <1>1, InstallStep DEF Commit, CommitUnanswered, AtomicStep
<1>2. CASE UNCHANGED vars
  BY <1>2 DEF vars
<1>3. CASE Next /\ ~(\E s \in Sessions : Commit(s) \/ CommitUnanswered(s))
  BY <1>3 DEF Next, Proceed, Call, BeginTx, insertProcessedEvent, LockWindow,
     DraftSnapshot, DraftSummary, Rollback
<1> QED
  BY <1>1, <1>2, <1>3

\* Readers see each call of PersistEvent happen at once, or not at all.
THEOREM TransactionsAreAtomic == Spec => CallsAreAtomic
<1>1. Init => PostgresInit
  BY DEF Init
<1> QED
  BY <1>1, StepIsAtomic, PgInvariant, PTL DEF Spec, CallsAreAtomic

\* PersistEvent leaves no row for an event without an id or a repository.
RowsComplete == \A e \in metadata : Complete(e)

LEMMA RowsCompleteStep == PgInv /\ RowsComplete /\ [Next]_vars => RowsComplete'
<1> SUFFICES ASSUME PgInv, RowsComplete, [Next]_vars PROVE RowsComplete'
  OBVIOUS
<1>1. [AtomicStep]_postgresVars
  BY StepIsAtomic
<1>2. CASE UNCHANGED postgresVars
  BY <1>2 DEF RowsComplete, Complete, postgresVars
<1>3. CASE AtomicStep
  BY <1>3 DEF AtomicStep, PersistTransaction, RowsComplete, Complete, postgresVars
<1> QED
  BY <1>1, <1>2, <1>3

\* The queries read sums of the same rows.
LEMMA QueriesCompared ==
    ASSUME PostgresTypeOK, SnapshotsMatchMetadata, RowsComplete
    PROVE  QueriesAgree
<1> DEFINE limit  == Cardinality(Events)
           ranked == HistoricalTrending(snapshots, limit)
           points(r) == RepoHistory(snapshots, r, limit)
           shown  == AggregationWindows(windows, snapshots, limit)
<1>1. /\ metadata \in SUBSET Events
      /\ \A e \in metadata : Complete(e)
      /\ \A r \in Repos, h \in Hours : snapshots[r][h] = ExpectedTotals(metadata, r, h)
      /\ windows = {HourOf[e] : e \in Scoring(metadata, 1)}
      /\ limit \in Nat
  BY EventsAssumption, FS_CardinalityType
     DEF PostgresTypeOK, SnapshotsMatchMetadata, RowsComplete, EventsAssumption
<1>2. EventsAddUp(shown, metadata)
  BY <1>1, WindowsAddUp
<1>3. LinesAddUp(ranked, metadata)
  BY <1>1, RankingAddsUp
<1>4. \A r \in Repos : PointsAddUp(points(r), metadata, r)
  <2> TAKE r \in Repos
  <2>1. \A h \in Hours : snapshots[r][h] = ExpectedTotals(metadata, r, h)
    BY <1>1
  <2> QED
    BY <1>1, <2>1, HistoryAddsUp
<1> HIDE DEF ranked, points, shown
<1>5. ASSUME NEW i \in 1..Len(ranked)
      PROVE  LET line == points(ranked[i].repo)
             IN  /\ ranked[i].score = SumOf([j \in 1..Len(line) |-> line[j].score])
                 /\ ranked[i].count = SumOf([j \in 1..Len(line) |-> line[j].count])
  <2>1. ranked[i].repo \in Repos
    BY <1>3 DEF LinesAddUp
  <2> QED
    BY <1>3, <1>4, <2>1, Zenon DEF LinesAddUp, PointsAddUp
<1>6. /\ SumOf([i \in 1..Len(shown) |-> shown[i].events]) =
             Cardinality(Scoring(metadata, 1))
      /\ \A i \in 1..Len(shown) : shown[i].repos > 0
  BY <1>2, Zenon DEF EventsAddUp
<1> QED
  BY <1>5, <1>6, Zenon DEF QueriesAgree, ranked, points, shown

\* However the transactions overlap and fail, the pages of the three historical
\* queries tell one story at every moment.
THEOREM ReadersSeeOneStory == Spec => []QueriesAgree
<1>1. Init => RowsComplete
  BY DEF Init, PostgresInit, RowsComplete
<1>2. PgInv /\ RowsComplete => QueriesAgree
  BY QueriesCompared DEF PgInv, PgTypeOK
<1> QED
  BY <1>1, <1>2, RowsCompleteStep, PgInvariant, PTL DEF Spec
=============================================================================
