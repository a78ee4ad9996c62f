---------------------------- MODULE HistoryProofs ----------------------------
(***************************************************************************)
(* Facts about the scores and about the historical store, for every set of *)
(* events: what each call preserves. The proofs about the services and     *)
(* about the transactions cite them.                                       *)
(***************************************************************************)
EXTENDS PostgresStore, FiniteSetTheorems, TLAPS

-----------------------------------------------------------------------------
(* Scores.                                                                 *)

\* Every score is one of 0..3 (the switch of scoreForEvent).
LEMMA ScoreRange ==
    ASSUME NEW e
    PROVE  EventScore(e) \in 0..3
BY DEF EventScore, scoreForEvent

\* Sets of events are finite, and so is any part of them that scores.
LEMMA ScoringFinite ==
    ASSUME NEW S \in SUBSET Events, NEW k
    PROVE  /\ IsFiniteSet(Scoring(S, k))
           /\ Cardinality(Scoring(S, k)) \in Nat
<1>1. Scoring(S, k) \subseteq Events
  BY DEF Scoring
<1>2. IsFiniteSet(Scoring(S, k))
  BY <1>1, EventsAssumption, FS_Subset DEF EventsAssumption
<1> QED
  BY <1>2, FS_CardinalityType

\* One more event adds one to every level it reaches.
LEMMA ScoringAdd ==
    ASSUME NEW S \in SUBSET Events, NEW e \in Events, e \notin S, NEW k \in Nat
    PROVE  Cardinality(Scoring(S \union {e}, k)) =
               Cardinality(Scoring(S, k)) + (IF EventScore(e) >= k THEN 1 ELSE 0)
<1>1. CASE EventScore(e) >= k
  <2>1. Scoring(S \union {e}, k) = Scoring(S, k) \union {e}
    BY <1>1 DEF Scoring
  <2>2. e \notin Scoring(S, k)
    BY DEF Scoring
  <2> QED
    BY <1>1, <2>1, <2>2, ScoringFinite, FS_AddElement
<1>2. CASE ~(EventScore(e) >= k)
  <2>1. Scoring(S \union {e}, k) = Scoring(S, k)
    BY <1>2 DEF Scoring
  <2> QED
    BY <1>2, <2>1, ScoringFinite
<1> QED
  BY <1>1, <1>2

\* ScoreSum is the sum of the scores: 0 for no events, and one more event adds
\* its score.
LEMMA ScoreSumEmpty == ScoreSum({}) = 0
<1>1. \A k : Scoring({}, k) = {}
  BY DEF Scoring
<1> QED
  BY <1>1, FS_EmptySet DEF ScoreSum

LEMMA ScoreSumAdd ==
    ASSUME NEW S \in SUBSET Events, NEW e \in Events, e \notin S
    PROVE  /\ ScoreSum(S) \in Nat
           /\ ScoreSum(S \union {e}) = ScoreSum(S) + EventScore(e)
<1>1. \A k \in 1..3 : Cardinality(Scoring(S, k)) \in Nat
  BY ScoringFinite
<1>2. \A k \in 1..3 : Cardinality(Scoring(S \union {e}, k)) =
          Cardinality(Scoring(S, k)) + (IF EventScore(e) >= k THEN 1 ELSE 0)
  BY ScoringAdd
<1> QED
  BY <1>1, <1>2, ScoreRange DEF ScoreSum

-----------------------------------------------------------------------------
(* PostgreSQL.                                                             *)

\* A call of PersistEvent, answered or not, keeps the types of the tables.
LEMMA PersistEventTypes ==
    ASSUME PostgresTypeOK, NEW e \in Events, NEW outcome,
           PersistEvent(e, outcome) \/ PersistEventFaulty(e, outcome)
    PROVE  PostgresTypeOK'
<1>1. CASE UNCHANGED postgresVars
  BY <1>1 DEF PostgresTypeOK, postgresVars
<1>2. CASE Complete(e) /\ PersistTransaction(e)
  <2>1. RepoOf[e] \in Repos /\ HourOf[e] \in Hours /\ EventScore(e) \in Nat
    BY <1>2, EventsAssumption, ScoreRange DEF EventsAssumption, Complete
  <2>2. ASSUME NEW table \in [Repos -> [Hours -> Totals]]
        PROVE  Upsert(table, e) \in [Repos -> [Hours -> Totals]]
    BY <2>1 DEF Upsert, Totals
  <2> QED
    BY <1>2, <2>1, <2>2 DEF PersistTransaction, PostgresTypeOK, postgresVars,
       upsertWindow, upsertRepoSnapshot, upsertHourlySummary
<1> QED
  BY <1>1, <1>2 DEF PersistEvent, PersistEventFaulty

\* Without rows there is nothing to hold.
LEMMA EmptyTotals ==
    ASSUME NEW r, NEW h
    PROVE  ExpectedTotals({}, r, h) = [score |-> 0, count |-> 0]
<1> DEFINE rows == Scoring(OfRepoHour({}, r, h), 1)
<1>1. rows = {}
  BY DEF Scoring, OfRepoHour
<1> HIDE DEF rows
<1>2. ScoreSum(rows) = 0 /\ Cardinality(rows) = 0
  BY <1>1, ScoreSumEmpty, FS_EmptySet
<1>3. [score |-> ScoreSum(rows), count |-> Cardinality(rows)]
          = [score |-> 0, count |-> 0]
  BY <1>2
<1> QED
  BY <1>3, Zenon DEF ExpectedTotals, rows

\* A new row of metadata with weight adds its score and one event to its cell,
\* and to no other (the two upserts of PersistEvent).
LEMMA UpsertTotals ==
    ASSUME NEW S \in SUBSET Events, NEW e \in Events, e \notin S,
           Weighted(e), Complete(e),
           NEW table \in [Repos -> [Hours -> Totals]],
           \A r \in Repos, h \in Hours : table[r][h] = ExpectedTotals(S, r, h)
    PROVE  \A r \in Repos, h \in Hours :
               Upsert(table, e)[r][h] = ExpectedTotals(S \union {e}, r, h)
<1> SUFFICES ASSUME NEW r \in Repos, NEW h \in Hours
             PROVE  Upsert(table, e)[r][h] = ExpectedTotals(S \union {e}, r, h)
  OBVIOUS
<1> DEFINE rows == Scoring(OfRepoHour(S, r, h), 1)
<1>1. rows \in SUBSET Events /\ e \notin rows
  BY DEF Scoring, OfRepoHour
<1>2. EventScore(e) \in Nat /\ EventScore(e) >= 1
  BY ScoreRange DEF Weighted
<1>3. RepoOf[e] \in Repos /\ HourOf[e] \in Hours
  BY EventsAssumption DEF EventsAssumption, Complete
<1>4. IsFiniteSet(rows)
  BY <1>1, EventsAssumption, FS_Subset DEF EventsAssumption
<1>5. CASE RepoOf[e] = r /\ HourOf[e] = h
  <2>1. Scoring(OfRepoHour(S \union {e}, r, h), 1) = rows \union {e}
    BY <1>2, <1>5 DEF Scoring, OfRepoHour
  <2>2. /\ ScoreSum(rows \union {e}) = ScoreSum(rows) + EventScore(e)
        /\ Cardinality(rows \union {e}) = Cardinality(rows) + 1
    BY <1>1, <1>4, ScoreSumAdd, FS_AddElement
  <2>3. Upsert(table, e)[r][h] = [score |-> table[r][h].score + EventScore(e),
                                  count |-> table[r][h].count + 1]
    BY <1>5 DEF Upsert
  <2>4. table[r][h] = [score |-> ScoreSum(rows), count |-> Cardinality(rows)]
    BY DEF ExpectedTotals
  <2>5. ExpectedTotals(S \union {e}, r, h) =
            [score |-> ScoreSum(rows \union {e}),
             count |-> Cardinality(rows \union {e})]
    BY <2>1, Zenon DEF ExpectedTotals
  <2> HIDE DEF rows
  <2>6. /\ table[r][h].score = ScoreSum(rows)
        /\ table[r][h].count = Cardinality(rows)
    BY <2>4
  <2> QED
    BY <2>2, <2>3, <2>5, <2>6, Zenon
<1>6. CASE ~(RepoOf[e] = r /\ HourOf[e] = h)
  <2>1. OfRepoHour(S \union {e}, r, h) = OfRepoHour(S, r, h)
    BY <1>6 DEF OfRepoHour
  <2>2. Upsert(table, e)[r][h] = table[r][h]
    BY <1>3, <1>6 DEF Upsert
  <2> QED
    BY <2>1, <2>2 DEF ExpectedTotals
<1> QED
  BY <1>5, <1>6

\* A row of metadata without weight changes no total.
LEMMA UnweightedTotals ==
    ASSUME NEW S \in SUBSET Events, NEW e \in Events, ~Weighted(e)
    PROVE  /\ \A r, h : ExpectedTotals(S \union {e}, r, h) = ExpectedTotals(S, r, h)
           /\ Scoring(S \union {e}, 1) = Scoring(S, 1)
<1>1. ~(EventScore(e) >= 1)
  BY ScoreRange DEF Weighted
<1>2. Scoring(S \union {e}, 1) = Scoring(S, 1)
  BY <1>1 DEF Scoring
<1>3. \A r, h : Scoring(OfRepoHour(S \union {e}, r, h), 1)
                  = Scoring(OfRepoHour(S, r, h), 1)
  BY <1>1 DEF Scoring, OfRepoHour
<1> QED
  BY <1>2, <1>3 DEF ExpectedTotals

\* The row of metadata and the totals are written by one transaction: however
\* PersistEvent ends, the tables agree afterwards if they did before.
LEMMA PersistEventMatches ==
    ASSUME PostgresTypeOK, SnapshotsMatchMetadata, NEW e \in Events, NEW outcome,
           PersistEvent(e, outcome) \/ PersistEventFaulty(e, outcome)
    PROVE  SnapshotsMatchMetadata'
<1>1. CASE UNCHANGED postgresVars
  BY <1>1 DEF SnapshotsMatchMetadata, postgresVars
<1>2. CASE Complete(e) /\ e \notin metadata /\ ~Weighted(e) /\ PersistTransaction(e)
  <2>1. /\ metadata' = metadata \union {e}
        /\ UNCHANGED <<windows, snapshots, summaries>>
    BY <1>2 DEF PersistTransaction
  <2>2. metadata \in SUBSET Events
    BY DEF PostgresTypeOK
  <2>3. /\ \A r, h : ExpectedTotals(metadata', r, h) = ExpectedTotals(metadata, r, h)
        /\ Scoring(metadata', 1) = Scoring(metadata, 1)
    BY <1>2, <2>1, <2>2, UnweightedTotals
  <2> QED
    BY <2>1, <2>3, Zenon DEF SnapshotsMatchMetadata
<1>3. CASE Complete(e) /\ e \notin metadata /\ Weighted(e) /\ PersistTransaction(e)
  <2>1. /\ metadata' = metadata \union {e}
        /\ windows' = windows \union {HourOf[e]}
        /\ snapshots' = Upsert(snapshots, e)
        /\ summaries' = Upsert(summaries, e)
    BY <1>3 DEF PersistTransaction, upsertWindow, upsertRepoSnapshot,
       upsertHourlySummary
  <2>0. metadata \in SUBSET Events
    BY DEF PostgresTypeOK
  <2>2. Scoring(metadata', 1) = Scoring(metadata, 1) \union {e}
    BY <1>3, <2>1, ScoreRange DEF Scoring, Weighted
  <2>3. windows' = {HourOf[x] : x \in Scoring(metadata', 1)}
    BY <2>1, <2>2 DEF SnapshotsMatchMetadata
  <2>4. \A r \in Repos, h \in Hours :
            snapshots'[r][h] = ExpectedTotals(metadata', r, h)
    <3>1. /\ snapshots \in [Repos -> [Hours -> Totals]]
          /\ \A r \in Repos, h \in Hours :
                 snapshots[r][h] = ExpectedTotals(metadata, r, h)
      BY DEF SnapshotsMatchMetadata, PostgresTypeOK
    <3>2. \A r \in Repos, h \in Hours : Upsert(snapshots, e)[r][h]
              = ExpectedTotals(metadata \union {e}, r, h)
      BY <1>3, <2>0, <3>1, UpsertTotals
    <3> QED
      BY <2>1, <3>2, Zenon
  <2>5. \A r \in Repos, h \in Hours :
            summaries'[r][h] = ExpectedTotals(metadata', r, h)
    <3>1. /\ summaries \in [Repos -> [Hours -> Totals]]
          /\ \A r \in Repos, h \in Hours :
                 summaries[r][h] = ExpectedTotals(metadata, r, h)
      BY DEF SnapshotsMatchMetadata, PostgresTypeOK
    <3>2. \A r \in Repos, h \in Hours : Upsert(summaries, e)[r][h]
              = ExpectedTotals(metadata \union {e}, r, h)
      BY <1>3, <2>0, <3>1, UpsertTotals
    <3> QED
      BY <2>1, <3>2, Zenon
  <2> QED
    BY <2>3, <2>4, <2>5 DEF SnapshotsMatchMetadata
<1> QED
  BY <1>1, <1>2, <1>3 DEF PersistEvent, PersistEventFaulty, PersistTransaction

\* A call of PersistEvent adds at most the row of the event it is called for,
\* only when the event is complete, and removes none.
LEMMA PersistEventRows ==
    ASSUME NEW e \in Events, NEW outcome,
           PersistEvent(e, outcome) \/ PersistEventFaulty(e, outcome)
    PROVE  /\ metadata \subseteq metadata' /\ metadata' \subseteq metadata \union {e}
           /\ outcome \in {"persisted", "known"} => e \in metadata'
BY DEF PersistEvent, PersistEventFaulty, PersistTransaction, postgresVars
=============================================================================
