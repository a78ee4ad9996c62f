---------------------------- MODULE PgProperties ----------------------------
(***************************************************************************)
(* What callers and readers of the historical store may rely on while      *)
(* transactions overlap.                                                   *)
(***************************************************************************)
EXTENDS PgTransactions, Queries

\* Every variable has its type; only a call has an event, and only a
\* transaction has rows.
PgTypeOK ==
    /\ PostgresTypeOK
    /\ call \in [Sessions -> Events \union {NoEvent}]
    /\ pc \in [Sessions -> InTransaction \union {"idle", "begin"}]
    /\ wrote \in [Sessions -> SUBSET Statements]
    /\ draft \in [Sessions -> [snapshot : Totals, summary : Totals]]
    /\ told \in [Events -> Nat]
    /\ \A s \in Sessions :
          /\ pc[s] = "idle" <=> call[s] = NoEvent
          /\ pc[s] \in {"idle", "begin"} => wrote[s] = {}

\* A call is told true (and RecordPostgresWrite counts a write) at most once
\* per event, whichever sessions try it how often, and only for a row that is
\* there (inserted in PersistEvent).
ToldOnce ==
    \A e \in Events : told[e] = 0 \/ (told[e] = 1 /\ e \in metadata)

\* No deadlock: of the calls that have a connection, one can go on. The
\* statements of PersistEvent take their rows in one order, the connection
\* before them, and nothing else is waited for.
SomeoneCanGoOn ==
    (\E s \in Sessions : pc[s] \in InTransaction) =>
        \E s \in Sessions : /\ pc[s] \in InTransaction
                            /\ ~Blocked(s, pc[s])

\* The three queries of the API tell one story at every moment: the history of
\* a repository adds up to its line in the historical ranking, and the windows
\* account for every weighted row of metadata and show no empty hour.
QueriesAgree ==
    LET limit  == Cardinality(Events)
        ranked == HistoricalTrending(snapshots, limit)
        shown  == AggregationWindows(windows, snapshots, limit)
    IN  /\ \A i \in 1..Len(ranked) :
              LET points == RepoHistory(snapshots, ranked[i].repo, limit)
              IN  /\ ranked[i].score = SumOf([j \in 1..Len(points) |-> points[j].score])
                  /\ ranked[i].count = SumOf([j \in 1..Len(points) |-> points[j].count])
        /\ SumOf([i \in 1..Len(shown) |-> shown[i].events]) =
               Cardinality(Scoring(metadata, 1))
        /\ \A i \in 1..Len(shown) : shown[i].repos > 0

\* PersistEvent as one step.
AtomicStep ==
    \E e \in Events : Complete(e) /\ PersistTransaction(e)

\* Readers cannot tell overlapping transactions from single steps: committed
\* tables change as PostgresStore says, one event at a time.
CallsAreAtomic == PostgresInit /\ [][AtomicStep]_postgresVars

\* Every call returns: whoever waits for a row or a connection gets it.
EveryCallReturns ==
    \A s \in Sessions : pc[s] # "idle" ~> pc[s] = "idle"
=============================================================================
