--------------------------- MODULE PgTransactions ---------------------------
(***************************************************************************)
(* Store.PersistEvent statement by statement. Sessions are the callers:    *)
(* persistence workers of the consumer and the loop of the replay, each    *)
(* with the connection pool of its process. Under READ COMMITTED, the      *)
(* default that PersistEvent asks for, a statement sees what is committed, *)
(* and one that meets a row an open transaction has written waits for the  *)
(* end of that transaction. PostgresStore has the same call as one step.   *)
(***************************************************************************)
EXTENDS PostgresStore, Sequences

CONSTANTS Sessions, \* callers of PersistEvent, of all processes
          PoolOf,   \* session -> pool of its process
          PoolSize, \* connections of a pool
          NoEvent   \* what an idle session works on

ASSUME PgAssumption ==
    /\ PoolSize \in Nat \ {0}
    /\ NoEvent \notin Events

VARIABLES call,  \* session -> event of its call
          pc,    \* session -> next statement; "begin" waits for a connection
          wrote, \* session -> statements that left a row version, thus a lock
          draft, \* session -> its versions of the two rows of totals
          told   \* event -> how many calls have returned true

sessionVars == <<call, pc, wrote, draft, told>>

vars == <<postgresVars, sessionVars>>

Statements == {"insert", "window", "snapshot", "summary"}

InTransaction == Statements \union {"commit"}

NoDraft == [snapshot |-> NoRow, summary |-> NoRow]

Init ==
    /\ PostgresInit
    /\ call = [s \in Sessions |-> NoEvent]
    /\ pc = [s \in Sessions |-> "idle"]
    /\ wrote = [s \in Sessions |-> {}]
    /\ draft = [s \in Sessions |-> NoDraft]
    /\ told = [e \in Events |-> 0]

\* The primary keys: both calls write the same row with this statement.
SameRow(stmt, e, f) ==
    /\ stmt = "insert" => e = f
    /\ stmt # "insert" => HourOf[e] = HourOf[f]
    /\ stmt \in {"snapshot", "summary"} => RepoOf[e] = RepoOf[f]

\* The statement meets a row version of an open transaction.
Blocked(s, stmt) ==
    \E t \in Sessions \ {s} :
        stmt \in wrote[t] /\ SameRow(stmt, call[s], call[t])

InUse(pool) ==
    Cardinality({s \in Sessions : PoolOf[s] = pool /\ pc[s] \in InTransaction})

Goto(s, next) == pc' = [pc EXCEPT ![s] = next]

Writes(s, stmt) == wrote' = [wrote EXCEPT ![s] = @ \union {stmt}]

-----------------------------------------------------------------------------

\* PersistEvent up to BeginTx. Any session may have any event: copies of a
\* message, and the same message read by consumer and replay.
Call(s, e) ==
    /\ pc[s] = "idle"
    /\ Complete(e)
    /\ call' = [call EXCEPT ![s] = e]
    /\ Goto(s, "begin")
    /\ UNCHANGED <<postgresVars, wrote, draft, told>>

\* A connection of the pool, and BEGIN.
BeginTx(s) ==
    /\ pc[s] = "begin"
    /\ InUse(PoolOf[s]) < PoolSize
    /\ Goto(s, "insert")
    /\ UNCHANGED <<postgresVars, call, wrote, draft, told>>

\* Mutant of insertProcessedEvent: a SELECT decides, and event_id is no key.
insertUnlessSeen(s) ==
    /\ pc[s] = "insert"
    /\ IF call[s] \in metadata
       THEN Goto(s, "commit") /\ UNCHANGED wrote
       ELSE /\ Writes(s, "insert")
            /\ Goto(s, IF Weighted(call[s]) THEN "window" ELSE "commit")
    /\ UNCHANGED <<postgresVars, call, draft, told>>

\* Mutant of insertProcessedEvent: through the pool, on a second connection.
insertThroughPool(s) ==
    /\ pc[s] = "insert"
    /\ InUse(PoolOf[s]) < PoolSize
    /\ ~Blocked(s, "insert")
    /\ IF call[s] \in metadata
       THEN Goto(s, "commit") /\ UNCHANGED wrote
       ELSE /\ Writes(s, "insert")
            /\ Goto(s, IF Weighted(call[s]) THEN "window" ELSE "commit")
    /\ UNCHANGED <<postgresVars, call, draft, told>>

\* INSERT ... ON CONFLICT DO NOTHING and RowsAffected, and the two early
\* commits of PersistEvent.
insertProcessedEvent(s) ==
    /\ pc[s] = "insert"
    /\ ~Blocked(s, "insert")
    /\ IF call[s] \in metadata
       THEN Goto(s, "commit") /\ UNCHANGED wrote
       ELSE /\ Writes(s, "insert")
            /\ Goto(s, IF Weighted(call[s]) THEN "window" ELSE "commit")
    /\ UNCHANGED <<postgresVars, call, draft, told>>

\* DO UPDATE writes the row also when it exists, and so locks it.
LockWindow(s) ==
    /\ pc[s] = "window"
    /\ ~Blocked(s, "window")
    /\ Writes(s, "window")
    /\ Goto(s, "snapshot")
    /\ UNCHANGED <<postgresVars, call, draft, told>>

\* The committed cell plus the event: the version an upsert leaves.
Upserted(table, e) == Upsert(table, e)[RepoOf[e]][HourOf[e]]

DraftSnapshot(s) ==
    /\ pc[s] = "snapshot"
    /\ ~Blocked(s, "snapshot")
    /\ Writes(s, "snapshot")
    /\ draft' = [draft EXCEPT ![s] = [snapshot |-> Upserted(snapshots, call[s]),
                                      summary  |-> NoRow]]
    /\ Goto(s, "summary")
    /\ UNCHANGED <<postgresVars, call, told>>

\* Mutant of DraftSummary: on the pool, outside the transaction: it commits at
\* once, and a rollback leaves it.
SummaryThroughPool(s) ==
    /\ pc[s] = "summary"
    /\ ~Blocked(s, "summary")
    /\ upsertHourlySummary(call[s])
    /\ Writes(s, "summary")
    /\ draft' = [draft EXCEPT ![s] = [snapshot |-> draft[s].snapshot,
                                      summary  |-> Upserted(summaries, call[s])]]
    /\ Goto(s, "commit")
    /\ UNCHANGED <<metadata, windows, snapshots, call, told>>

DraftSummary(s) ==
    /\ pc[s] = "summary"
    /\ ~Blocked(s, "summary")
    /\ Writes(s, "summary")
    /\ draft' = [draft EXCEPT ![s] = [snapshot |-> draft[s].snapshot,
                                      summary  |-> Upserted(summaries, call[s])]]
    /\ Goto(s, "commit")
    /\ UNCHANGED <<postgresVars, call, told>>

Put(table, e, row) == [table EXCEPT ![RepoOf[e]][HourOf[e]] = row]

\* COMMIT makes the row versions of the transaction the committed ones.
Install(s) ==
    /\ metadata' = IF "insert" \in wrote[s] THEN metadata \union {call[s]}
                                            ELSE metadata
    /\ windows' = IF "window" \in wrote[s] THEN windows \union {HourOf[call[s]]}
                                           ELSE windows
    /\ snapshots' = IF "snapshot" \in wrote[s]
                    THEN Put(snapshots, call[s], draft[s].snapshot)
                    ELSE snapshots
    /\ summaries' = IF "summary" \in wrote[s]
                    THEN Put(summaries, call[s], draft[s].summary)
                    ELSE summaries

\* The transaction is over: its locks are gone, its connection is back.
Return(s) ==
    /\ call' = [call EXCEPT ![s] = NoEvent]
    /\ wrote' = [wrote EXCEPT ![s] = {}]
    /\ draft' = [draft EXCEPT ![s] = NoDraft]
    /\ Goto(s, "idle")

\* Mutant of Commit: inserted is not looked at, true is returned.
CommitAlwaysTrue(s) ==
    /\ pc[s] = "commit"
    /\ Install(s)
    /\ Return(s)
    /\ told' = [told EXCEPT ![call[s]] = @ + 1]

\* Commit, and the answer of PersistEvent: true for the call that inserted.
Commit(s) ==
    /\ pc[s] = "commit"
    /\ Install(s)
    /\ Return(s)
    /\ told' = IF "insert" \in wrote[s]
               THEN [told EXCEPT ![call[s]] = @ + 1] ELSE told

\* The transaction commits, and the answer is lost: PersistEvent fails.
CommitUnanswered(s) ==
    /\ pc[s] = "commit"
    /\ Install(s)
    /\ Return(s)
    /\ UNCHANGED told

\* Mutant of Rollback: no deferred tx.Rollback, so the transaction stays open.
ReturnWithoutRollback(s) ==
    /\ pc[s] # "idle"
    /\ Goto(s, "idle")
    /\ UNCHANGED <<postgresVars, call, wrote, draft, told>>

\* BeginTx, a statement or Commit fails: the deferred Rollback, or PostgreSQL
\* when the connection breaks, ends the transaction.
Rollback(s) ==
    /\ pc[s] # "idle"
    /\ Return(s)
    /\ UNCHANGED <<postgresVars, told>>

-----------------------------------------------------------------------------

Proceed(s) ==
    \/ BeginTx(s)
    \/ insertProcessedEvent(s)
    \/ LockWindow(s)
    \/ DraftSnapshot(s)
    \/ DraftSummary(s)
    \/ Commit(s)

Next ==
    \E s \in Sessions :
        \/ \E e \in Events : Call(s, e)
        \/ Proceed(s)
        \/ CommitUnanswered(s)
        \/ Rollback(s)

Spec == Init /\ [][Next]_vars

\* PostgreSQL and pgxpool serve waiters in the order they came, so a call that
\* can go on again and again does. No failure is assumed to happen.
FairSpec == Spec /\ \A s \in Sessions : SF_vars(Proceed(s))
=============================================================================
