----------------------------- MODULE RedisStore -----------------------------
(***************************************************************************)
(* The realtime store: the Redis keys the Lua script of                    *)
(* internal/consumer/store.go writes, and Store.ProcessEvent, the only     *)
(* writer. Redis runs a script without interleaving any other command, so  *)
(* its effect is one step; the reply may still be lost on the way back.    *)
(*                                                                         *)
(* The hash github_pulse:repos:metadata is left out: the script overwrites *)
(* one field and nothing in the repository reads it.                       *)
(***************************************************************************)
EXTENDS Events, Sequences

CONSTANTS IdempotencyTTL,   \* IDEMPOTENCY_TTL, in milliseconds
          WindowTTL,        \* TRENDING_WINDOW_TTL, in milliseconds
          RecentEventsLimit \* recentEventsLimit: 100 in the code

\* Config.Validate accepts every positive duration, also below a second.
ASSUME RedisAssumption ==
    /\ IdempotencyTTL \in Nat \ {0}
    /\ WindowTTL \in Nat \ {0}
    /\ RecentEventsLimit \in Nat \ {0}

VARIABLES marked,       \* ids that have a github_pulse:events:processed:<id>
          trending,     \* sorted set github_pulse:trending:repos
          windowScores, \* one sorted set per window
          recent        \* list github_pulse:events:recent, newest first

redisVars == <<marked, trending, windowScores, recent>>

EmptyWindow == [r \in Repos |-> 0]

RedisTypeOK ==
    /\ marked \in SUBSET Events
    /\ trending \in [Repos -> Nat]
    /\ windowScores \in [Windows -> [Repos -> Nat]]
    /\ recent \in Seq(Events)

RedisInit ==
    /\ marked = {}
    /\ trending = [r \in Repos |-> 0]
    /\ windowScores = [w \in Windows |-> EmptyWindow]
    /\ recent = <<>>

\* int(ttl.Seconds()): the expiry Redis is given, truncated to seconds.
TTLSeconds(ttl) == ttl \div 1000

\* LPUSH then LTRIM 0 limit-1.
PushRecent(e) ==
    LET pushed == <<e>> \o recent
    IN  IF Len(pushed) > RecentEventsLimit
        THEN SubSeq(pushed, 1, RecentEventsLimit)
        ELSE pushed

ZINCRBY(zset, score, member) == [zset EXCEPT ![member] = @ + score]

\* The script for an id without a marker. EXPIRE with 0 seconds deletes the
\* window. SET with EX 0 raises an error: the script ends there, and Redis
\* does not undo the increments before it.
Aggregate(e) ==
    /\ trending' = ZINCRBY(trending, EventScore(e), RepoOf[e])
    /\ windowScores' =
         [windowScores EXCEPT ![WindowOf[e]] =
             IF TTLSeconds(WindowTTL) > 0
             THEN ZINCRBY(windowScores[WindowOf[e]], EventScore(e), RepoOf[e])
             ELSE EmptyWindow]
    /\ IF TTLSeconds(IdempotencyTTL) > 0
       THEN /\ marked' = marked \union {e}
            /\ recent' = PushRecent(e)
       ELSE UNCHANGED <<marked, recent>>

\* Mutant of aggregateEventScript: no EXISTS before the increments.
aggregateWithoutExists(e, status) == status = "processed" /\ Aggregate(e)

\* One run of the script and the answer it gives.
aggregateEventScript(e, status) ==
    \/ /\ e \in marked
       /\ status = "duplicate"
       /\ UNCHANGED redisVars
    \/ /\ e \notin marked
       /\ status = IF TTLSeconds(IdempotencyTTL) > 0 THEN "processed" ELSE "error"
       /\ Aggregate(e)

\* Store.ProcessEvent when Redis is reachable. The score is looked at before
\* the id and the repository are.
ProcessEvent(e, status) ==
    \/ /\ ~Weighted(e)
       /\ status = "ignored"
       /\ UNCHANGED redisVars
    \/ /\ Weighted(e) /\ ~Complete(e)
       /\ status = "invalid"
       /\ UNCHANGED redisVars
    \/ /\ Weighted(e) /\ Complete(e)
       /\ aggregateEventScript(e, status)

\* ProcessEvent when the network or Redis fails during the call: the request
\* never arrives; or the script runs and its reply is lost, and then either
\* the client gives up with an error or its retry finds the marker the first
\* run has set.
ProcessEventFaulty(e, status) ==
    /\ Weighted(e) /\ Complete(e)
    /\ \/ status = "error" /\ UNCHANGED redisVars
       \/ /\ e \notin marked
          /\ status \in IF TTLSeconds(IdempotencyTTL) > 0
                        THEN {"error", "duplicate"} ELSE {"error"}
          /\ Aggregate(e)

\* Redis drops a marker whose time to live has passed.
MarkerExpires(e) ==
    /\ e \in marked
    /\ marked' = marked \ {e}
    /\ UNCHANGED <<trending, windowScores, recent>>

\* Redis drops a window whose time to live has passed.
WindowExpires(w) ==
    /\ windowScores[w] # EmptyWindow
    /\ windowScores' = [windowScores EXCEPT ![w] = EmptyWindow]
    /\ UNCHANGED <<marked, trending, recent>>

-----------------------------------------------------------------------------
\* The ranking of each repository is the sum of the scores of its events that
\* have a marker, each once.
RankingIsSum ==
    \A r \in Repos : trending[r] = ScoreSum(OfRepo(marked, r))
=============================================================================
