------------------------------- MODULE Events -------------------------------
(***************************************************************************)
(* The normalized GitHub events that travel through the pipeline, reduced  *)
(* to what the consumers tell apart: the event id (an element of Events),  *)
(* its type, its repository and the two time buckets it falls in.          *)
(*                                                                         *)
(* An event whose id or repository name is empty has RepoOf[e] = NoRepo:   *)
(* both checks of ProcessEvent, and both of PersistEvent, answer the two   *)
(* cases alike.                                                            *)
(***************************************************************************)
EXTENDS Integers, FiniteSets

CONSTANTS Events,    \* event ids
          TypeOf,    \* event id -> GitHub event type
          Repos,     \* repository names
          NoRepo,    \* stands for an empty repository name or event id
          RepoOf,    \* event id -> repository, or NoRepo
          Windows,   \* starts of the Redis windows (TRENDING_WINDOW_SIZE)
          WindowOf,  \* event id -> Redis window of its creation time
          Hours,     \* starts of the PostgreSQL windows, in hours
          HourOf     \* event id -> PostgreSQL window of its creation time

ASSUME EventsAssumption ==
    /\ IsFiniteSet(Events)
    /\ NoRepo \notin Repos
    /\ TypeOf \in [Events -> STRING]
    /\ RepoOf \in [Events -> Repos \union {NoRepo}]
    /\ WindowOf \in [Events -> Windows]
    /\ Hours \subseteq Int
    /\ HourOf \in [Events -> Hours]

\* The weight of an event type in the rankings; 0 for a type that only
\* leaves a row of metadata.
scoreForEvent(type) ==
    CASE type = "WatchEvent" -> 3
      [] type \in {"ForkEvent", "PullRequestEvent"} -> 2
      [] type \in {"PushEvent", "IssuesEvent", "CreateEvent"} -> 1
      [] OTHER -> 0

EventScore(e) == scoreForEvent(TypeOf[e])

Weighted(e) == EventScore(e) > 0

\* The event has an id and a repository name.
Complete(e) == RepoOf[e] # NoRepo

-----------------------------------------------------------------------------
(* What a set of events should add up to; used by the properties only.     *)

Scoring(S, k) == {e \in S : EventScore(e) >= k}

\* The sum of the scores of the events of S. Scores lie in 0..3, so each
\* event is counted once for each of the levels 1, 2, 3 that it reaches.
ScoreSum(S) == Cardinality(Scoring(S, 1)) + Cardinality(Scoring(S, 2))
                                          + Cardinality(Scoring(S, 3))

OfRepo(S, r) == {e \in S : RepoOf[e] = r}

OfRepoHour(S, r, h) == {e \in S : RepoOf[e] = r /\ HourOf[e] = h}
=============================================================================
