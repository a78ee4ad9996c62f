\* Two sessions on overlapping rows, with failures at every statement.
CONSTANTS
    watch = watch
    push = push
    fork = fork
    delete = delete
    r1 = r1
    r2 = r2
    w1 = w1
    replay = replay
    NoRepo = NoRepo
    NoEvent = NoEvent
    Events = {watch, push, fork, delete}
    TypeOf <- MCTypeOf
    Repos = {r1, r2}
    RepoOf <- MCRepoOf
    Windows = {10, 11}
    WindowOf <- MCHourOf
    Hours = {10, 11}
    HourOf <- MCHourOf
    Sessions = {w1, replay}
    PoolOf <- MCPoolOf
    PoolSize = 1
SPECIFICATION FairSpec
INVARIANTS
    PgTypeOK
    SnapshotsMatchMetadata
    ToldOnce
    SomeoneCanGoOn
    QueriesAgree
PROPERTIES
    CallsAreAtomic
    EveryCallReturns
