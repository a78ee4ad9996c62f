\* Three events with points, poison, a queue of one, two stops, failing stores.
CONSTANTS
    watch = watch
    push = push
    fork = fork
    delete = delete
    nameless = nameless
    ghost = ghost
    r1 = r1
    r2 = r2
    p1 = p1
    p2 = p2
    w1 = w1
    w2 = w2
    NoRepo = NoRepo
    Poison = Poison
    NoEvent = NoEvent
    NoMessage = NoMessage
    Events = {watch, push, fork}
    TypeOf <- MCTypeOf
    Repos = {r1, r2}
    RepoOf <- MCRepoOf
    Windows = {"11:00", "11:05"}
    WindowOf <- MCWindowOf
    Hours = {11}
    HourOf <- MCHourOf
    IdempotencyTTL = 1000
    WindowTTL = 1000
    RecentEventsLimit = 2
    Partitions = {p1}
    PartitionOf <- MCPartitionOf
    Workers = {w1}
    QueueSize = 1
    MaxLog = 3
    MaxStops = 2
    MaxRebalances = 0
    MaxRedisFaults = 1
    MaxPgFaults = 1
    MaxExpiries = 0
SPECIFICATION Spec
INVARIANTS
    TypeOK
    TrendingCountsEachEventOnce
    RecentListsCountedEvents
    SnapshotsMatchMetadata
    CommittedIsInRedis
    CommittedReachesHistory
    HistoryFollowsRanking
    WriteCountersBoundRows
    HistoryPageBehindTrendingPage
CHECK_DEADLOCK FALSE
