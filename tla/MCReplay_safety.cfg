\* A bounded replay and a restart of it beside the consumer.
CONSTANTS
    watch = watch
    push = push
    fork = fork
    delete = delete
    nameless = nameless
    ghost = ghost
    r1 = r1
    r2 = r2
    p1 = p1
    p2 = p2
    w1 = w1
    w2 = w2
    NoRepo = NoRepo
    Poison = Poison
    NoEvent = NoEvent
    NoMessage = NoMessage
    Events = {watch, nameless, ghost}
    TypeOf <- MCTypeOf
    Repos = {r1, r2}
    RepoOf <- MCRepoOf
    Windows = {"11:00", "11:05"}
    WindowOf <- MCWindowOf
    Hours = {11}
    HourOf <- MCHourOf
    IdempotencyTTL = 1000
    WindowTTL = 1000
    RecentEventsLimit = 1
    Partitions = {p1}
    PartitionOf <- MCPartitionOf
    Workers = {w1}
    QueueSize = 1
    MaxLog = 2
    MaxStops = 1
    MaxRebalances = 1
    MaxRedisFaults = 1
    MaxPgFaults = 1
    MaxExpiries = 0
    ReplayMaxMessages = 2
    MaxReplays = 2
SPECIFICATION ReplaySpec
INVARIANTS
    ReplayTypeOK
    ReplayedIsRebuilt
    ReplayStaysInBounds
    CommittedReachesHistory
PROPERTIES
    ImplementsAnalytics
CHECK_DEADLOCK FALSE
