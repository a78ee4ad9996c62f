\* Both services, every environment with one odd variable, two requests at a
\* time, one connection for them and the workers.
CONSTANTS
    r1 = r1
    r2 = r2
    Environments <- MCEnvironments
    Workers = {1, 2}
    Requests = {r1, r2}
    PoolSize = 1
    MaxServed = 2
SPECIFICATION FairSpec
INVARIANTS
    ServiceTypeOK
    PanicsBeforeItListens
    NoOneAsksAClosedPool
    HandlerCountersAddUp
    ConnectionsReturnedByExit
PROPERTIES
    ReadyMeansServing
    StopsWhenItShould
