\* Overlapping pages, a stop, failing polls and publishes.
CONSTANTS
    watch = watch
    push = push
    untyped = untyped
    Events = {watch, push, untyped}
    Malformed = {untyped}
    PageSize = 2
    MaxStops = 1
    MaxPollFaults = 1
    MaxPublishFaults = 2
SPECIFICATION FairSpec
INVARIANTS
    IngestorTypeOK
    CountersAddUp
    PublishedIsInTopic
    HiddenPageIsDelivered
PROPERTIES
    EventsReachTopic
CHECK_DEADLOCK FALSE
