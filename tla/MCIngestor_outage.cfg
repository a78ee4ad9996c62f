\* One failing publish, no other failure.
CONSTANTS
    watch = watch
    push = push
    untyped = untyped
    Events = {watch, push, untyped}
    Malformed = {untyped}
    PageSize = 2
    MaxStops = 0
    MaxPollFaults = 0
    MaxPublishFaults = 1
SPECIFICATION FairSpec
PROPERTIES
    RecoversFromBrokerOutage
CHECK_DEADLOCK FALSE
