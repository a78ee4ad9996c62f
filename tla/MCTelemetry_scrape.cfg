\* Messages of every outcome, two workers, a queue of one, scrapes at any time.
CONSTANTS
    w1 = w1
    w2 = w2
    reader = reader
    Workers = {w1, w2}
    Reader = reader
    QueueSize = 1
    MaxConsumed = 2
SPECIFICATION Spec
INVARIANTS
    TelemetryTypeOK
    ScrapeMissesOnlyWhatIsAtHand
    GaugeWrongOnlyWhenOvertaken
CHECK_DEADLOCK FALSE
