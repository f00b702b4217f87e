\* Two overlapping ticks, batches of two rows, two ticks that die.
SPECIFICATION FairSpec
CONSTANTS
    w1 = w1
    w2 = w2
    Event = {1, 2}
    Worker = {w1, w2}
    BatchSize = 2
    MaxAttempts = 3
    MaxCrashes = 2
CHECK_DEADLOCK FALSE
INVARIANTS
    TypeOK
    PublishedWasSent
    DuplicatesHaveCause
PROPERTIES
    EventsSettle
