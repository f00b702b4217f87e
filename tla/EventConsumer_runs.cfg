\* Two overlapping runs over events of one loan.
SPECIFICATION FairSpec
CONSTANTS
    l1 = l1
    c1 = c1
    c2 = c2
    Event = {1, 2, 3}
    Loan = {l1}
    Amount = {1}
    Run = {c1, c2}
    BatchSize = 2
    MaxFaults = 1
CHECK_DEADLOCK FALSE
INVARIANTS
    TypeOK
    EffectExactlyOnce
    PenaltiesNotUnderstated
PROPERTY EventsAreConsumed
