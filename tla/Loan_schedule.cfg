\* One call at a time beside both jobs, on a loan of two instalments.
SPECIFICATION Spec
CONSTANTS
    g1 = g1
    k1 = k1
    k2 = k2
    s1 = s1
    Guarantor = {g1}
    Instalment <- MCTwoInstalments
    PrincipalDue <- MCTwoPrincipalDue
    InterestDue <- MCTwoInterestDue
    Principal = 2
    Threshold = 2
    Key = {k1, k2}
    Amount = {1, 2}
    Session = {s1}
    Workers = 2
    LastDay = 2
    MaxPenalties = 1
SYMMETRY MCSymmetry
CHECK_DEADLOCK FALSE
INVARIANTS
    SettledOwesNothing
    ScheduleAgrees
    OwesOnlyAccrued
