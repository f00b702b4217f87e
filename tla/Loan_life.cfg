\* Two calls and both jobs over the life of a loan.
SPECIFICATION Spec
CONSTANTS
    g1 = g1
    k1 = k1
    k2 = k2
    s1 = s1
    s2 = s2
    Guarantor = {g1}
    Instalment <- MCOneInstalment
    PrincipalDue <- MCOnePrincipalDue
    InterestDue <- MCOneInterestDue
    Principal = 2
    Threshold = 1
    Key = {k1, k2}
    Amount = {1, 2}
    Session = {s1, s2}
    Workers = 1
    LastDay = 1
    MaxPenalties = 0
SYMMETRY MCSymmetry
CHECK_DEADLOCK FALSE
INVARIANTS
    TypeOK
    PrincipalAccounted
    LiensFollowDebt
    RepaymentsAgree
