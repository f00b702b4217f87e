\* Three overlapping calls on one application with two guarantors.
SPECIFICATION OriginationSpec
CONSTANTS
    g1 = g1
    g2 = g2
    k1 = k1
    k2 = k2
    s1 = s1
    s2 = s2
    s3 = s3
    Guarantor = {g1, g2}
    Key = {k1, k2}
    Session = {s1, s2, s3}
CHECK_DEADLOCK FALSE
INVARIANTS
    OriginationTypeOK
    DisbursedOnce
    LoanRestsOnConsent
