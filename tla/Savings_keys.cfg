\* Two sessions, keys reused between operations and accounts.
SPECIFICATION Spec
CONSTANTS
    a1 = a1
    a2 = a2
    k1 = k1
    k2 = k2
    s1 = s1
    s2 = s2
    Account = {a1, a2}
    Key = {k1, k2}
    Amount = {1}
    MinBalances = {0}
    Session = {s1, s2}
    MaxRequests = 2
    MaxElsewhere = 1
SYMMETRY Symmetry
CHECK_DEADLOCK FALSE
INVARIANTS
    TypeOK
    OneRowPerKey
    Reconciled
    ControlAccountTies
    WithdrawalsWereApproved
