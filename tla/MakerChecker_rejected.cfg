SPECIFICATION Spec
CONSTANTS
    r1 = r1
    u1 = u1
    u2 = u2
    u3 = u3
    s1 = s1
    s2 = s2
    NoOne = NoOne
    Request = {r1}
    User = {u1, u2, u3}
    Session = {s1, s2}
    Quorums = {1, 2}
    Expirable = {}
CHECK_DEADLOCK FALSE
INVARIANT RejectedIsNotCarriedOut
