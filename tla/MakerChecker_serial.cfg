\* Calls that never overlap: one session, no expiry.
SPECIFICATION Spec
CONSTANTS
    r1 = r1
    r2 = r2
    u1 = u1
    u2 = u2
    u3 = u3
    s1 = s1
    NoOne = NoOne
    Request = {r1, r2}
    User = {u1, u2, u3}
    Session = {s1}
    Quorums = {1, 2}
    Expirable = {}
CHECK_DEADLOCK FALSE
PROPERTY ImplementsContract
