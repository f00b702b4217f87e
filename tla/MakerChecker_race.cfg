\* Two overlapping calls and the sweep, on one request of any kind.
SPECIFICATION FairSpec
CONSTANTS
    r1 = r1
    u1 = u1
    u2 = u2
    u3 = u3
    u4 = u4
    s1 = s1
    s2 = s2
    NoOne = NoOne
    Request = {r1}
    User = {u1, u2, u3, u4}
    Session = {s1, s2}
    Quorums = {0, 1, 2}
    Expirable = {r1}
CHECK_DEADLOCK FALSE
INVARIANTS
    TypeOK
    QuorumBehindEffect
    EffectAtMostOnce
    WorkIsAnnounced
    UndecidedIsUndone
PROPERTIES
    LapsedRequestsSettle
