SPECIFICATION Spec
CONSTANTS
    MaxCalls = 2
    MaxMounts = 1
    MaxMoves = 0
INVARIANT
    FreshKeys
CHECK_DEADLOCK FALSE
