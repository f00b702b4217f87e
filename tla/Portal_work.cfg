SPECIFICATION Spec
CONSTANTS
    MaxCalls = 2
    MaxMounts = 2
    MaxMoves = 1
INVARIANTS
    TypeOK
    
    ToldIsTrue
    
    PageIsCurrent
    NoDeadLinks
CHECK_DEADLOCK FALSE
