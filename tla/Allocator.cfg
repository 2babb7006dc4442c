CONSTANTS
    FirstBlock = 3
    NumberOfBlocks = 7
    PreallocationSize = 2
    NoBlock = NoBlock
    NoHead = NoHead
    MaxAge = 1
    MaxPreallocations = 2
    MaxReclaims = 1
    MaxCrashes = 1
    MaxFaults = 1
SPECIFICATION Spec
CHECK_DEADLOCK FALSE
INVARIANTS
    OnlyUnheldIsOffered
    NoBlockIsLost
    LeastWornIsOffered
