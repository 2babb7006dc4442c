CONSTANTS
    Anchor1 = a1
    Anchor2 = a2
    Pool = {p1, p2, p3, p4, p5, p6, p7}
    NoBlock = NoBlock
    Nothing = Nothing
    Erased = Erased
    Value = {0, 1, 2}
    SectorsPerBlock = 1
    TimestampInvalid = 1000
    MaxSaves = 2
    MaxFormats = 0
    MaxCrashes = 1
    MaxFaults = 1
SYMMETRY PoolSymmetry
SPECIFICATION Spec
CHECK_DEADLOCK FALSE
INVARIANTS
    SuperBlockInv
    WriteAhead
    ChainIsKept
PROPERTIES
    ActsAsStore
