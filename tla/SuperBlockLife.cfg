CONSTANTS
    Anchor1 = a1
    Anchor2 = a2
    Pool = {p1, p2, p3, p4, p5, p6}
    NoBlock = NoBlock
    Nothing = Nothing
    Erased = Erased
    Value = {0, 1, 2, 3, 4, 5, 6, 7, 8, 9, 10, 11, 12, 13, 14, 15, 16, 17, 18}
    SectorsPerBlock = 2
    TimestampInvalid = 1000
    MaxSaves = 18
    MaxFormats = 0
    MaxCrashes = 1
    MaxFaults = 0
SYMMETRY PoolSymmetry
SPECIFICATION Spec
CHECK_DEADLOCK FALSE
INVARIANTS
    NewestIsLast
    ParentIsFound
    NoBlockLeaks
PROPERTIES
    ChangesAtOnce
