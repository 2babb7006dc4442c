CONSTANTS
    Anchor1 = a1
    Anchor2 = a2
    Pool = {p1, p2, p3, p4, p5, p6}
    NoBlock = NoBlock
    Nothing = Nothing
    Erased = Erased
    Value = {0, 1}
    SectorsPerBlock = 1
    TimestampInvalid = 1000
    MaxSaves = 1
    MaxFormats = 1
    MaxCrashes = 0
    MaxFaults = 0
SPECIFICATION FairSpec
CHECK_DEADLOCK FALSE
INVARIANTS
    CreateIsFound
PROPERTIES
    CallsReturn
