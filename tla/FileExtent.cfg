CONSTANTS
    Extent = TRUE
    FirstBlock = 3
    NumberOfBlocks = 2
    SectorsPerBlock = 3
    SectorRoom = 3
    TailRoom = 2
    NoBlock = NoBlock
    Sizes = {2}
    Modes = {"write"}
    Whole = {TRUE, FALSE}
    WithinBlock = FALSE
    SeekBuffered = FALSE
    Reopens = "never"
    MaxPosition = 12
    MaxFormats = 2
    MaxCrashes = 1
    MaxFaults = 1
SPECIFICATION FairSpec
CHECK_DEADLOCK FALSE
INVARIANTS
    RecordsAreWhole
    FullFileUsesExtent
PROPERTIES
    CallsReturn
