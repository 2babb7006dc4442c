CONSTANTS
    Extent = TRUE
    FirstBlock = 3
    NumberOfBlocks = 2
    SectorsPerBlock = 3
    SectorRoom = 2
    TailRoom = 1
    NoBlock = NoBlock
    Sizes = {1, 3}
    Modes = {"write"}
    Whole = {FALSE}
    WithinBlock = FALSE
    SeekBuffered = FALSE
    Reopens = "never"
    MaxPosition = 8
    MaxFormats = 1
    MaxCrashes = 0
    MaxFaults = 0
SPECIFICATION Spec
CHECK_DEADLOCK FALSE
INVARIANTS
    NothingFlushedIsLost
