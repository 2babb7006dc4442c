CONSTANTS
    Extent = FALSE
    FirstBlock = 3
    NumberOfBlocks = 3
    SectorsPerBlock = 3
    SectorRoom = 2
    TailRoom = 1
    NoBlock = NoBlock
    Sizes = {1, 3}
    Modes = {"write", "multiple"}
    Whole = {FALSE}
    WithinBlock = FALSE
    SeekBuffered = FALSE
    Reopens = "until reset"
    MaxPosition = 7
    MaxFormats = 2
    MaxCrashes = 1
    MaxFaults = 1
SPECIFICATION Spec
CHECK_DEADLOCK FALSE
INVARIANTS
    NothingFlushedIsLost
    EveryByteIsFound
    ReadsWhatWasWritten
    WritesErasedSectors
    NoBlockLeaks
