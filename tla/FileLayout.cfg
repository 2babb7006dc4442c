SPECIFICATION LayoutSpec
CONSTANTS
    NumberOfBlocks = 24
    Width = 65536
    BlockRoom = 2
    RecordsPerBlock = 3
    IndexFrequency = 2
    MaximumSizes <- LayoutSizes
    TableEntries = 4
    Sizes = {1}
    MaxLength <- LayoutLengths
    MaxFormats = 2
    MaxCrashes = 1
    Beyond = {}
INVARIANTS
    FilesAreApart
    FilesOpen
    SeekFindsPlace
    SeekIsShort
    LengthIsWritten
CHECK_DEADLOCK FALSE
