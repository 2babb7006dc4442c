SPECIFICATION Spec
CONSTANTS
  Files = {1, 2}
  Handles = {h1, h2}
  NumBlocks = 5
  SectorsPerBlock = 4
  SectorData = 2
  TailData = 1
  PositionSaveFrequency = 2
  MaxPosition = 40
  MaxBytes = 12
  MaxOpens = 3
  SeekPositions = {4, 7}
  Beyond = {}
INVARIANTS SeekFindsEnd SeekFindsByte ReadsWhatWasWritten BlocksAreNotShared
PROPERTY AppendsOnly
CHECK_DEADLOCK FALSE
SYMMETRY Alike
