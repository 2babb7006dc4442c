SPECIFICATION Spec
CONSTANTS
  Width = 3
  Keys = {1, 2, 3, 4, 5, 6}
  Values = {1, 2}
  Starts <- FillOrders
  SectorSize = 2
  SectorsPerBlock = 3
  TailSize = 1
  NodeSize = 1
  EntrySize = 1
  SavesPerBlock = 2
  NumBlocks = 40
  MountBehind = TRUE
  MaxOps = 4
INVARIANTS ErasesNothingLive
CHECK_DEADLOCK FALSE
