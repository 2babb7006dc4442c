SPECIFICATION BothSpec
CONSTANTS
  Width = 3
  Keys = {1, 2, 3, 4, 5, 6, 7, 8, 9, 10, 11}
  Values = {1, 2}
  MaxOps = 3
  Starts <- FillOrders
INVARIANTS SeekFindsPredecessor CacheHasRoom TreesAgree
PROPERTY ActsAsDictionary
CHECK_DEADLOCK FALSE
