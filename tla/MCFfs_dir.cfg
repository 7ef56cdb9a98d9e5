CONSTANTS
  NumBlocks = 4
  Slots = 4
  InodesMax = 16
  InodesMargin = 4
  ObjectsMax = 8
  BlockFilesMax = 4
  BlockFilesReserved = 1
  ReservedSpace = 2
  JournalEntries = 10
  JournalMargin = 4
  Names = {"a", "b"}
  Values = {1, 2}
  MaxRequests = 1
  MaxFailures = 1
  Excluded = {"journal", "spare"}
  SelfRename = FALSE
  Warm = {9, 10, 11}
  Start <- MCStart
SPECIFICATION FfsSpec
CHECK_DEADLOCK FALSE
PROPERTY StoreKept
