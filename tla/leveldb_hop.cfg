SPECIFICATION Spec
CONSTANTS
  NumLevels = 4
  MaxMemLevel = 1
  L0Trigger = 2
  LevelSize = 1
  TableSize = 1
  GrandLimit = 10
  ExpandLimit = 10
  Keys = {1, 2}
  Writers = {w1}
  Readers = {r1}
  SyncWriters = {w1}
  Batches <- OnePut
  NoSnapshot = NoSnapshot
  NoMem = NoMem
  NoRead = NoRead
  NoGroup = NoGroup
  NoComp = NoComp
  NoRange = NoRange
  BufferSize = 0
  GroupSize = 3
  L0Stop = 2
  MaxWrites = 4
  MaxReads = 0
  MaxSnapshots = 1
  MaxCrashes = 0
  MaxFaults = 0
  MaxRanges = 0
  MaxSeeks = 0
  MaxTotal = 5
INVARIANTS LevelsOrdered
CHECK_DEADLOCK FALSE
