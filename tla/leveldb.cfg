SPECIFICATION Spec
CONSTANTS
  NumLevels = 3
  MaxMemLevel = 1
  L0Trigger = 2
  LevelSize = 1
  TableSize = 10
  GrandLimit = 10
  ExpandLimit = 10
  Keys = {1, 2, 3}
  Writers = {w1, w2}
  Readers = {r1}
  SyncWriters = {w1}
  Batches <- PutsOrDel
  NoSnapshot = NoSnapshot
  NoMem = NoMem
  NoRead = NoRead
  NoGroup = NoGroup
  NoComp = NoComp
  NoRange = NoRange
  BufferSize = 0
  GroupSize = 3
  L0Stop = 2
  MaxWrites = 3
  MaxReads = 1
  MaxSnapshots = 1
  MaxCrashes = 2
  MaxFaults = 1
  MaxRanges = 1
  MaxSeeks = 1
  MaxTotal = 4
INVARIANTS TypeOK LiveFilesExist SeekIsAbove ReadsConsistent  LevelsOrdered WaitersAreServed
PROPERTIES  TablesStay
CHECK_DEADLOCK FALSE
