SPECIFICATION FairSpec
CONSTANTS
  c1 = c1
  c2 = c2
  v1 = v1
  v2 = v2
  Client = {c1, c2}
  Value = {v1, v2}
  Null = Null
  MaxWrites <- OneEach
  MaxDrops = 1
  OtherListens = TRUE
INVARIANTS Converges
PROPERTIES EventuallyShown
CHECK_DEADLOCK FALSE
