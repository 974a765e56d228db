SPECIFICATION Spec
CONSTANTS
  c1 = c1
  c2 = c2
  v1 = v1
  v2 = v2
  Client = {c1, c2}
  Value = {v1, v2}
  Null = Null
  MaxWrites <- TwoAndOne
  MaxDrops = 1
  OtherListens = FALSE
SYMMETRY Interchangeable
INVARIANTS TypeOK Converges EventsChange NewestShadows
PROPERTIES AcksAreSilent
CHECK_DEADLOCK FALSE
