SPECIFICATION GameSpec
CONSTANTS
  Challenger = Challenger
  Challenged = Challenged
  Client <- MCClient
  Value <- MCValue
  Null = Null
  WritesEach = 6
  MaxWrites <- MCMaxWrites
  MaxDrops = 0
  OtherListens = FALSE
  N = 2
  K = 2
  DrawLimit = 1
  TimeLimit = 2
  Clocked = {}
  Playable <- ThreeCells
  MaxTaps = 3
  Patient <- MCClient
INVARIANTS OneWinOneLoss
CHECK_DEADLOCK FALSE
