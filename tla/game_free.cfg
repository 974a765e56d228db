SPECIFICATION GameSpec
CONSTANTS
  Challenger = Challenger
  Challenged = Challenged
  Client <- MCClient
  Value <- MCValue
  Null = Null
  WritesEach = 5
  MaxWrites <- MCMaxWrites
  MaxDrops = 0
  OtherListens = FALSE
  N = 2
  K = 2
  DrawLimit = 1
  TimeLimit = 2
  Clocked = {}
  Playable <- FirstRow
  MaxTaps = 2
  Patient = {}
INVARIANTS GameTypeOK BoardsAgree KnownStonesKept
CHECK_DEADLOCK FALSE
