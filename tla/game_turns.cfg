SPECIFICATION GameSpec
CONSTANTS
  Challenger = Challenger
  Challenged = Challenged
  Client <- MCClient
  Value <- MCValue
  Null = Null
  WritesEach = 4
  MaxWrites <- MCMaxWrites
  MaxDrops = 1
  OtherListens = FALSE
  N = 2
  K = 2
  DrawLimit = 1
  TimeLimit = 2
  Clocked = {}
  Playable <- ThreeCells
  MaxTaps = 3
  Patient <- MCClient
INVARIANTS OneToMove StonesAlternate ResultShown BoardsAgree
PROPERTIES StonesStay
CHECK_DEADLOCK FALSE
