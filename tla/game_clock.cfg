SPECIFICATION FairGameSpec
CONSTANTS
  Challenger = Challenger
  Challenged = Challenged
  Client <- MCClient
  Value <- MCValue
  Null = Null
  WritesEach = 5
  MaxWrites <- MCMaxWrites
  MaxDrops = 0
  OtherListens = FALSE
  N = 2
  K = 2
  DrawLimit = 3
  TimeLimit = 2
  Clocked = {Challenger}
  Playable <- FirstRow
  MaxTaps = 2
  Patient <- MCClient
INVARIANTS ResultShown
PROPERTIES MatchEnds
CHECK_DEADLOCK FALSE
