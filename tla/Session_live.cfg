SPECIFICATION FairSpec
CONSTANTS
  Bots = {{}, {1, 2, 3}}
  Reactions = {"Pung", "DiscardWin"}
  Declarations = {"SelfDrawnWin"}
  BasePoints = {1}
  WallTiles = 53
  RoundCount = 1
  ShufflePeriod = 0
  Shuffles <- MCShuffles
  Floor <- NoFloor
  Duplicate = TRUE
  Recorded = TRUE
  AbandonGame = FALSE
  MayRefuse = TRUE
  Delays = FALSE
  MaxStage = 24
  MaxCalls = 0
PROPERTIES GoesOn
CHECK_DEADLOCK FALSE
