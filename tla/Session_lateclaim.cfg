SPECIFICATION Spec
CONSTANTS
  Bots = {{}}
  Reactions = {"Chow", "Pung", "DiscardWin"}
  Declarations = {}
  BasePoints = {1}
  WallTiles = 54
  RoundCount = 1
  ShufflePeriod = 0
  Shuffles <- MCShuffles
  Floor <- NoFloor
  Duplicate = TRUE
  Recorded = FALSE
  AbandonGame = FALSE
  MayRefuse = FALSE
  Delays = FALSE
  MaxStage = 20
  MaxCalls = 0
PROPERTIES NoLateClaim
CHECK_DEADLOCK FALSE
