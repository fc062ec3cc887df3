SPECIFICATION Spec
CONSTANTS
  Bots = {{}}
  Reactions = {"Pung", "DiscardWin"}
  Declarations = {}
  BasePoints = {1}
  WallTiles = 54
  RoundCount = 1
  ShufflePeriod = 0
  Shuffles <- MCShuffles
  Floor <- NoFloor
  Duplicate = TRUE
  Recorded = FALSE
  AbandonGame = FALSE
  MayRefuse = FALSE
  Delays = TRUE
  MaxStage = 20
  MaxCalls = 0
PROPERTIES WindowsRespected
CHECK_DEADLOCK FALSE
