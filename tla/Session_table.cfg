SPECIFICATION Spec
CONSTANTS
  Bots = {{}}
  Reactions = {"Chow", "Pung", "MeldedKong", "RobAddedKongWin"}
  Declarations = {"AddedDraw", "AddedHand", "ConcealedDraw", "ConcealedHand", "SelfDrawnWin"}
  BasePoints = {1}
  WallTiles = 54
  RoundCount = 2
  ShufflePeriod = 0
  Shuffles <- MCShuffles
  Floor <- NoFloor
  Duplicate = TRUE
  Recorded = FALSE
  AbandonGame = FALSE
  MayRefuse = FALSE
  Delays = FALSE
  MaxStage = 23
  MaxCalls = 0
INVARIANTS TypeOK HandShape TilesConserved WindowsHaveOptions
PROPERTIES WindowsRespected FollowsRules
CHECK_DEADLOCK FALSE
