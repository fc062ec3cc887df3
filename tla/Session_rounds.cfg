SPECIFICATION Spec
CONSTANTS
  Bots = {{}, {1, 2, 3}}
  Reactions = {}
  Declarations = {"SelfDrawnWin"}
  BasePoints = {1, 11}
  WallTiles = 53
  RoundCount = 2
  ShufflePeriod = 1
  Shuffles <- MCShuffles
  Floor <- SomeFloor
  Duplicate = TRUE
  Recorded = TRUE
  AbandonGame = TRUE
  MayRefuse = FALSE
  Delays = FALSE
  MaxStage = 42
  MaxCalls = 3
INVARIANTS RecordsComplete AfkNeverAwaited NeverStuck EndedIsFinal
CHECK_DEADLOCK FALSE
