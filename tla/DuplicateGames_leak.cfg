SPECIFICATION GamesSpec
CONSTANTS
  w1 = w1
  w2 = w2
  recorder = recorder
  s1 = s1
  s2 = s2
  Lists = {l1}
  Sessions <- MCSessions
  Rounds = 1
  Records <- MCRecords
  Workers <- MCWorkers
  Recorder = recorder
  Threads <- MCThreads
  NoOne = NoOne
  Lifetimes = {1}
  MaxCalls = 1
  MaxClock = 1
  MaxCrashes = 0
INVARIANTS ExpiredListsGo
CHECK_DEADLOCK FALSE
