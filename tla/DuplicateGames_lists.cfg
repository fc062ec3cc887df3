SPECIFICATION MCGamesSpec
CONSTANTS
  w1 = w1
  w2 = w2
  recorder = recorder
  s1 = s1
  s2 = s2
  Lists = {l1}
  Sessions <- MCSessions
  Rounds = 2
  Records <- MCRecords
  Workers <- MCWorkers
  Recorder = recorder
  Threads <- MCThreads
  NoOne = NoOne
  Lifetimes = {1, 2}
  MaxCalls = 2
  MaxClock = 1
  MaxCrashes = 1
SYMMETRY MCSymmetry
INVARIANTS NumbersInOrder NeverUndercounted CountersExact ExpiredListsGoIfOrderly HiddenFromStatistics RecordsKept NoOrphans
CHECK_DEADLOCK FALSE
PROPERTIES OneGameUsesStore
