SPECIFICATION ScopedSpec
CONSTANTS
  h1 = h1
  h2 = h2
  w1 = w1
  w2 = w2
  Handlers <- BothHandlers
  Workers <- BothWorkers
  Preserve = 1
  MaxRows = 5
  PairRows = 4
  MaxCrashes = 1
INVARIANT NothingForgotten
INVARIANT BoundariesAreSound
INVARIANT IndInv
PROPERTY BoundaryAdvances
PROPERTY CompactionEnds
CHECK_DEADLOCK FALSE
