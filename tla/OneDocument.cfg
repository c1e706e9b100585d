SPECIFICATION Spec
CONSTANTS
  d1 = d1
  d2 = d2
  d3 = d3
  w1 = w1
  w2 = w2
  k1 = k1
  NoKey = NoKey
  NoJob = NoJob
  Docs = {d1}
  Workers = {w1, w2}
  KeyOf <- NoKeys
  PrintOf <- SamePrints
  OcrAttempts = 2
  CleanupAttempts = 2
  MaxCycles = 2
  RearmBound = 3
  GraceHolds = TRUE
INVARIANTS TypeOK StatusMatchesJob ResultFromWinner OneHolder AttemptsBounded FailsOnlyWhenSpent
PROPERTY Lifecycle
SYMMETRY SameWorkers
CHECK_DEADLOCK FALSE
