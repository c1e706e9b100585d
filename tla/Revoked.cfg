SPECIFICATION FairDSpec
CONSTANTS
  d1 = d1
  w1 = w1
  w2 = w2
  x1 = x1
  x2 = x2
  NoKey = NoKey
  NoJob = NoJob
  Docs = {d1}
  Workers = {w1}
  KeyOf <- NoKeys
  PrintOf <- SamePrints
  OcrAttempts = 1
  CleanupAttempts = 1
  MaxCycles = 1
  RearmBound = 0
  GraceHolds = TRUE
  Dispatchers = {x1}
  BatchLimit = 2
  MaxCopies = 1
  Backlogged = TRUE
PROPERTY IntentRedelivered
CHECK_DEADLOCK FALSE
