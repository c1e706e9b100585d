SPECIFICATION Spec
CONSTANTS
  d1 = d1
  d2 = d2
  d3 = d3
  w1 = w1
  w2 = w2
  k1 = k1
  NoKey = NoKey
  NoJob = NoJob
  Docs = {d1, d2, d3}
  Workers = {}
  KeyOf <- OneKey
  PrintOf <- TwoPrints
  OcrAttempts = 1
  CleanupAttempts = 1
  MaxCycles = 1
  RearmBound = 0
  GraceHolds = TRUE
INVARIANTS OneDocumentPerKey OrphanOwed
SYMMETRY SameRequests
CHECK_DEADLOCK FALSE
