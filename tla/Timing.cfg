SPECIFICATION Spec
CONSTANTS
  Procs = {p1, p2}
  Lease = 24
  Hard = 18
  Slack = 3
  Pause = 2
  MaxAttempts = 3
  Base = 1
  Cap = 2
  Jitter = 1
INVARIANTS WorkersHold ProcessingBounded
SYMMETRY Interchangeable
CHECK_DEADLOCK FALSE
