SPECIFICATION Spec
CONSTANTS
  Calls = {q1}
  Readers = {r1}
  Fields = {title}
  Values = {v1, v2}
  Worker = worker
  NoOne = nobody
INVARIANT AbsentNotFailed
SYMMETRY Interchangeable
CHECK_DEADLOCK FALSE
