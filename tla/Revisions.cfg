SPECIFICATION Spec
CONSTANTS
  Calls = {q1, q2, q3}
  Readers = {r1}
  Fields = {title, tags}
  Values = {v1, v2}
  Worker = worker
  NoOne = nobody
INVARIANTS EtagsTrue TextOfSuccess TextStays TrailTells
PROPERTIES NoSilentOverwrite SavesKeepOthers AppliedOnce
SYMMETRY Interchangeable
CHECK_DEADLOCK FALSE
