SPECIFICATION Spec
CONSTANTS
  d1 = d1
  d2 = d2
  u1 = u1
  u2 = u2
  Sessions = {s1, s2, s3}
  Docs = {d1, d2}
  Users = {u1, u2}
  OwnerOf <- TwoOwners
INVARIANTS NoDeadlock WaitsStayLocal
SYMMETRY Interchangeable
CHECK_DEADLOCK FALSE
