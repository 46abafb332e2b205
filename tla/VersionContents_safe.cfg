CONSTANTS
  Initial = initial
  Replacement = {u1}
  Edit = {e1, e2}
  Request = {q1, q2}
  Worker = {w1, w2}
  Nothing = Nothing
  MaxAttempts = 2
  MaxRequests = 2
  MaxFaults = 1
SPECIFICATION Spec
SYMMETRY Symmetry
CHECK_DEADLOCK FALSE
INVARIANTS
  TypeOK
  RecordMatchesBytes
  RenditionMatchesBytes
  DeadBytesOwed
