CONSTANTS
  Initial = initial
  Replacement = {}
  Edit = {e1, e2}
  Request = {q1, q2}
  Worker = {w1}
  Nothing = Nothing
  MaxAttempts = 1
  MaxRequests = 2
  MaxFaults = 0
SPECIFICATION Spec
SYMMETRY Symmetry
CHECK_DEADLOCK FALSE
INVARIANTS
  HashNamesTheBytes
