SPECIFICATION Spec
CONSTANTS
  e1 = e1
  p = p
  k = k
  w1 = w1
  w2 = w2
  Export = {e1}
  Account = Account
  Doc = {p, k}
  OrgDoc = {k}
  Worker = {w1, w2}
  Nothing = Nothing
  ExportTries = 2
  EraseTries = 2
  MaxFaults = 2
SYMMETRY Symmetry
CHECK_DEADLOCK FALSE
INVARIANTS
  TypeOK
  ErasureLeavesNothing
  OrgBytesKept
  ArtifactsKeepTheirName
