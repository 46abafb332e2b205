SPECIFICATION Spec
CONSTANTS
  v1 = v1
  v2 = v2
  a = a
  b = b
  c = c
  r1 = r1
  r2 = r2
  NoFile = NoFile
  NoRunner = NoRunner
  Version = {v1, v2}
  Upload = {a, b}
  Original <- Shared
  Target <- ToFirst
  MaxRows = 3
  Runner = {r1, r2}
  Attempts = 2
  Faults = {"crash", "throw"}
  MaxFaults = 1
SYMMETRY Symmetry
CHECK_DEADLOCK FALSE
INVARIANTS
  TypeOK
  LiveFilesExist
  RetiredFilesOwed
  StaleCacheOwed
