SPECIFICATION Spec
CONSTANTS
  v1 = v1
  v2 = v2
  a = a
  b = b
  c = c
  r1 = r1
  r2 = r2
  NoFile = NoFile
  NoRunner = NoRunner
  Version = {v1}
  Upload = {a, b, c}
  Original <- One
  Target <- ToFirst
  MaxRows = 3
  Runner = {r1, r2}
  Attempts = 2
  Faults = {"retry"}
  MaxFaults = 1
SYMMETRY Symmetry
CHECK_DEADLOCK FALSE
INVARIANTS
  LiveFilesExist
