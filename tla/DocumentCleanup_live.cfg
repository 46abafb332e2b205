SPECIFICATION FairSpec
CONSTANTS
  v1 = v1
  v2 = v2
  a = a
  b = b
  c = c
  r1 = r1
  r2 = r2
  NoFile = NoFile
  NoRunner = NoRunner
  Version = {v1}
  Upload = {a, b}
  Original <- One
  Target <- ToFirst
  MaxRows = 2
  Runner = {r1, r2}
  Attempts = 1
  Faults = {"zombie", "retry"}
  MaxFaults = 1
CHECK_DEADLOCK FALSE
PROPERTIES
  RetiredFilesErased
