SPECIFICATION Spec
CONSTANTS
  r1 = r1
  r2 = r2
  c1 = c1
  Row = {r1, r2}
  Column = {c1}
  AllColumns = AllColumns
  Kinds = {"generate", "regenerate", "clear"}
  Sweeping = FALSE
  MaxGen = 2
  MaxTries = 2
  PromptRequests = TRUE
  MaxFaults = 1
CHECK_DEADLOCK FALSE
INVARIANTS
  TypeOK
PROPERTIES
  OnlyLatestWrites
  FinishedCellsKept
  LeaseOutlastsWork
SYMMETRY Symmetry
