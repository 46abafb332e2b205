SPECIFICATION FairSpec
CONSTANTS
  r1 = r1
  r2 = r2
  c1 = c1
  Row = {r1}
  Column = {c1}
  AllColumns = AllColumns
  Kinds = {"generate"}
  Sweeping = TRUE
  MaxGen = 2
  MaxTries = 2
  PromptRequests = TRUE
  MaxFaults = 0
CHECK_DEADLOCK FALSE
PROPERTIES
  HandedRunEnds
