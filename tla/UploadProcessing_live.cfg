SPECIFICATION FairSpec
CONSTANTS
  f1 = f1
  f2 = f2
  w1 = w1
  w2 = w2
  File = {f1}
  Worker = {w1, w2}
  NoWorker = NoWorker
  MaxAttempts = 2
  MaxRequests = 1
  MaxFaults = 1
CHECK_DEADLOCK FALSE
INVARIANTS
  TypeOK
  CompletedHasBytes
  StaysDeleted
PROPERTIES
  ResultsStand
  QueuedFilesEnd
  NoEternalProcessing
