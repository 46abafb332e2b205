SPECIFICATION FairSpec
CONSTANTS
  ext1 = ext1
  ext2 = ext2
  mem = mem
  acc = acc
  cln = cln
  r1 = r1
  r2 = r2
  old = old
  k1 = k1
  NoKey = NoKey
  NoRunner = NoRunner
  Job <- RollJobs
  Runner <- RollRunners
  LegacyRunner = {old}
  Handles <- RollHandles
  CleanupJob = {cln}
  HookedJob = {}
  RefusableJob = {acc}
  DeferringJob = {cln}
  Key = {k1}
  KeyOf <- RollKeyOf
  CancelKey = {}
  MaxAttempts <- RollAttempts
  ClaimBatch = 2
  RedisEnabled = TRUE
  MaxFaults = 1
CHECK_DEADLOCK FALSE
INVARIANTS
  TypeOK
  SingleFinalizer
PROPERTIES
  JobsFinish
  CleanupHappens
  CleanupIntentKept
  ImplementsDurableJobs
