SPECIFICATION Spec
CONSTANTS
  ext1 = ext1
  ext2 = ext2
  mem = mem
  acc = acc
  cln = cln
  r1 = r1
  r2 = r2
  old = old
  k1 = k1
  NoKey = NoKey
  NoRunner = NoRunner
  Job <- PollJobs
  Runner <- PollRunners
  LegacyRunner = {}
  Handles <- PollHandles
  CleanupJob = {}
  HookedJob = {ext1, ext2}
  RefusableJob = {}
  DeferringJob = {ext1}
  Key = {k1}
  KeyOf <- PollKeyOf
  CancelKey = {k1}
  MaxAttempts <- PollAttempts
  ClaimBatch = 1
  RedisEnabled = FALSE
  MaxFaults = 3
CHECK_DEADLOCK FALSE
INVARIANTS
  OneLivePerKey
  AttemptBudget
  HookMeansOver
  SingleFinalizer
PROPERTIES
  FinishedIsFinal
  CancelSticks
  ImplementsDurableJobs
