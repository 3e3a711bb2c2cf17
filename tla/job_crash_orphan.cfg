SPECIFICATION Spec
CONSTANTS
  Jobs = {1}
  Workers = {w1, w2}
  NoWorker = NoWorker
  NoJob = NoJob
  Executor = "celery"
  CancelSources = {"ws"}
  PatchStatuses = {"failed"}
  MaxAttempts = 3
  MaxRetries = 1
  MaxEvents = 2
  Faults = 0
  Crashes = 1
  Cancels = 0
  Redispatches = 0
  Patches = 0
  Budget <- MCBudget
INVARIANT
  CrashLeavesNoOrphan
CHECK_DEADLOCK FALSE
