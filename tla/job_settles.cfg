SPECIFICATION FairSpec
CONSTANTS
  Jobs = {1}
  Workers = {w1, w2}
  NoWorker = NoWorker
  NoJob = NoJob
  Executor = "embedded"
  CancelSources = {"rest", "disconnect"}
  PatchStatuses = {"failed"}
  MaxAttempts = 2
  MaxRetries = 1
  MaxEvents = 2
  Faults = 1
  Crashes = 0
  Cancels = 1
  Redispatches = 0
  Patches = 1
  Budget <- MCBudget
PROPERTIES
  JobsSettle
CHECK_DEADLOCK FALSE
