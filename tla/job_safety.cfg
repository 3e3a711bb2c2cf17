SPECIFICATION Spec
CONSTANTS
  Jobs = {1}
  Workers = {w1, w2}
  NoWorker = NoWorker
  NoJob = NoJob
  Executor = "celery"
  CancelSources = {"ws", "disconnect"}
  PatchStatuses = {"failed"}
  MaxAttempts = 2
  MaxRetries = 1
  MaxEvents = 2
  Faults = 2
  Crashes = 1
  Cancels = 1
  Redispatches = 1
  Patches = 0
  Budget <- MCBudget
SYMMETRY WorkerSymmetry
INVARIANTS
  TypeOK
  RunningHasLease
  OneExecutionPerAttempt
  FencedLog
  ForceCancelEndsAttempt
  OutcomeLogged
PROPERTIES
  LeaseNotStolen
  FinishedNotRevived
  RefinesLease
CHECK_DEADLOCK FALSE
