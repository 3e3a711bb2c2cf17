SPECIFICATION Spec
CONSTANTS
  c1 = c1
  c3 = c3
  p1 = p1
  p2 = p2
  Callers = {c1, c3}
  Processes = {p1, p2}
  Home <- MCHome
  Kinds = {"weather", "price", "poi"}
  MaxRetries <- MCRetries
  CacheTTL = 2
  Jitter = 1
  NegativeTTL = 1
  LocalTTL = 2
  LockTTL = 2
  LockWait = 1
  Timeout = 1
  FailThreshold = 1
  FailWindow = 1
  OpenFor = 2
  MaxTime = 6
  MaxCalls = 3
  Losses = 1
  Cancels = 1
  Crashes = 1
  Budget <- MCBudget
  MaxDisturbances = 1
INVARIANTS
  AnsweredInTime
  HoldersExclude
  AnswersFresh
CHECK_DEADLOCK FALSE
