SPECIFICATION Spec
CONSTANTS
  Requests = {r1, r2, r3}
  MaxTime = 2
  LimitWindow = 2
  IpLimit = 2
  UserLimit = 2
  GuestLimit = 1
  Limit <- MCLimit
  MaxSSE = 1
  FailThreshold = 2
  FailWindow = 1
  OpenFor = 1
  Losses = 1
  Expiries = 1
  Aborts = 1
  Crashes = 1
  Budget <- MCBudget
  MaxDisturbances = 1
SYMMETRY RequestSymmetry
INVARIANTS
  WindowLimit
  StreamLimit
  StreamsCounted
PROPERTIES
  OpensOnFailures
  StaysOpen
CHECK_DEADLOCK FALSE
