SPECIFICATION LockSpec
CONSTANTS
  Savers = {c1, c2}
  N = 3
  Free = Free
  Orphan = Orphan
  Errors = 1
  Expiries = 1
  Retries = 1
  Crashes = 1
  LockBudget <- MCBudget
INVARIANTS
  LockTypeOK
  GrantsHold
PROPERTIES
  LeaseHolds
CHECK_DEADLOCK FALSE
