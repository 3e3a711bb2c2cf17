SPECIFICATION FairSpec
CONSTANTS
  Clients = {c1, p1}
  Chats = {c1}
  MaxRows = 1
  Faults = 1
  Expiries = 1
  Archives = 1
  MaxDisturbances = 2
  Budget <- MCBudget
INVARIANTS
  PointerNamesRow
  SerialTurnsSurvive
PROPERTIES
  NeverLockedForever
CHECK_DEADLOCK FALSE
