SPECIFICATION Spec
CONSTANTS
  Streams = {s1}
  Clients = {c1}
  NoClient = NoClient
  MaxEntries = 2
  Faults = 2
  Drops = 1
  Timeouts = 1
  Chats = 1
  MaxDisturbances = 3
  Budget <- MCBudget
INVARIANTS
  CursorMeansSent
  DoneAfterLastEntry
CHECK_DEADLOCK FALSE
