SPECIFICATION FairSpec
CONSTANTS
  Streams = {s1, s2}
  Clients = {c1}
  NoClient = NoClient
  MaxEntries = 0
  Faults = 1
  Drops = 1
  Timeouts = 0
  Chats = 0
  MaxDisturbances = 2
  Budget <- MCBudget
INVARIANT
  TypeOK
PROPERTY
  StreamsEnd
CHECK_DEADLOCK FALSE
