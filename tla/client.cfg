SPECIFICATION Spec
CONSTANTS
  Conversations = {k1, k2}
  Drafts = {d1}
  None = None
  Streams = {1, 2}
  Slots = {1, 2}
  MaxMessages = 2
  MaxActs = 5
  Networks = 1
  Auths = 1
  Endings = 1
  Reloads = 1
  MaxDisturbances = 1
  Budget <- MCBudget
SYMMETRY ConversationSymmetry
INVARIANT ConnectedMeansLive
PROPERTY SnapshotsGrow
CHECK_DEADLOCK FALSE
