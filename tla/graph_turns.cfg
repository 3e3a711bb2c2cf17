SPECIFICATION FairSpec
CONSTANTS
  Scalars = {"destination"}
  Flags = {"has_elderly"}
  Values = {"v"}
  Own <- MCOwn
  Similar <- MCSimilar
  PlanningIntents = {"generate_itinerary", "confirm_itinerary"}
  ChattyIntents = {"chitchat"}
  RecursionLimit = 18
  MaxTurns = 2
  Faults = 1
  Conflicted = 1
  Restarts = 1
  MaxDisturbances = 1
  Budget <- MCBudget
  Itineraries <- MCItineraries
  DatabaseRows <- MCDatabaseRows
  Sources <- MCSources
  Sayings <- MCSayings
  Exports <- MCExports
INVARIANTS
  TripEndsOnce
  DraftAwaitsUser
  PlansOnWhatWasSaid
PROPERTIES
  KnownStays
  EveryTurnEnds
CHECK_DEADLOCK FALSE
