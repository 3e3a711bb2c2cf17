SPECIFICATION Spec
CONSTANTS
  Turns <- MCTurns
  Requests <- MCRequests
  KnowledgeBase <- MCKnowledgeBase
  ByHeart <- MCByHeart
  Searches <- MCSearches
  Described <- MCDescribed
  CityDefaults <- MCDefaults
  Minimal <- MCMinimal
  Worlds <- MCWorlds
  AmapReplies <- MCAmapReplies
INVARIANTS
  PlanKeepsLimits
  LeavesNoRoom
  AttractionsSuffice
  TextFitsPlan
CHECK_DEADLOCK FALSE
