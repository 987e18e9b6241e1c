SPECIFICATION FairSpec
CONSTANTS
  TurnLimits <- SomeLimits
  MinHardLimit = 2
  MaxErrors = 2
  MaxCompactions = 1
  MaxContinuations = 1
  MaxConcurrency = 2
  Requests <- SomeRequests
INVARIANTS
  TypeOK
  ModelCallsBounded
  NoOpenToolCall
PROPERTIES
  ToolsInOrder
  NoCallAfterAbort
  RunEnds
CHECK_DEADLOCK FALSE
