SPECIFICATION FairSpec
CONSTANTS
  NumAgents = 3
  MaxConcurrent = 2
  Inputs <- AllInputs
  MaxFaults = 1
INVARIANTS
  TypeOK
  PoolBusy
  GraphOutcome
  RowReportsResults
PROPERTIES
  WorkflowEnds
  RunsByDependencies
CHECK_DEADLOCK FALSE
