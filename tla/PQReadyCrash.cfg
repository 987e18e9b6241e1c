SPECIFICATION Spec
CONSTANTS
  Docs = {d1}
  NumAttempts = 3
  MaxRetries = 1
  Concurrency = 1
  Levels = {}
  Budget <- StormBudget
INVARIANT ReadyHasPages
CHECK_DEADLOCK FALSE
