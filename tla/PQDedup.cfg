SPECIFICATION Spec
CONSTANTS
  Docs = {d1}
  NumAttempts = 3
  MaxRetries = 1
  Concurrency = 2
  Levels = {}
  Budget <- StormBudget
INVARIANT Deduplicated
CHECK_DEADLOCK FALSE
