SPECIFICATION FairSpec
CONSTANTS
  Docs = {d1, d2}
  NumAttempts = 3
  MaxRetries = 1
  Concurrency = 1
  Levels = {0, 2}
  Budget <- PlainBudget
INVARIANT OneAttemptPerDoc
PROPERTIES
  StartsWithinLimit
  StatusOrder
  AskedIsDecided
CHECK_DEADLOCK FALSE
