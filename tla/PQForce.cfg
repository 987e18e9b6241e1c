SPECIFICATION FairSpec
CONSTANTS
  Docs = {d1, d2}
  NumAttempts = 2
  MaxRetries = 1
  Concurrency = 1
  Levels = {2}
  Budget <- ForceBudget
INVARIANTS
  TypeOK
  QueueConsistent
  ActiveIsLive
  NoLostWakeup
  NoStrandedDocument
PROPERTIES
  Drains
  ServesInOrder
CHECK_DEADLOCK FALSE
