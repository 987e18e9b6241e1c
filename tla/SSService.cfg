SPECIFICATION FairSpec
CONSTANTS
  Managers = {m1, m2}
  Children = {m1, m2}
  Names = {docling}
  Service = docling
  Requests = {r1, r2}
  None = None
  AwaitsSpawn = TRUE
  Polls = 2
INVARIANTS
  TypeOK
  PromisesAccounted
  OneService
  NoOrphanService
  StartFlagOwned
PROPERTY EveryParseEnds
CHECK_DEADLOCK FALSE
