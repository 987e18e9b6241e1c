SPECIFICATION FairSpec
CONSTANTS
  Root = root
  Coord = coord
  s1 = s1
  s2 = s2
  s3 = s3
  Subs <- ThreeSubs
  Limited = {s1, s3}
  Rows <- Ids
  Singles = {coord}
  MaxFaults = 2
INVARIANTS
  ParentSummarisesSubs
  BatchLeavesNoController
PROPERTY WorkflowEnds
CHECK_DEADLOCK FALSE
