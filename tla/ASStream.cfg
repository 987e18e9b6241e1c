SPECIFICATION FairSpec
CONSTANTS
  Rows = {t1, t2}
  Singles = {t1, t2}
  MaxFaults = 1
  None = None
  Questions = {q1, q2}
INVARIANTS
  ControllersLive
  ReturnedIsFinal
  AnswersFindTheirRun
PROPERTY CancelledRunsEnd
CHECK_DEADLOCK FALSE
