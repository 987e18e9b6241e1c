SPECIFICATION Spec
CONSTANTS
  Rows = {t1, t2}
  Singles = {t1, t2}
  MaxFaults = 0
  None = None
  Questions = {q1}
PROPERTY LeavingCancels
CHECK_DEADLOCK FALSE
