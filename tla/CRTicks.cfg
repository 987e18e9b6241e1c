SPECIFICATION FairSpec
CONSTANTS
  Jobs = {j1, j2}
  Ticks = {t1}
  Schedules <- SomeSchedules
  Horizon = 2
  MaxConcurrent = 1
  MaxMarks = 1
  Troubles = 2
INVARIANTS
  ActiveIsRunning
  TicksWithinLimit
PROPERTIES
  DueJobsMoveOn
  ScheduleReturns
CHECK_DEADLOCK FALSE
