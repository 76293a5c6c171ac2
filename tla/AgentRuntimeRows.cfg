SPECIFICATION Spec
CONSTANTS
  TaskIds = {r1}
  NoTask = NoTask
  Callers = {c1}
  MaxKTasks = 2
  NoRecord = NoRecord
  NoKTask = NoKTask
  Recovery = Recovery
  SavesMayFail = FALSE
INVARIANTS
  StoppedRowIsCurrent
CHECK_DEADLOCK FALSE
