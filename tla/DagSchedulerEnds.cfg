SPECIFICATION Spec
CONSTANTS
  Tasks = {t1, t2, t3}
  Workers = {w1, w2}
  Workflows <- AllWorkflows
  MaxRetries = 1
  NoWork = NoWork
  Monitor = Monitor
PROPERTIES
  WorkflowEnds
CHECK_DEADLOCK FALSE
