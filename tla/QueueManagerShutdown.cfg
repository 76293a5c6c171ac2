SPECIFICATION Spec
CONSTANTS
  m1 = m1
  m2 = m2
  s1 = s1
  s2 = s2
  n1 = n1
  n2 = n2
  Tasks = {n1, s1}
  NoTask = NoTask
  KindOf <- KindOfTask
  Pool <- SmallPool
  ExtraWorkers = 0
  Capacity <- Small
  MaxConcurrent = 1
  MaxRestarts = 1
  NestingLimit = 1
  ScaleUp = 1
  MaxSubagents = 2
  W = 8
  MaxPanics = 0
PROPERTIES
  ShutdownReturns
CHECK_DEADLOCK FALSE
