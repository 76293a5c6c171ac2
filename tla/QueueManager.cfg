SPECIFICATION Spec
CONSTANTS
  m1 = m1
  m2 = m2
  s1 = s1
  s2 = s2
  n1 = n1
  n2 = n2
  Tasks = {n1, n2, s1}
  NoTask = NoTask
  KindOf <- KindOfTask
  Pool <- SmallPool
  ExtraWorkers = 1
  Capacity <- Small
  MaxConcurrent = 1
  MaxRestarts = 1
  NestingLimit = 1
  ScaleUp = 1
  MaxSubagents = 2
  W = 8
  MaxPanics = 2
INVARIANTS
  TypeOK
  CountersAccountForWork
  OneSequentialWorker
  EveryQueueIsServed
  SignalReachesAll
CHECK_DEADLOCK FALSE
