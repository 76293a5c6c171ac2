SPECIFICATION MCSpec
CONSTANTS
  MaxVersionWithSubs = 3
  TaskIds = {t1}
  NoTask = NoTask
  Agents = {a1}
  Callers = {c1, c2}
  Subs = {s1, s2}
  NoRecord = NoRecord
  NoCaller = NoCaller
  MaxVersion = 3
PROPERTIES
  SweepRemovesOnlyDead
CHECK_DEADLOCK FALSE
