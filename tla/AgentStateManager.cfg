SPECIFICATION MCSpec
CONSTANTS
  TaskIds = {t1}
  NoTask = NoTask
  Agents = {a1}
  Callers = {c1, c2}
  Subs = {s1, s2}
  NoRecord = NoRecord
  NoCaller = NoCaller
  MaxVersion = 7
  MaxVersionWithSubs = 3
SYMMETRY Symmetry
INVARIANTS
  TypeOK
  WorkingNamesItsTask
  NoTaskCountedTwice
  SettledRowNeverRegresses
  RegistrationAnnouncedFirst
PROPERTIES
  LiveSubscriberLostOnlyToStaleIndices
CHECK_DEADLOCK FALSE
