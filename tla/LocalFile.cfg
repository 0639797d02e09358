CONSTANTS
  Calls = {c1, c2}
  Touching = {c1, c2}
  Flushes = {f1}
  Waiters = {w1}
  FirstChange = FirstChange
  Nobody = Nobody
  Timer = Timer
  MaxCrashes = 1
  MaxDeletes = 1
  CarefulCallers = TRUE
SPECIFICATION FairSpec
INVARIANTS
  NothingForgotten
  FlushSettles
PROPERTIES
  ModificationsWake
  AppendedReachesDisk
CHECK_DEADLOCK FALSE
