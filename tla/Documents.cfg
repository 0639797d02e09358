SPECIFICATION FairSpec
CONSTANTS
  Requests = {r1, r2}
  Updates = {u1}
  MaxComplexes = 2
  MaxFiles = 2
  MaxEdits = 3
  MaxTroubles = 1
  MaxCrashes = 2
INVARIANTS OneComplex ServedWhole
PROPERTIES  EveryRequestEnds
CHECK_DEADLOCK FALSE
