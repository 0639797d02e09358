CONSTANTS
  a = a
  b = b
  Ids = {a, b}
  Own = a
  Fields = {"at", "lastActive"}
  s1 = s1
  Nowhere = Nowhere
  FieldValues = {s1, Nowhere, 0, 1, 2}
  NotCarets = NotCarets
  Spots = {s1}
  Cleaner = Cleaner
  Viewer = Viewer
  MaxIdle = 1
  IdleCheckPeriod = 1
  ChangesPerStoredSnapshot = 1
  MaxComposedChangesForDiff = 1
  MaxRev = 4
  MaxNow = 2
  MaxTroubles = 1
  Users = {b}
  MaxMoves = 1
SPECIFICATION FairSpec
INVARIANTS
  SnapshotsTrue
PROPERTIES
  OnlyIdleCaretsGo
  MovesSeen
CHECK_DEADLOCK FALSE
