CONSTANTS
  a = a
  nl = nl
  x = x
  y = y
  z = z
  w = w
  Chars = {a, nl, x, y, z}
  Newlines = {nl}
  UserChars = {x, y}
  OthersChars = {z}
  OthersDelete = FALSE
  BootText <- OneLine
  Placeholder <- EmptyLine
  UserEdits <- MCUserEdits
  OthersEdits <- MCOthersEdits
  MaxUserEdits = 3
  MaxOthersEdits = 1
  MaxTroubles = 0
  MaxDisturbances = 2
  ErrorsTolerated = 1
SYMMETRY Symmetry
SPECIFICATION Spec
INVARIANTS
  SnapshotAgrees
  EditorInSync
CHECK_DEADLOCK FALSE
