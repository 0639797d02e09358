CONSTANTS
  a = a
  nl = nl
  x = x
  y = y
  z = z
  w = w
  Chars = {a, nl, x, y, z}
  Newlines = {nl}
  UserChars = {x}
  OthersChars = {z}
  OthersDelete = FALSE
  BootText <- OneLine
  Placeholder <- EmptyLine
  UserEdits <- MCUserEdits
  OthersEdits <- MCOthersEdits
  MaxUserEdits = 1
  MaxOthersEdits = 1
  MaxTroubles = 2
  MaxDisturbances = 2
  ErrorsTolerated = 1
SPECIFICATION FairSpec
PROPERTIES Converges
CHECK_DEADLOCK FALSE
