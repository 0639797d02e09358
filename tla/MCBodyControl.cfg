CONSTANTS
  c1 = c1
  c2 = c2
  c3 = c3
  a = a
  nl = nl
  x = x
  y = y
  z = z
  Parts = {p1}
  Calls = {c1, c2, c3}
  Chars = {a, nl, x, y, z}
  Newlines = {nl}
  NoCall = NoCall
  BadValue = BadValue
  ChangesPerStoredSnapshot = 4
  BootText <- OneLine
  Typed <- MCTyped
  Contents <- Texts
  EmptyDelta <- EmptyBodyDelta
  Compose <- ComposeBody
  Diff <- DiffBody
  Rebase <- RebaseBody
  Submittable <- CarefulEdits
  BootDelta <- MCBootDelta
  BootContents <- MCBootContents
SPECIFICATION Spec
INVARIANTS
  AlwaysServable
  IntentionsPreserved
CHECK_DEADLOCK FALSE
