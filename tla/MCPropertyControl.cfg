CONSTANTS
  Parts = {p1, p2}
  Calls = {c1, c2, c3}
  Names = {n1, n2}
  Values = {v1}
  Deleted = Deleted
  NoCall = NoCall
  BadValue = BadValue
  ChangesPerStoredSnapshot = 2
  Contents <- PropertyContents
  EmptyDelta <- NoProperties
  Compose <- ComposeProperties
  Diff <- DiffProperties
  Rebase <- RebaseProperties
  Submittable <- OneEdit
  BootDelta <- MCBootDelta
  BootContents <- MCBootContents
SPECIFICATION FairSpec
INVARIANTS
  ChangesContiguous
  CallsInOrder
  AppliedOnce
  AppendedCorrectionYieldsResult
PROPERTIES
  HistoryOnlyGrows
  ImplementsLog
  EveryCallReturns
CHECK_DEADLOCK FALSE
