\* Hues of a circle of eight; seconds of four microseconds.
SPECIFICATION Spec
CONSTANTS
  MaxIndex = 3
  Circle = 8
  InitialCandidates = 4
  TopCandidates = 2
  MinSecs = 2
  MaxSecs = 5
  UsecsPerSec = 4
  UsecsPerMsec = 2
  MinTimeout = 1
  MaxTimeout = 3
INVARIANTS FileLaws DataLaws BoundLaws LogLaws OpLaws
\* Every question is the last one.
CHECK_DEADLOCK FALSE
