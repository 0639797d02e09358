SPECIFICATION FairSpec
CONSTANTS
  Carets = {c1, c2, c3}
  Sessions = {s1, s2, s3}
  Fetches = {f1, f2, f3}
  Works = {w1, w2}
  Callers = {body}
  MaxConns = 3
  MaxFaults = 1
PROPERTIES Reconnects
CHECK_DEADLOCK FALSE
