SPECIFICATION FairSpec
CONSTANTS
  s1 = s1
  d1 = d1
  d2 = d2
  Sources = {s1, s2}
  Docs = {d1, d2}
  DocOf <- DistinctTexts
  Sessions = {x1}
  Callers = {x1}
  Closers = {x1}
  Operations = {"schedule"}
  DurableFallback = FALSE
  MaxQueued = 1
  MaxFaults = 0
  MaxRestarts = 0
PROPERTY CloseEnds
CHECK_DEADLOCK FALSE
