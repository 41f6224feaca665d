SPECIFICATION FairSpec
CONSTANTS
  s1 = s1
  d1 = d1
  d2 = d2
  Sources = {s1, s2}
  Docs = {d1, d2}
  DocOf <- DistinctTexts
  Sessions = {x1}
  Callers = {x1}
  Closers = {}
  Operations = {"schedule"}
  DurableFallback = FALSE
  MaxQueued = 2
  MaxFaults = 0
  MaxRestarts = 0
INVARIANT ProcessingIsOwned
PROPERTY EnqueuedSettles
