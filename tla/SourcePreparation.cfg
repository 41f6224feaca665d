\* close can deadlock with the drain (SourcePreparationClose.cfg), so deadlock
\* is not an error here.
SPECIFICATION Spec
CONSTANTS
  s1 = s1
  d1 = d1
  d2 = d2
  Sources = {s1}
  Docs = {d1, d2}
  DocOf <- DistinctTexts
  Sessions = {x1, x2}
  Callers = {x1}
  Closers = {x2}
  Operations = {"schedule", "promote", "retry", "forget"}
  DurableFallback = TRUE
  MaxQueued = 1
  MaxFaults = 2
  MaxRestarts = 1
INVARIANT TypeOK
INVARIANT ReadyMeansEmbedded
INVARIANT WakeupNotLost
PROPERTY OnlyTheseOrphan
PROPERTY OnlyTheseStrand
CHECK_DEADLOCK FALSE
