SPECIFICATION ServiceSpec
CONSTANTS
  Jobs = {1}
  Units = {u1}
  Ordinals = {o1}
  Lease = 1
  MaxDelay = 0
  MaxTime = 2
  MaxAttempts = 2
  Threads = {t1, t2, w}
  Loops = {t1, t2}
  Watcher = w
  Starters = {c1, c2}
  Files = {f1, f2}
  Debounce = 1
  MaxVersion = 1
  MaxChanges = 5
INVARIANT ServiceTypeOK
INVARIANT OneLoop
INVARIANT SubmittedWasThere
PROPERTY AtomicLeases
SYMMETRY Identical
