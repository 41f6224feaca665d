SPECIFICATION Spec
CONSTANTS
  Works = {w1, w2}
  Threads = {t1, t2}
  Operations = {"process"}
  MaxRestarts = 0
INVARIANT OneWriter
CHECK_DEADLOCK FALSE
