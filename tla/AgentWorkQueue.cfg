SPECIFICATION Spec
CONSTANTS
  Works = {w1, w2}
  Threads = {t1, t2}
  Operations = {"process", "hold", "cancel", "resume"}
  MaxRestarts = 1
INVARIANT TypeOK
INVARIANT NoOrphanLock
PROPERTY OnlyTheseAbandon
 
