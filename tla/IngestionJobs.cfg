SPECIFICATION Spec
CONSTANTS
  Jobs = {1}
  Units = {u1, u2}
  Ordinals = {o1, o2}
  Threads = {t1, t2}
  Lease = 1
  MaxDelay = 1
  MaxTime = 2
  MaxAttempts = 2
SYMMETRY Symmetry
INVARIANT TypeOK
INVARIANT LeaseMatchesStatus
INVARIANT CompletedNotOverstated
INVARIANT Reclaimable
PROPERTY CheckpointsKept
