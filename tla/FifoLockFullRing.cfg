CONSTANTS
  t1 = t1
  t2 = t2
  t3 = t3
  Threads = {t1, t2, t3}
  FIFO_LOCK_QUEUE_LENGTH = 1
SPECIFICATION Spec
SYMMETRY ThreadSymmetry
INVARIANT
  WaitsOutsideOnlyForSpace
