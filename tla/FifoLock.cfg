CONSTANTS
  t1 = t1
  t2 = t2
  t3 = t3
  t4 = t4
  Threads = {t1, t2, t3, t4}
  FIFO_LOCK_QUEUE_LENGTH = 2
SPECIFICATION FairSpec
INVARIANTS
  MutualExclusion
  NoLostWakeupInRing
  WaitsOutsideOnlyForSpace
PROPERTIES
  ImplementsQueuedLock
  FirstComeFirstServed
  QueuedGetsLock
