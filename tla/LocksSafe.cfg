SPECIFICATION LocksSpec
CONSTANTS
  Threads = {t1, t2, t3}
  MaxCrashes = 1
  MaxWakes = 2
  LockThreads = {t1, t2, t3}
INVARIANT OwnerAlive
INVARIANT OneInside
INVARIANT WakeComes
INVARIANT Exclusive
 
CHECK_DEADLOCK FALSE
