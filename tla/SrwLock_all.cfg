\* One lock has an entry, the other shares; the breaker may run at any moment.
SPECIFICATION SrwFairSpec
CONSTANTS
  t1 = t1
  t2 = t2
  t3 = t3
  lk1 = lk1
  lk2 = lk2
  Tid <- ThreeThreads
  Ptr = {lk1, lk2}
  SrwMax = 1
  MaxHold = 2
  Kick = TRUE
CHECK_DEADLOCK FALSE
INVARIANTS SrwSafe
PROPERTIES FreeLockIsTaken
