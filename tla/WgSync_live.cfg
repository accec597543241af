\* The monitor implements the abstract kernel objects, a sleeper comes back in its
\* mutex at the depth it had, and waits return: those that are satisfied, those
\* that were woken, those with a timeout.
SPECIFICATION FairSpec
CONSTANTS
  t1 = t1
  t2 = t2
  t3 = t3
  Tid <- TwoThreads
  MainTid = t1
  Handle <- TwoHandles
  WaitqMax = 128
  MaxCount = 2
  Kinds = {"event", "mutex", "cv"}
  Closable = {}
  Requests <- OneAndPair
  Modes = {"timed", "inf"}
  Kicks = {}
  HeldOnly = TRUE
INVARIANTS NoLostSleep MutexConsistent
PROPERTIES KeepsPromises GrantsWaits OwnerKeepsMutex SleeperReturnsOwning
CHECK_DEADLOCK FALSE
