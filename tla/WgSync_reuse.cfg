\* Every kind of object, closed and allocated again under its waiters, and kicked.
SPECIFICATION Spec
CONSTANTS
  t1 = t1
  t2 = t2
  t3 = t3
  Tid <- TwoThreads
  MainTid = t1
  Handle <- TwoHandles
  WaitqMax = 128
  MaxCount = 1
  Kinds = {"event", "mutex", "sem", "thread", "cv"}
  Closable = {"event", "mutex", "sem", "thread", "cv"}
  Requests <- Singles
  Modes = {"timed", "inf"}
  Kicks = {"tid", "workers"}
  HeldOnly = FALSE
CHECK_DEADLOCK FALSE
INVARIANTS TypeOK NoLostWait ObjectsExact
