\* The condition-variable idiom over either lock.
SPECIFICATION GuestSpec
CONSTANTS
  t1 = t1
  t2 = t2
  t3 = t3
  Consumers = {t2, t3}
  Producers = {t1}
  LockKinds = {"cs", "srw"}
INVARIANTS OneInside
PROPERTIES CsProgramFinishes
CHECK_DEADLOCK FALSE
