\* The condition-variable idiom over an SRW lock.
SPECIFICATION GuestSpec
CONSTANTS
  t1 = t1
  t2 = t2
  t3 = t3
  Consumers = {t2, t3}
  Producers = {t1}
  LockKinds = {"srw"}
PROPERTIES EveryoneFinishes
CHECK_DEADLOCK FALSE
