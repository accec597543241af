\* Waits on an address without a timeout.
SPECIFICATION AddrSpec
CONSTANTS
  t1 = t1
  t2 = t2
  t3 = t3
  Tid <- TwoThreads
  MainTid = t1
  CsPin = FALSE
  SpinWindow = 0
  PinCap = 2
  MaxHeld = 0
  Exits = FALSE
  Timeouts = {"timed", "inf"}
PROPERTIES StoreEndsWait
CHECK_DEADLOCK FALSE
