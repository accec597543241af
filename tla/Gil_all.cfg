\* Both pins, exits, and waits on an address that time out.
SPECIFICATION AddrSpec
CONSTANTS
  t1 = t1
  t2 = t2
  t3 = t3
  Tid <- ThreeThreads
  MainTid = t1
  CsPin = TRUE
  SpinWindow = 2
  PinCap = 2
  MaxHeld = 1
  Exits = TRUE
  Timeouts = {"timed"}
INVARIANTS GilTypeOK OneRunner BlockedOwnsNothing ContendersCounted
PROPERTIES GilMovesOn
CHECK_DEADLOCK FALSE
