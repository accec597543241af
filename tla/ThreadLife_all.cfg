\* Three workers over one handle, two TLS rows and two gates: everything is reused.
SPECIFICATION ThreadSpec
CONSTANTS
  MainTid = 1
  Worker = {2, 3, 4}
  Handle = {1}
  Row = {1, 2}
  GateMax = 2
  Callers = {1, 2}
  Failures = TRUE
CHECK_DEADLOCK FALSE
INVARIANTS ThreadsAccounted SignalledMeansEnded
PROPERTIES TlsKept ThreadsProceed
