\* One program per mechanism, three threads.
SPECIFICATION LiveSpec
CONSTANTS
  MaxThreads = 3
  Cap = 3
  MaxEvents = 2
  Cv = {"c", "d"}
  MaxCvs = 1
  Programs <- AllPrograms
  Later <- LaterPrograms
  RealTimeouts = TRUE
  Careful = TRUE
  Watched = {1}
  MaxWakes = 1
  MaxLoads = 2
CHECK_DEADLOCK FALSE
INVARIANTS CoopConsistent NothingLostCoop
PROPERTIES RingsImplementMailbox CoopProgress
