SPECIFICATION FairSpec
CONSTANTS
  Slowest = 1
  HelperLimit = 2
  WaitLimit = 4
  InitiallyOn = TRUE
INVARIANTS TypeOK CompleteSound LoggingRestored
PROPERTY RecorderEnds
CHECK_DEADLOCK FALSE
