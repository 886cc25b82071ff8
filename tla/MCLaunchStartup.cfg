SPECIFICATION FairSpec
CONSTANTS
  l1 = l1  l2 = l2  l3 = l3  stableRt = stableRt  perfRt = perfRt  none = none  nobody = nobody
  Launchers <- MCLaunchers
  Runtimes <- MCRuntimes
  Stable = stableRt
  Performance = perfRt
  NoRuntime = none
  NoOwner = nobody
  Commands <- EveryProgram
  Selections <- SavedOnly
  Overlap = TRUE
PROPERTY StartupEnds
