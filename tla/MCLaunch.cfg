SPECIFICATION Spec
CONSTANTS
  l1 = l1  l2 = l2  l3 = l3  stableRt = stableRt  perfRt = perfRt  none = none  nobody = nobody
  Launchers <- ThreeLaunchers
  Runtimes <- MCRuntimes
  Stable = stableRt
  Performance = perfRt
  NoRuntime = none
  NoOwner = nobody
  Commands <- GuardedCommands
  Selections <- SavedOnly
  Overlap = FALSE
SYMMETRY LaunchSymmetry
INVARIANTS TypeOK SingleRuntime
PROPERTIES SessionSpec
