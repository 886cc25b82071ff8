SPECIFICATION Spec
CONSTANTS
  l1 = l1  l2 = l2  fast = fast  slow = slow
  Launchers <- MCLaunchers
  Speeds <- MCSpeeds
  Zero = zero
  NoMatch = nomatch
  Absent = absent
  Torn = torn
  Closed = closed
  MaxSaves = 1
  MaxEdits = 2
SYMMETRY LauncherSymmetry
INVARIANTS TypeOK OffIsReversible
PROPERTIES SkipsRunning OtherPreferencesKept MarkerSticks
