SPECIFICATION Spec
CONSTANTS
  base = base  twin = twin
  Prefixes <- TwoPrefixes
  Base = base
  Files <- SharedFiles
  Commands <- CommandsOfFiles
  Absent = absent
  Torn = torn
CONSTRAINTS OneKind MissingOnce PrefsOnce
INVARIANTS TypeOK OriginalRecoverable NativeHasPayload RestoreRollsBack
PROPERTIES BackupSticks
