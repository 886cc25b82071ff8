SPECIFICATION Spec
CONSTANTS
  Openings = 4
  Windows = 2
  Prompt = TRUE
  Images <- MCImages
  Blank = {28}
  Size = 1
  Difference <- MCDifference
INVARIANTS TypeOK OwnMap CompleteProfiles
CHECK_DEADLOCK FALSE
