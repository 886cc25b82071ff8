SPECIFICATION Spec
CONSTANTS
  f1 = f1  f2 = f2  i1 = i1  i2 = i2  i3 = i3
  Fetchers <- MCFetchers
  Inodes <- MCInodes
  Chunks = 2
  None = none
  Overlap = FALSE
SYMMETRY FetchSymmetry
INVARIANTS TypeOK VerifiedUse
PROPERTY PromotesPinned
