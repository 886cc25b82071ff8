SPECIFICATION Spec
CONSTANTS
  base = base  twin = twin
  Prefixes <- TwoPrefixes
  Base = base
  Files <- D3D12Files
  Commands <- OnlyD3D12
  Absent = absent
  Torn = torn
INVARIANT RetainedWhole
