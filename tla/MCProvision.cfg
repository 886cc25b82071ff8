SPECIFICATION Spec
CONSTANTS
  base = base  twin = twin  corefonts = corefonts  dxvk = dxvk
  Prefixes <- MCPrefixes
  Base = base
  Preparable <- MCPreparable
  Verbs <- MCVerbs
  Browser = gecko
SYMMETRY VerbSymmetry
INVARIANTS TypeOK PreparedComplete AppWhole
