SPECIFICATION Spec
CONSTANTS
  a = a
  b = b
  c = c
  x = x
  y = y
  Names = {a, b, c}
  BinNames = {m}
  Spellings = {"abs"}
  CanonOf <- MCCanonOf
  Search <- MCSearch
  Exists <- MCExists
  Symbols = {x, y}
  Defs <- MCDefs
  BinDefs <- MCBinDefs
  Requires <- MCRequires
  MaxNesting = 2
  None = None
INVARIANTS PointersLive RegistryExact DepsFirst NoReentry
PROPERTIES TopLevelOnce
CHECK_DEADLOCK FALSE
