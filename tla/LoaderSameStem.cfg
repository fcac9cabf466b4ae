SPECIFICATION ImportSpec
CONSTANTS
  a = a
  b = b
  c = c
  x = x
  y = y
  Names = {a, b, c}
  BinNames = {m}
  Spellings = {"abs", "lib"}
  CanonOf <- MCTwoDirs
  Search <- MCSearch
  Exists <- MCTwoExist
  Symbols = {x, y}
  Defs <- MCDefs
  BinDefs <- MCBinDefs
  Requires <- MCRequires
  MaxNesting = 2
  None = None
INVARIANTS NoDangling
CHECK_DEADLOCK FALSE
