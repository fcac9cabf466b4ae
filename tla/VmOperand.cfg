CONSTANTS
  Names = {"x", "y", "z", "p", "q"}
  Fuel = 6
  ArgRegisters = 24
  MaxRegisters = 34
  StringsBase = 500
  Allowed = {"operand"}
  Programs <- MCPrograms
  Sid <- MCSid
SPECIFICATION Spec
INVARIANT ResultMatches
CHECK_DEADLOCK FALSE
