CONSTANTS
  Names = {"x", "y", "z", "p", "q"}
  Fuel = 6
  ArgRegisters = 24
  MaxRegisters = 34
  StringsBase = 500
  Allowed = {}
  Programs <- MCPrograms
  Sid <- MCSid
SPECIFICATION Spec
INVARIANTS FramesSound ResultMatches
PROPERTIES Terminates
CHECK_DEADLOCK FALSE
