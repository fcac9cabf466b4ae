SPECIFICATION Spec
CONSTANTS
  Cap = 5
  SizeMod = 7
  HeapAddrBit = TRUE
  Null = Null
  Wild = Wild
INVARIANTS ArenaIntact
PROPERTIES ImplementsPool
CHECK_DEADLOCK FALSE
