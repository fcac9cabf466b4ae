SPECIFICATION SpecStale
CONSTANTS
  Cap = 3
  SizeMod = 5
  HeapAddrBit = TRUE
  Null = Null
  Wild = Wild
PROPERTY FreeIsIdempotent
CHECK_DEADLOCK FALSE
