SPECIFICATION SpecKillHeld
CONSTANTS
  NumPids = 2
  MaxSleep = 1
  TickMod = 3
  NoPid = NoPid
  NoTick = NoTick
INVARIANTS HeldExists
