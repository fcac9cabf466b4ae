SPECIFICATION SpecWakeUp
CONSTANTS
  NumPids = 2
  MaxSleep = 1
  TickMod = 3
  NoPid = NoPid
  NoTick = NoTick
PROPERTIES WokenIsQueued
