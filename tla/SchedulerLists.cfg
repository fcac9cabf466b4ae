SPECIFICATION LiveSpec
CONSTANTS
  NumPids = 3
  MaxSleep = 2
  TickMod = 4
  NoPid = NoPid
  NoTick = NoTick
INVARIANTS EachInOnePlace WellFiled VisitedOncePerTick SleepIsExact
PROPERTIES NobodyStarves
