SPECIFICATION QSpec
CONSTANTS
  NumPids = 2
  MaxSleep = 1
  TickMod = 3
  NoPid = NoPid
  NoTick = NoTick
  NoFrame = NoFrame
  Yielders = {"track"}
  Spawners = {"code"}
  Faulters = {}
  Handlers = {"enter"}
PROPERTIES ThreadKept
