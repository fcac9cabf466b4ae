SPECIFICATION QLiveSpec
CONSTANTS
  NumPids = 2
  MaxSleep = 1
  TickMod = 3
  NoPid = NoPid
  NoTick = NoTick
  NoFrame = NoFrame
  Yielders = {"code"}
  Spawners = {}
  Faulters = {}
  Handlers = {}
PROPERTIES CodeRuns
