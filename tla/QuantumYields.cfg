SPECIFICATION QSpec
CONSTANTS
  NumPids = 2
  MaxSleep = 1
  TickMod = 3
  NoPid = NoPid
  NoTick = NoTick
  NoFrame = NoFrame
  Yielders = {"trans", "track", "code", "post"}
  Spawners = {"track", "code", "post"}
  Faulters = {"code"}
  Handlers = {}
INVARIANTS FlagIsConsumed
PROPERTIES ThreadKept
