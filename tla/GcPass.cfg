SPECIFICATION AbortFairSpec
CONSTANTS
  NumArenas = 3
  Cap = 1
  Classes = {small}
  CycleMod = 3
  MaxAborts = 1
  Budgets = {1, 2}
  MaxRefs = 1
  SizeMod = 2
  None = None
INVARIANTS HeapInv ReachableStaysAllocated CompletePassReclaims
PROPERTIES CycleIsFreshAtStart PassTerminates
CHECK_DEADLOCK FALSE
