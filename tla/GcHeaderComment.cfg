SPECIFICATION Spec
CONSTANTS
  NumArenas = 3
  Cap = 1
  Classes = {small}
  CycleMod = 2
  Budgets = {1, 2}
  MaxRefs = 1
  SizeMod = 4
  None = None
CHECK_DEADLOCK FALSE
INVARIANT LiveObjectHasCycle
