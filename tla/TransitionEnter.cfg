SPECIFICATION Spec
CONSTANTS
  States = {a, b, c}
  Initial = a
  NoState = NoState
  Callers = {"enter"}
  Sleepers = {}
  MaxDepth = 4
INVARIANTS CodeOfState
