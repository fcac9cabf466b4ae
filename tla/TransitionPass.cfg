SPECIFICATION Spec
CONSTANTS
  States = {a, b, c}
  Initial = a
  NoState = NoState
  Callers = {"host", "trans", "code", "exit"}
  Sleepers = {"code"}
  MaxDepth = 4
INVARIANTS StateFits NoTearDown LastRequestWins
