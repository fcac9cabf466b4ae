SPECIFICATION Spec
CONSTANTS
  States = {a, b, c}
  Initial = a
  NoState = NoState
  Callers = {"post"}
  Sleepers = {"code"}
  MaxDepth = 4
INVARIANTS NoTearDown
