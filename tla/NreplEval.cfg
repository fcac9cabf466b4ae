SPECIFICATION Spec
CONSTANTS
  NumClients = 3
  MaxClients = 2
  MaxReq = 2
  MaxSent = 2
  HeaderLen = 2
  BodyLen = 1
  WelcomeLen = 3
  Room = 8
  Resets = FALSE
PROPERTIES EvalGetsItsResult
CHECK_DEADLOCK FALSE
