SPECIFICATION Spec
CONSTANTS
  NumClients = 3
  MaxClients = 2
  MaxReq = 2
  MaxSent = 2
  HeaderLen = 2
  BodyLen = 1
  WelcomeLen = 1
  Room = 7
  Resets = TRUE
INVARIANTS TrackedIsOpen
CHECK_DEADLOCK FALSE
