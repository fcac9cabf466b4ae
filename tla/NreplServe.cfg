SPECIFICATION Spec
CONSTANTS
  NumClients = 3
  MaxClients = 2
  MaxReq = 2
  MaxSent = 2
  HeaderLen = 2
  BodyLen = 2
  WelcomeLen = 2
  Room = 7
  Resets = FALSE
INVARIANTS TracksExactly RequestsInOrder
PROPERTIES DroppedForCause TickComes
CHECK_DEADLOCK FALSE
