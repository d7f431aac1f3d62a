SPECIFICATION Spec
CONSTANTS
  MaxFrames = 2
  Clients = {c1, c2}
CHECK_DEADLOCK FALSE
PROPERTY SentToAllConnected
