SPECIFICATION FairSpec
CONSTANTS
  MaxFrames = 2
  Clients = {c1}
CHECK_DEADLOCK FALSE
PROPERTY StopReachesServer
