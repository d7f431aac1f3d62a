SPECIFICATION VideoSpec
CONSTANTS
  MaxPackets = 2
  MaxTime = 6
CHECK_DEADLOCK FALSE
INVARIANT PlaysLatest
