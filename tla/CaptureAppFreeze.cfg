SPECIFICATION AppFairSpec
CONSTANTS
  MaxFrames = 2
  Bindings = {"stream"}
CHECK_DEADLOCK FALSE
PROPERTY StopReturns
