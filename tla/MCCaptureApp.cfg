SPECIFICATION AppFairSpec
CONSTANTS
  MaxFrames = 2
  Bindings = {"null", "stream"}
CHECK_DEADLOCK FALSE
INVARIANTS
  OneSession
  StartMeansStopped
  ExitIsClean
PROPERTY StopReturnsOrStarves
