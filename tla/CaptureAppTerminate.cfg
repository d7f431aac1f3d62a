SPECIFICATION AppSpec
CONSTANTS
  MaxFrames = 2
  Bindings = {"stream"}
CHECK_DEADLOCK FALSE
INVARIANT NeverTerminated
