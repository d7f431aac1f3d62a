SPECIFICATION Spec
CONSTANTS
  MaxFrames = 2
  Clients = {c1, c2}
SYMMETRY ClientSymmetry
CHECK_DEADLOCK FALSE
INVARIANTS
  LiveTypeOK
  LoopOverStableSet
  NoMissedClient
  StreamInOrder
  UseBeforeRelease
PROPERTY ConnectionsLive
