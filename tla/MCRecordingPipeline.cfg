SPECIFICATION FairSpec
CONSTANT MaxFrames = 3
INVARIANTS
  TypeOK
  BufferOwnership
  FrameConservation
  CaptureOrder
  ResourcesOutliveThreads
  
  AtMostOneFrameLost
PROPERTY StopEndsOrStarves
