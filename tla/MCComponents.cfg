SPECIFICATION ComponentsSpec
CONSTANTS
  MaxFrames = 2
  MaxRead = 2
  MaxSends = 2
  Streams <- MCStreams
  payload_size_basic = 1
  payload_size_extended = 2
  max_message_size = 3
  Requests <- MCRequests
  max_header_size = 26
  max_body_size = 2
  MaxMessages = 4
  BoxKinds <- MCBoxKinds
  MaxBoxes = 3
  MaxFailures = 2
  MaxPackets = 2
  MaxTime = 6
CHECK_DEADLOCK FALSE
INVARIANTS
  WSTypeOK
  OneWriteAtATime
  WireInOrder
  QueuedIsOwed
  OpenIsServed
  
  RequestAsSent
  ShortHeadersPass
  QueueMoves
  PlayedInOrder
  FilterKeepsMedia
  LeaksAreFailures
  
PROPERTIES
  ImplementsLife
  ClosingEnds
  HandshakeEnds
