SPECIFICATION FairSpec
CONSTANTS
  Producers = {p1, p2}
  Consumers = {c1, c2, c3}
  Values = {a, b}
  None = None
  MaxLen = 2
INVARIANTS
  TypeOK
  NoLostWakeup
  FrontIsThere
PROPERTIES
  ImplementsFifo
  WaitersAreServed
