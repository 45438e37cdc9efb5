SPECIFICATION Spec
CONSTANTS
  p1 = p1
  p2 = p2
  p3 = p3
  Packets <- ThreePackets
  NeedACK <- TwoNeedACK
  MaxInbox = 1
INVARIANTS
  EveryPacketAttempted
CHECK_DEADLOCK FALSE
