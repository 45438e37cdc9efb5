SPECIFICATION Spec
CONSTANTS
  p1 = p1
  p2 = p2
  Packets <- TwoPackets
  NeedACK <- NoneNeedsACK
  Frames <- FactoryFrames
  MaxInbox = 1
  MaxMessages = 1
INVARIANTS
  BreaksOnlyWhenLost
CHECK_DEADLOCK FALSE
