SPECIFICATION FairSpec
CONSTANTS
  p1 = p1
  p2 = p2
  Packets <- TwoPackets
  NeedACK <- OneNeedsACK
  Frames <- EitherFrame
  MaxInbox = 1
  MaxMessages = 1
INVARIANTS
  TypeOK
  ClosedClean
  RetryKept
  NewestSent
  ClientInv
PROPERTIES
  ImplementsLifecycle
  StoppedSessionEnds
CHECK_DEADLOCK FALSE
