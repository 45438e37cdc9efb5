SPECIFICATION FairSpec
CONSTANTS
  Sizes <- BoundarySizes
  MaxAttempts = 5
INVARIANTS
  TypeOK
  StartedHasSocket
  NoSession
  AuthPacketInBounds
PROPERTIES
  StartReturns
CHECK_DEADLOCK FALSE
