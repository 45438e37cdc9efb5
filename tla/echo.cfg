SPECIFICATION FairSpec
CONSTANTS
  a = a
  b = b
  Peers <- TwoPeers
  MAX_LEN = 2
  MaxBytes = 4
  Window = 3
INVARIANTS
  TypeOK
  EchoesInOrder
  ClosedIsComplete
  EchoInv
PROPERTIES
  ImplementsStream
  EverySessionEnds
CHECK_DEADLOCK FALSE
