SPECIFICATION Spec
CONSTANTS
  Clients = {"c1", "c2"}
  Commands <- EveryCommand
  MaxClients = 1
  MaxBacklog = 1
INVARIANTS
  TypeOK
  IteratorsValid
  SocketOpenInCall
  QuietAfterClose
  CleanerRestartSafe
  WaitsEnd
  CoreInv
PROPERTIES
  ImplementsLifecycle
  OnlySendLeaks
CHECK_DEADLOCK FALSE
