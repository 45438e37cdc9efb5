SPECIFICATION FairSpec
CONSTANTS
  Clients = {"c1"}
  Commands <- EveryCommand
  MaxClients = 0
  MaxBacklog = 1
PROPERTIES
  CloseServerUnlessStuck
CHECK_DEADLOCK FALSE
