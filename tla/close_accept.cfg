SPECIFICATION FairSpec
CONSTANTS
  Clients = {"c1"}
  Commands = {"close"}
  MaxClients = 0
  MaxBacklog = 1
PROPERTY CloseServer
CHECK_DEADLOCK FALSE
