SPECIFICATION FairSpec
CONSTANTS
  Clients = {}
  Commands <- SendAndClose
  MaxClients = 0
  MaxBacklog = 0
PROPERTY CloseServer
CHECK_DEADLOCK FALSE
