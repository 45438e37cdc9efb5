SPECIFICATION Spec
CONSTANTS
  Clients = {"c1"}
  Commands <- EveryCommand
  MaxClients = 0
  MaxBacklog = 1
INVARIANT EnabledCleanerRuns
CHECK_DEADLOCK FALSE
