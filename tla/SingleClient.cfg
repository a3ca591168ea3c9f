SPECIFICATION FairSpec
CONSTANTS
  c1 = c1
  c2 = c2
  NoJob = NoJob
  serverInstances = 2
  Client <- OneClient
  Script <- TwoCommands
  ServerList <- SameOrder
  MaxCrashes = 0
  MaxTimeouts = 0
PROPERTIES AllAnswered
\* Clients end, and the servers then wait for connections.
CHECK_DEADLOCK FALSE
