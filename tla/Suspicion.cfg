SPECIFICATION Spec
CONSTANTS
  c1 = c1
  c2 = c2
  NoJob = NoJob
  serverInstances = 3
  Client <- OneClient
  Script <- OneCommand
  ServerList <- FirstServer
  MaxCrashes = 1
  MaxTimeouts = 1
INVARIANTS TypeOK ReplicatedBeforeAnswer AtMostOnce
\* Clients end, and the servers then wait for connections.
CHECK_DEADLOCK FALSE
