SPECIFICATION Spec
CONSTANTS
  c1 = c1
  c2 = c2
  NoJob = NoJob
  serverInstances = 2
  Client <- TwoClients
  Script <- OneCommand
  ServerList <- CrossedLists
  MaxCrashes = 0
  MaxTimeouts = 0
INVARIANTS MutualExclusion
\* Clients end, and the servers then wait for connections.
CHECK_DEADLOCK FALSE
