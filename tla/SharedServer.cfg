SPECIFICATION FairSpec
CONSTANTS
  c1 = c1
  c2 = c2
  NoJob = NoJob
  serverInstances = 2
  Client <- TwoClients
  Script <- OneOfEach
  ServerList <- SecondComesOver
  MaxCrashes = 0
  MaxTimeouts = 0
INVARIANTS PolledOnce AcceptedIsHeld ClockPastEntries WaitsInOrder
PROPERTIES EventuallyReplicated
\* Clients end, and the servers then wait for connections.
CHECK_DEADLOCK FALSE
