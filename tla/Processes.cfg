\* Buffers of three cells, so that the marker may come behind data in one read;
\* one connection more than the server of checkLatency serves.
\* Processes end, wait for a user, or for each other for ever: see
\* FileTransferEnds.cfg.
SPECIFICATION FairSpec
CONSTANTS
  Programs = {"transfer", "shm", "chat", "select", "jobs", "counter", "hub", "conn"}
  MAX = 3
  PipeCapacity = 7
  Cells = {"x", "y", "EO", "F"}
  Texts = {1, 2}
  MaxRuns = 3
  MaxTurns = 3
  Connections = {1, 2, 3}
  MaxMessages = 1
  MAX_SERVED = 2
  MAX_CHILDREN = 2
  MaxPids = 4
  MaxSignals = 2
  Workers = {1, 2, 3}
  increments = 2
  Transfers <- MCFiles
  Failing <- MCEnds
CHECK_DEADLOCK FALSE
INVARIANT
  TypeOK
  HandedOver
  EchoSound
  ZombiesReaped
PROPERTY
  Completes
