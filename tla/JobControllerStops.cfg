SPECIFICATION FairSpec
CONSTANTS
  Programs = {"jobs"}
  MAX = 3
  PipeCapacity = 7
  Cells = {"x", "y", "EO", "F"}
  Texts = {1, 2}
  MaxRuns = 3
  MaxTurns = 3
  Connections = {1, 2, 3}
  MaxMessages = 1
  MAX_SERVED = 2
  MAX_CHILDREN = 2
  MaxPids = 4
  MaxSignals = 2
  Workers = {1, 2, 3}
  increments = 2
  Transfers <- MCOther
  Failing <- MCNone
CHECK_DEADLOCK FALSE
PROPERTY ChildrenStopped
