SPECIFICATION FairSpec
CONSTANTS
  Workers = {0, 1, 2}
  Coordinator = coordinator
  Monitor = monitor
  BaseIterations = 0
  MoreIterations = 1
  MaxSpins = 2
INVARIANT
  TypeOK
  NoSleeperMissed
  LatchesHold
  CounterNotAhead
PROPERTY
  AllReturn
