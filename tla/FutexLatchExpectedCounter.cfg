SPECIFICATION Spec
CONSTANTS
  Workers = {0, 1}
  Coordinator = coordinator
  Monitor = monitor
  BaseIterations = 1
  MoreIterations = 2
  MaxSpins = 2
INVARIANT ExpectedCounter
