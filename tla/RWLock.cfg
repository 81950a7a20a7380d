SPECIFICATION FairSpec
CONSTANTS
  Readers = {r1, r2, r3}
  Writers = {w1, w2}
  DataModulus = 2
INVARIANT
  TypeOK
  Exclusive
  CountsExact
  NoLostWakeup
PROPERTY
  StableWhileReading
  WriterGetsIn
