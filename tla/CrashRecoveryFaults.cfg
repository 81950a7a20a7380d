\* Every system call may fail, and the database fills up.
SPECIFICATION Spec
CONSTANTS
  MAX_RECORDS = 2
  Names = {n1, n2}
  NoName = NoName
  Faults = {"write", "fsync", "msync", "ftruncate"}
  MaxId = 3
  MaxWal = 4
SYMMETRY NameSymmetry
INVARIANTS TypeOK UniqueIds LogBeforeApply
PROPERTY SlotIdStable
