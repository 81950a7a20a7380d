\* Two slots and three ids: the database fills up and an id can be met twice.
\* Seven cells: three whole entries and a torn one.
SPECIFICATION Spec
CONSTANTS
  MAX_RECORDS = 2
  Names = {n1, n2}
  NoName = NoName
  Faults = {"fsync"}
  MaxId = 3
  MaxWal = 7
SYMMETRY NameSymmetry
INVARIANT AckedAfterRecovery
