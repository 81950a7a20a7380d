SPECIFICATION Spec
CONSTANTS
  MAX_RECORDS = 2
  Names = {n1, n2}
  NoName = NoName
  Faults = {}
  MaxId = 3
  MaxWal = 7
PROPERTY InsertIsNew
