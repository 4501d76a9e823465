SPECIFICATION Spec
CONSTANTS
  Indices = {i1, i2, i3, i4}
  Providers = {p1, p2}
  WalCapacity = 2
  IpcCapacity = 2
  ReuseIndices = FALSE
  MaxRows = 4
  MaxWals = 5
  MaxHalts = 2
  MaxFaults = 1
  None = None
  i1 = i1
  i2 = i2
  i3 = i3
  i4 = i4
  p1 = p1
  p2 = p2
SYMMETRY Symmetry
INVARIANTS
  ReadsSeePushes
  RowsOnDisk
  NoRowTwice
PROPERTIES
  GuardedFileStays
CHECK_DEADLOCK FALSE
