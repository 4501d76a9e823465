SPECIFICATION LogSpec
CONSTANTS
  Capacity = 2
  BatchSizes = {1, 3}
  Keeps = {0, 1, 3}
  MaxEntries = 7
  MaxSegments = 6
  MaxCrashes = 2
  Absent = Absent
INVARIANTS
  IndexFindsEntries
  AckedEntriesKept
CHECK_DEADLOCK FALSE
