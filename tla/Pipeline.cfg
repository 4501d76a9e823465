SPECIFICATION FairSpec
CONSTANTS
    Calls = {c1, c2}
    Streams = {s1}
    Reads = {q1}
    Nobody = Nobody
    ShardCount = 2
    ChanCap = 1
INVARIANTS
  SerialRecordsMatch
  StreamSeesEveryRow
PROPERTIES
  CallReturns
CHECK_DEADLOCK FALSE
