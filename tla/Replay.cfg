SPECIFICATION FairSpec
CONSTANTS
    Requests = {r1, r2}
    NoRequest = NoRequest
    TotalRows = 3
    Concurrency = 2
INVARIANTS
  TypeOK
  ReportIsFinal
  StopStartsAtMostOne
PROPERTIES
  RunningKeepsHandle
  HandleGoes
CHECK_DEADLOCK FALSE
