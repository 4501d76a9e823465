\* Two calls of any kind over one connection, two rows, a channel of one.
SPECIFICATION FairSpec
CONSTANTS
    c1 = c1
    c2 = c2
    Calls = {c1, c2}
    NoCall = NoCall
    Workloads <- TwoCalls
    MaxId = 3
    MaxRows = 2
    ChanCap = 1
INVARIANTS
  TypeOK
  OwnFrames
PROPERTIES
  ImplementsRemoteCalls
  AnswerArrives
CHECK_DEADLOCK FALSE
