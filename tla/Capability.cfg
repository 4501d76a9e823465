SPECIFICATION FairSpec
CONSTANTS
    Starts = 2
    Addrs = {a1}
    Shards = {k1}
    Data = {d1, d2}
    Nothing = Nothing
    MaxTries = 0
    MaxCalls = 2
INVARIANTS
  CallsAreRouted
  ChildrenHaveOwners
PROPERTIES
  StartEnds
CHECK_DEADLOCK FALSE
