SPECIFICATION Spec
CONSTANTS
  caller = caller
  target = target
  Names = {caller, target}
  Needs <- MCNeeds
  a1 = a1
  Addrs = {a1}
  StartAddrs = {None}
  StartPaths = {TRUE}
  u1 = u1
  Uuids = {u1}
  c1 = c1
  c2 = c2
  Clients = {c1, c2}
  Daemon = Daemon
  MaxRequests = 3
  MaxFaults = 1
  MaxCrashes = 1
  None = None
SYMMETRY ClientSymmetry
INVARIANTS
  AnswersHold
  CallbacksAgree
PROPERTIES
  RunningDirStays
