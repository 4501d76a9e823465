SPECIFICATION Spec
CONSTANTS
  Clients = {c1, c2}
  c1 = c1
  c2 = c2
  Limits = {1, 2}
  MaxTurns = 3
  MaxSessions = 2
  MaxDisturbed = 0
  MaxCrashes = 1
  None = None
SYMMETRY ClientSymmetry
INVARIANTS
  StepSeesHistory
  TranscriptsAreWhole
  AckedTurnsKept
CHECK_DEADLOCK FALSE
