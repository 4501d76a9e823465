CONSTANTS
    Sessions = {s1, s2}
    MaxCalls = 3
    MaxEffects = 2
    LogCap = 1
    None = None
    Failed = Failed
SYMMETRY Symmetry
SPECIFICATION Spec
CHECK_DEADLOCK FALSE
INVARIANT AnswersAreOwn
INVARIANT GuestStateAgrees
