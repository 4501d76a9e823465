SPECIFICATION CacheSpec
CONSTANTS
    Builders = {b1, b2}
    Loaders = {l1}
    Slots = {k1, k2}
    Sources <- AllSources
    Shipped = {"lib", "interface"}
    None = None
    Torn = Torn
    MaxCalls = 2
    MaxLoads = 1
    MaxEvents = 1
SYMMETRY Interchangeable
INVARIANTS
  ArtifactsMatch
CHECK_DEADLOCK FALSE
