SPECIFICATION RaceSpec
CONSTANTS
    p1 = p1
    p2 = p2
    p3 = p3
    i1 = i1
    i2 = i2
    r1 = r1
    r2 = r2
    f = f
    None = None
    NoFilter = NoFilter
    Filter <- Filters
    Policies = {p1, p2}
    Inputs = {i1}
    Reach <- OneReach
    ResourcesName <- OwnNames
    ResourcesPlugin = TRUE
    Deletable = {p1, p2, r1}
    Interval = 3
    Timeout = 2
    Ttl = 3
    MaxCancels = 2
INVARIANT NoDanglingPointer
CHECK_DEADLOCK FALSE
