SPECIFICATION PartSpec
CONSTANTS
    p1 = p1
    p2 = p2
    p3 = p3
    i1 = i1
    i2 = i2
    r1 = r1
    r2 = r2
    f = f
    None = None
    NoFilter = NoFilter
    Filter <- Filters
    Policies = {p1, p2, p3}
    Inputs = {i1, i2}
    Reach <- ThreeReach
    ResourcesName <- TakenNames
    ResourcesPlugin = TRUE
    Deletable = {p1, p3, r1}
    Interval = 3
    Timeout = 2
    Ttl = 3
    MaxCancels = 2
INVARIANTS
    NothingLeaked
    PoliciesServed
    NoDanglingPointer
    OutcomeOnce
    EndsAreClean
PROPERTIES
    RequestsEnd
    EverythingEnds
CHECK_DEADLOCK FALSE
