SPECIFICATION PartSpec
CONSTANTS
    Flows = {f1}
    XIds = {x1}
    L3Key = l3
    NoXact = NoXact
    Transports = {"udp"}
    TtlMs = 2400
    Period = 4
    Ticks = {600}
    MaxPackets = 3
    MaxTime = 6
INVARIANTS
    QueriesEndOnce
    OpenAreRecent
    FlowsReadAsSent
    
    StreamsAreWhole
    CountedAsFiltered
    ProbesTellTruth
PROPERTIES
    CountedInTime
    NotPurgedYoung
    OrphanHasNoQuery
CHECK_DEADLOCK FALSE
