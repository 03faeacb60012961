SPECIFICATION Spec
CONSTANTS
    Flows = {f1}
    XIds = {x1}
    L3Key = l3
    NoXact = NoXact
    Transports = {"tcp"}
    TtlMs = 2400
    Period = 4
    Ticks = {600}
    MaxPackets = 2
    MaxTime = 6
PROPERTY OrphanHasNoQuery
CHECK_DEADLOCK FALSE
