SPECIFICATION PartSpec
CONSTANTS
    MaxEventsSmall = 2
    MaxEventsLarge = 1
    MaxWindows = 2
    MaxDrops = 3
    MaxPolicies = 2
    MaxShifts = 4
    MaxClosed = 2
    Calm = TRUE
    Epochs = {1, 2, 3}
INVARIANTS
    MergesLoseNothing
    ExportsAgree
    CountsBalance
    StoppedIsDisconnected
    PolicyCountExact
CHECK_DEADLOCK FALSE
