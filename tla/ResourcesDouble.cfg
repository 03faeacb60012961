SPECIFICATION Spec
CONSTANTS
    MaxPolicies = 2
    MaxShifts = 4
    MaxClosed = 2
    Calm = FALSE
INVARIANT
    PolicyCountExact
CHECK_DEADLOCK FALSE
