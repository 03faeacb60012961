SPECIFICATION Spec
CONSTANTS
    Exporters = {"e1", "e2"}
    ShiftReads = TRUE
    Samples = {1, 2, 3}
    MaxSamples = 4
INVARIANT
    ExportsKeepSamples
CHECK_DEADLOCK FALSE
