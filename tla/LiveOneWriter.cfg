SPECIFICATION Spec
CONSTANTS
    Writers = {w1}
    Readers = {}
    NumPeriods = 2
    PeriodSec = 5
    ExportSec = 2
    MaxPost = 1
    MaxLag = 1
    Nsecs = {0}
    MaxTime = 16
    MaxEvents = 2
INVARIANTS MarkerExact NoneExpiresUnpushed EventInItsWindow WholeEvents
PROPERTIES ClosedFrozen ExportsEachWindowOnce
