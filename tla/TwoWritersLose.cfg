SPECIFICATION Spec
CONSTANTS
    Writers = {w1, w2}
    Readers = {}
    NumPeriods = 2
    PeriodSec = 3
    ExportSec = 1
    MaxPost = 0
    MaxLag = 1
    Nsecs = {0}
    MaxTime = 8
    MaxEvents = 0
INVARIANT NoneExpiresUnpushed
