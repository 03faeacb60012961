SPECIFICATION Spec
CONSTANTS
    Threads = {t1, t2}
    Taps = {x1}
    Policies = {}
    None = None
    MaxRequests = 4
PROPERTY RequestsEnd
CHECK_DEADLOCK FALSE
