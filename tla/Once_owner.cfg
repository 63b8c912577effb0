SPECIFICATION Spec
CONSTANTS
    Threads = {t1, t2}
    NoThread = NoThread
    Pending = Pending
    MaxCalls = 1
    Errors = FALSE
    GetTimesOut = FALSE
INVARIANT OwnerRanItsCallable
CHECK_DEADLOCK FALSE
