SPECIFICATION FairSpec
CONSTANTS
    Threads = {t1, t2, t3}
    NoThread = NoThread
    Pending = Pending
    MaxCalls = 2
    Errors = TRUE
    GetTimesOut = TRUE
INVARIANTS
    AtMostOneExecution
    SharedResult
    NobodyWaitsForNothing
PROPERTIES
    EveryCallerServed
    ImplementsPromise
\* threads stop when their calls are used up, or wait for ever after an Error
CHECK_DEADLOCK FALSE
