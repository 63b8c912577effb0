SPECIFICATION RunSpec
CONSTANTS
    PartyCount = 2
    PhaseCount = 1
    PoolSizes = {2}
    Awaits <- NoAwaits
    Errors = FALSE
    ListenersThrow = TRUE
INVARIANT FailuresAreReported
\* the run ends
CHECK_DEADLOCK FALSE
