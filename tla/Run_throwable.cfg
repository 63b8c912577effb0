SPECIFICATION RunSpec
CONSTANTS
    PartyCount = 1
    PhaseCount = 1
    PoolSizes = {1}
    Awaits <- NoAwaits
    Errors = FALSE
    ListenersThrow = FALSE
INVARIANT StatsCountBroken
\* the run ends
CHECK_DEADLOCK FALSE
