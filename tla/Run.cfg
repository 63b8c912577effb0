SPECIFICATION FairRunSpec
CONSTANTS
    PartyCount = 2
    PhaseCount = 2
    PoolSizes = {1, 2}
    Awaits <- AwaitOthers
    Errors = FALSE
    ListenersThrow = TRUE
INVARIANTS
    LatchMeansSettled
    CountersExact
    ScopeKeptWhileRunning
PROPERTIES
    RunReturns
\* the run ends
CHECK_DEADLOCK FALSE
