SPECIFICATION FairSpec
CONSTANTS
    PartyCount = 3
    PhaseCount = 2
    PoolSizes = {2, 3}
    Awaits <- AwaitOthers
    Errors = TRUE
    ListenersThrow = TRUE
INVARIANTS
    NobodyLeftWaiting
    CellsSettleInOrder
    FailedMeansBroken
    AllFinishedIsLast
    PhaseAnnouncedOnce
PROPERTIES
    AllPartiesFinish
    ImplementsPromise
\* the grid is used once: its threads and its starter end
CHECK_DEADLOCK FALSE
