SPECIFICATION FairSpec
CONSTANTS
    Hosts = {"a", "b"}
    Plans <- SmallPlans
    MaxRuns = 2
INVARIANTS
    TypeOK
    LatestResult
    IdleMeansIdle
    RunningIsCurrent
PROPERTIES
    OnlyMeantIsInterrupted
    PendingEnds
    CancelReaches
    OverallEnds
\* the plan is carried out and nothing is left to cancel
CHECK_DEADLOCK FALSE
