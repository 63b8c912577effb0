SPECIFICATION Spec
CONSTANTS
    KeepX = 4
    MaxDeploys = 4
    MayCrash = FALSE
    MaxFaults = 0
INVARIANTS
    FailureRollsBack
\* the bounded number of deployments is over
CHECK_DEADLOCK FALSE
