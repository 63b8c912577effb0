SPECIFICATION Spec
CONSTANTS
    KeepX = 4
    MaxDeploys = 4
    MayCrash = TRUE
    MaxFaults = 1
INVARIANTS
    SuccessServesBuild
    TargetSurvives
    RollbackRestores
    SavedReleasesExist
    HostIsBounded
PROPERTIES
    CurrentStays
\* the bounded number of deployments is over
CHECK_DEADLOCK FALSE
