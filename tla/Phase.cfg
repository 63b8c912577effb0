SPECIFICATION FairSpec
CONSTANTS
    PartyCount = 2
    SchedulerDown = TRUE
INVARIANTS
    FinalOnceAfterAll
    FinalShowsTheRest
PROPERTIES
    
    PhaseClosed
\* the phase is over
CHECK_DEADLOCK FALSE
