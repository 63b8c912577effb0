SPECIFICATION Spec
CONSTANTS
    Defs <- MCDefs
    Tasks <- MCTasks
    Callables <- MCCallables
    Inner <- MCInner
    Rollback <- MCRollback
    NoDef = NoDef
    Here <- MCHere
    Script <- MCScript
    MaxInner = 2
INVARIANTS
    FailureIsKept
    NothingGoesOn
    PrerequisitesMet
    RolledBackOnce
PROPERTIES
    ImplementsPromise
\* the session ends
CHECK_DEADLOCK FALSE
