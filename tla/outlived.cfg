CONSTANTS
    Message = {m1, m2}
    Attempt = {1, 2, 3, 4, 5, 6}
    Lease = 2
    Timeout = 3
    ReconcileTimeout = 1
    Visibility = 4
    DeadVisibility = 3
    MaxReceives = 3
    ReconcilerCrashes = TRUE
SPECIFICATION FairPipeline
INVARIANTS
    DeletedOnlyWhenTerminal
    AttemptsAreBounded
PROPERTIES
    EveryMessageSettles
    EveryStepIsProgress
