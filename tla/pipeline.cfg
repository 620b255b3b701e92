CONSTANTS
    Message = {m1, m2}
    Attempt = {1, 2, 3, 4, 5, 6}
    Lease = 5
    Timeout = 2
    ReconcileTimeout = 1
    Visibility = 12
    DeadVisibility = 3
    MaxReceives = 3
    ReconcilerCrashes = FALSE
SPECIFICATION FairPipeline
INVARIANTS
    PipelineTypeOK
    OwnClaimNeverBlocks
    UnfinishedJobKeepsAMessage
PROPERTIES
    AttemptedJobSettles
