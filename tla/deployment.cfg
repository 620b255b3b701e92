CONSTANTS
    r1 = r1
    r2 = r2
    a = a
    b = b
    Resource = {r1, r2}
    Address <- TheAddress
    Value = {a, b}
    Run = {p1, p2}
    MaxCommit = 2
    MaxMeddling = 1
    Replaces <- TheReplaces
    Config <- TheConfig
    Output <- TheOutput
SYMMETRY Symmetry
SPECIFICATION DeploymentSpec
INVARIANTS
    DeploymentTypeOK
PROPERTIES
    ChangesAsReviewed
    DestroysOnlyWithConsent
    AppliedOnce
    SuccessMeansConverged
