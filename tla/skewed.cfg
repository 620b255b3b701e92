CONSTANTS
    Worker = {w1, w2}
    Reconciler = {r1}
    Lease = 4
    TicksPerSecond = 2
    Timeout = 1
    Skew = 1
    MaxTime = 4
    MaxAttempts = 2
SYMMETRY Symmetry
SPECIFICATION Spec
INVARIANTS
    OneHolder
PROPERTY
    UpdatedAtGoesBackOnlyAtDeath
