CONSTANTS
    Worker = {w1, w2}
    Reconciler = {r1}
    Lease = 2
    TicksPerSecond = 2
    Timeout = 3
    Skew = 0
    MaxTime = 4
    MaxAttempts = 3
SYMMETRY Symmetry
SPECIFICATION Spec
PROPERTIES
    StaleSnapshotKillsNoNewAttempt
