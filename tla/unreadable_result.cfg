CONSTANTS
    Field = {f1, f2}
    Rests = {0, 3}
    NoResult = none
    Invalid = invalid
    Positional = 3
    Leading = 1
    Mark = 2
    Precision = 4
    MaxMagnitude = 5
    MinMagnitude = 2
    FloatMax = 6
    MaxBytes = 9
    MaxDigits = 2
    MaxExp = 5
    MaxClaims = 2

SPECIFICATION Spec
INVARIANT
    StoredResultIsReadable
