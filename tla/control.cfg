CONSTANTS
    Client = {c1, c2}
    JobId = {j1, j2}
    NoClient = nobody
    NoJobId = none
    MaxAttempts = 1
SYMMETRY Symmetry
SPECIFICATION ControlSpec
INVARIANTS
    ControlTypeOK
    UploadUrlIsExclusive
    UploadHasItsJob
    ReadsFollowWrites
PROPERTIES
    ViewsNeverGoBack
