CONSTANTS
    Attempt = {1, 2}
    Content = {draft, revision, blank, binary, huge}
    Sound = {draft, revision, blank}
    Blank = {blank}
    TooLong = {huge}
    NoETag = none
    NoText = nothing
    MaxUploads = 2
SYMMETRY Symmetry
SPECIFICATION LoadingSpec
INVARIANTS
    LoadingTypeOK
    ResultIsOfItsDocument
    BlamesTheRightDocument
