CONSTANTS
    id1 = id1
    id2 = id2
    j1 = j1
    Job = {j1}
    MessageId = {id1, id2}
    NoMessageId = none
    Batch <- TheBatch
SPECIFICATION BatchSpec
INVARIANTS
    BatchTypeOK
    DeletedMeansApplied
    RetriedMeansFailed
    AnswerIsUsable
    EventsNameTheirObject
CHECK_DEADLOCK FALSE
