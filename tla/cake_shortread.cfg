CONSTANT
    Movies <- MCMovies
    BufferSize = 4
    ShortReads = TRUE
    NumStreams = 2
    Attachments <- MCAttachments
    FramePeriod = 2
    MaxSlip = 1
    Resolutions = {0}
    MaxTime = 2
    MaxChanges = 1
SPECIFICATION Spec
INVARIANTS
    DigestedInOrder
CHECK_DEADLOCK FALSE
