CONSTANT
    Movies <- MCMovies
    BufferSize = 4
    ShortReads = FALSE
    NumStreams = 2
    Attachments <- MCAttachments
    FramePeriod = 2
    MaxSlip = 0
    Resolutions = {1}
    MaxTime = 5
    MaxChanges = 3
SPECIFICATION Spec
INVARIANTS
    DigestedInOrder
    FinishedMeansEnd
    FramesShown
    StreamsInStep
    ContinuousPlayback
    AsksEnabledStreams
PROPERTIES
    NeverEarly
    PlaysToTheEnd
CHECK_DEADLOCK FALSE
