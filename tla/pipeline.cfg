CONSTANTS
    NumRows = 2
    MBWidth = 2
    SliceEnd <- RowSlices
    MaxDamage = 2
    MaxDirect = 2
    MaxRefused = 1
SPECIFICATION Spec
INVARIANTS
    RowDataComplete
    FrameReady
PROPERTIES
    ImplementsRowJobs
    ImplementsSliceJobs
    PacketsFinish
