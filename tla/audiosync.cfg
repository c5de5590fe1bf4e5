CONSTANTS
    NumStreams = 2
    FrameSamples = 1
    Delay = 0
    SamplesPerPeriod = 2
    ReadAhead = 4
    MaxPeriods = 4
    MaxBad = 1
    MaxLost = 2
    MaxToggles = 3
    PlayerReads <- MCReads
    GarbagePeriods <- MCGarbage
SPECIFICATION Spec
CHECK_DEADLOCK FALSE
INVARIANTS
    PlaybackAligned
    PlaybackClock
