CONSTANT
    Heights = {1, 2, 3, 6}
    MaxSlices = 3
    GarbagePitches = {0, 2}
SPECIFICATION Spec
INVARIANTS
    BlocksExclusive
    JoinMeansConverted
    WholeFrameConverted
PROPERTIES
    ConversionFinishes
