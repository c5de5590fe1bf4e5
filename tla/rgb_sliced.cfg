CONSTANT
    Heights = {4, 6}
    MaxSlices = 2
    GarbagePitches = {0, 2}
SPECIFICATION Spec
INVARIANTS
    RowsConverted
