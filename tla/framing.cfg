CONSTANT
    Movies <- MCMovies
    Fragile <- MCFragile
    DamagedCells = {0, 1, 3, 5, 34, 165}
    CompactLimit = 4
    MaxPiece = 5
SPECIFICATION Spec
INVARIANTS
    WithinBuffers
    NothingMeansMore
    NothingRefused
PROPERTIES
    ImplementsDelivery
CHECK_DEADLOCK FALSE
