CONSTANTS
    MaxPictures = 6
    MaxChanges = 2
    Levels <- AllLevels
SPECIFICATION Spec
CHECK_DEADLOCK FALSE
INVARIANTS
    ShownInOrder
    ReferencesIntact
    FramesExist
PROPERTIES
    TwoReferencesRecover
