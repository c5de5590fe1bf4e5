CONSTANTS
    NumRows = 3
    MaxCommits = 2
SPECIFICATION Spec
INVARIANTS
    RowsExclusive
    SearchSucceeds
    JoinMeansReconstructed
PROPERTIES
    ImplementsPool
