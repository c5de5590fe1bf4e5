CONSTANTS
    MaxJobs = 3
    Sizes = {2, 3}
    InitialCapacity = 5
    MaxDemand = 9
SPECIFICATION MemSpec
INVARIANTS
    JobsExclusive
    NeverStrays
    JoinMeansDigested
    BlocksDisjoint
    PoolLearns
PROPERTIES
    ImplementsPool
