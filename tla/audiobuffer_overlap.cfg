CONSTANTS
    p1 = p1
    p2 = p2
    Packets      <- MCPackets
    Capacity     <- MixedCapacity
    ReserveSizes <- MixedReserves
    ReadSizes    <- MixedReads
    SkipSizes    <- MixedSkips
SPECIFICATION BufferSpec
INVARIANT
    ChunksDisjoint
