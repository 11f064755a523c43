SPECIFICATION FairSpec
CONSTANTS
    Programmes = {p, q}
    None = None
    Chunks = 2
    ChunkLen = 2
    Cap = 3
    Batch = 2
    EncQueue = 1
    InQueue = 1
    VideoQueue = 1
    MaxChanges = 2
    MaxPsi = 2
    MaxFaults = 1
CHECK_DEADLOCK FALSE
INVARIANTS
    NeverRefusedByItsOwn
    NoOrphans
    NothingLostOnTheWay
PROPERTIES
    CloseReturns
    ProgrammeEnds
