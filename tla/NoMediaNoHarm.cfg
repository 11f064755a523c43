SPECIFICATION FairSpec
CONSTANTS
    Programmes = {p}
    None = None
    Chunks = 1
    ChunkLen = 2
    Cap = 3
    Batch = 2
    EncQueue = 1
    InQueue = 1
    VideoQueue = 1
    MaxChanges = 1
    MaxPsi = 4
    MaxFaults = 0
CHECK_DEADLOCK FALSE
INVARIANTS
    NoMediaNoHarm
