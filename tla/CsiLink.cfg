SPECIFICATION FairSpec
CONSTANTS
    KeyPayloads <- MCKeyPayloads
    Commands <- MCCommands
    AckPolicy = {82, 24, 65, 66}
    MaxQueued = 7
    MaxFrame = 4
    TrafficGap = 1
    IdleGap = 2
    MaxKeys = 2
    MaxCommands = 2
    MaxSwitches = 3
INVARIANTS
    QueuesHoldWholeFrames
    FramingAgrees
PROPERTIES
    NeverSpliced
    ImplementsWire
    EveryKeyArrives
