SPECIFICATION FairSpec
CONSTANTS
    Viewers = {v}
    Pictures <- MCPictures
    Palettes <- MCPalettes
    Phases = {"booting", "ready"}
    None = None
    MaxFrames = 3
    MaxStates = 1
    MaxVisits = 2
    WireLimit = 3
CHECK_DEADLOCK FALSE
INVARIANTS
    CanvasIsTheFrame
    NeverRefused
    NewestNotLost
PROPERTIES
    NewestGetsThere
