CONSTANTS
    Filters = {f1, f2}
    TimerPeriod = 2
    ByteTime = 2
    ReplyGap = 2
    FrameLength = 2
    ReplyLength = 2
    Transfer = 2
    Disarmable = {"timer"}
    MaxUses = 2
SPECIFICATION FairSpec
INVARIANTS LinesFollowCauses CardBytesAreKept
PROPERTIES CausesAreServed
