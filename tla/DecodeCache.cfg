CONSTANTS
    Size = 3
    Zero = z
    Code = {z, j, b}
    Long = {j}
    Jumps = {j}
    Bad = {b}
    Slots = 2
    MaxGen = 2
    MaxTurns = 2
    None = None
    Images <- MCImages
    z = z
    j = j
    b = b
SPECIFICATION Spec
INVARIANTS FrontFollowsMap RunsWhatIsWritten
CHECK_DEADLOCK FALSE
