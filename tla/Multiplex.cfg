SPECIFICATION FairSpec
CONSTANTS
    Period <- MCPeriod
    ClockSettle = 2
    LineupSettle = 1
    TitleSettle = 1
    Wired <- MCWired
    a = a
    b = b
    c = c
    x = x
    y = y
    None = None
    Broken = Broken
    Schedules <- MCSchedules
    Sections <- MCSections
    Carries <- MCCarries
    Units <- MCUnits
    Letters = 2
    Versions = 2
    MaxChanges = 2
    MaxEdits = 2
    LastDay = 1
INVARIANTS
    NeverSleepsPast
PROPERTIES
    IndexIsFresh
    TitlesComeRound
    EditReachesBox
