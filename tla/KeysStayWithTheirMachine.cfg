SPECIFICATION FairSpec
CONSTANTS
    b1 = b1
    b2 = b2
    Browsers <- MCBrowsers
    KeyQueueLimit = 2
    CsiLimit = 2
    MaxPresses = 4
    MaxRequests = 3
    MaxVisits = 3
PROPERTIES
    KeysStayWithTheirMachine
CHECK_DEADLOCK FALSE
