SPECIFICATION MCSpec
CONSTANTS
    a1 = a1
    a2 = a2
    a3 = a3
    x = x
    Attempts = {a1, a2, a3}
    Addrs = {x}
    MaxFd = 3
    MaxId = 2
    MaxQueue = 3
    Pinging = TRUE
    ActivePinging = TRUE
    Heights <- MCHeights
    StartHeight = 0
    EarlySend = TRUE
    EmptyHello = TRUE
INVARIANTS
    FdsOwned
    ReportedOnce
    WriteInterestExact
    WatchersAlive
    LogTellsActive
PROPERTIES
    ImplementsLifecycle
CHECK_DEADLOCK FALSE
