SPECIFICATION FairSpec
CONSTANTS
    MaxId = 1
    MaxQueue = 3
    Pinging = TRUE
    ActivePinging = TRUE
    Heights <- MCHeights
    StartHeight = 0
    EarlySend = FALSE
    EmptyHello = FALSE
INVARIANTS
    ListensWhenIdle
PROPERTIES
    EofNoticed
CHECK_DEADLOCK FALSE
