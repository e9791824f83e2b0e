SPECIFICATION Spec
CONSTANTS
    MaxId = 1
    MaxQueue = 3
    Pinging = TRUE
    ActivePinging = TRUE
    Heights <- MCHeights
    StartHeight = 0
    EarlySend = TRUE
    EmptyHello = FALSE
INVARIANTS
    ListensWhenIdle
CHECK_DEADLOCK FALSE
