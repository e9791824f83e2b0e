SPECIFICATION Spec
CONSTANTS
    MaxId = 1
    MaxQueue = 3
    Pinging = TRUE
    ActivePinging = TRUE
    Heights <- MCHeights
    StartHeight = 0
    EarlySend = FALSE
    EmptyHello = TRUE
INVARIANTS
    ReadEventsAreRead
CHECK_DEADLOCK FALSE
