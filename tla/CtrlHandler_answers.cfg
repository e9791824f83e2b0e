SPECIFICATION FairSpec
CONSTANTS
    m1 = m1
    m2 = m2
    MaxId = 1
    IdSpace = 2
    Nonces <- MCOneNonce
    Payloads <- MCOnePayload
    MaxConns = 1
    MaxAttempts = 1
    MaxQueue = 1
    BroadcastDisconnect = TRUE
PROPERTIES
    Answered
    EofNoticed
CHECK_DEADLOCK FALSE
