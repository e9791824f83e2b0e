SPECIFICATION FairSpec
CONSTANTS
    a1 = a1
    b1 = b1
    Addrs <- MCAddrs
    Inbound <- MCInbound
    MaxHid = 1
    MaxFails = 1
    Wait = 1
    Limit = 1
    MaxRounds = 2
    MaxEvents = 2
    MaxCommands = 1
INVARIANTS
    RetryArmed
    ViewConverges
    QueuedOnce
PROPERTIES
    NeverGivesUp
CHECK_DEADLOCK FALSE
