SPECIFICATION FairSpec
CONSTANTS
    i1 = i1
    i2 = i2
    c1 = c1
    c2 = c2
    Inputs = {i1}
    Consumers = {c1}
    Types <- MCTypes
    Interests <- MCOneInterest
    Lens <- MCLens
    MaxSize = 3
    MaxRecords = 2
    MaxTime = 1
INVARIANTS
    TotalExact
    NoLostWakeup
    ExactStream
PROPERTIES
    FreshSource
    Delivery
    DeadPeerRemoved
CHECK_DEADLOCK FALSE
