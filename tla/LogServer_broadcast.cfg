SPECIFICATION Spec
CONSTANTS
    i1 = i1
    i2 = i2
    c1 = c1
    c2 = c2
    Inputs = {i1}
    Consumers = {c1, c2}
    Types <- MCTypes
    Interests <- MCInterests
    Lens <- MCFewLens
    MaxSize = 2
    MaxRecords = 2
    MaxTime = 0
PROPERTIES
    ImplementsBroadcast
CHECK_DEADLOCK FALSE
