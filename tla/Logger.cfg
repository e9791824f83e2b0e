SPECIFICATION FairSpec
CONSTANTS
    StoreSize = 3
    Lens <- MCLens
    MaxRecords = 5
INVARIANTS
    InOrder
    NothingLost
    StartsWhole
PROPERTIES
    Delivered
CHECK_DEADLOCK FALSE
