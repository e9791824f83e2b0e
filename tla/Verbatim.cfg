SPECIFICATION FairSpec
CONSTANTS
    LenParts = 2
    BodyParts = 2
    MaxRecords = 4
    MaxRotations = 3
INVARIANTS
    WholeRecords
    OnCurrentLog
PROPERTIES
    WaitsForPostrotate
    RotationEnds
CHECK_DEADLOCK FALSE
