SPECIFICATION MCSpec
CONSTANTS
    rb = rb
    p = p
    q = q
    u = u
    Objs <- MCObjs
    Rb = rb
    MaxLen = 3
    Threshold = 1
    Page = 2
    RecvSize = 2
    MaxPos = 2
    Base = 8
    Numbers <- MCNumbers
    Words <- MCWords
    MaxTargets = 2
    MaxLogged = 2
INVARIANTS
    CountsExact
    ReadsStream
    WritesWhatWasQueued
    EncodingsAgree
    RepairKeepsWholeRecords
PROPERTIES
    ImplementsValues
SYMMETRY Sym
CHECK_DEADLOCK FALSE
