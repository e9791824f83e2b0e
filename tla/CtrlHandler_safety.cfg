SPECIFICATION MCSafety
CONSTANTS
    m1 = m1
    m2 = m2
    MaxId = 2
    IdSpace = 2
    Nonces <- MCNonces
    Payloads <- MCPayloads
    MaxConns = 1
    MaxAttempts = 0
    MaxQueue = 1
    BroadcastDisconnect = FALSE
SYMMETRY MCSymmetry
INVARIANTS
    InterestExact
    OpenIsActive
    NamesKept
PROPERTIES
    ImplementsRegistry
CHECK_DEADLOCK FALSE
