CONSTANTS
    k1 = k1
    k2 = k2
    a1 = a1
    a2 = a2
    x1 = x1
    x2 = x2
    Runs = {1, 2}
    OrderingKey <- OneKey
    Legacy = {}
    Answers = {a1}
    Renders = {x1}
    LeaseDuration = 1
    AdmitInCreationOrder = FALSE
    MaxFence = 1
    MaxTime = 2
    Arrivals = {1}
    Siblings = {}
    MaxTurnAttempts = 1
    AdmissionFaults = {"store", "throws", "crash"}
    MaxMishaps = 0
SPECIFICATION LedgerSpec
INVARIANTS OneLeasePerOrderingKey
CHECK_DEADLOCK FALSE
