CONSTANTS
    k1 = k1
    k2 = k2
    a1 = a1
    a2 = a2
    x1 = x1
    x2 = x2
    Runs = {1, 2, 3}
    OrderingKey <- OneKey
    Legacy = {3}
    Answers = {a1, a2}
    Renders = {x1, x2}
    LeaseDuration = 1
    AdmitInCreationOrder = FALSE
    MaxFence = 2
    MaxTime = 4
    Arrivals = {1, 2, 3}
    Siblings = {3}
    MaxTurnAttempts = 1
    AdmissionFaults = {"store", "throws", "crash"}
    MaxMishaps = 1
SPECIFICATION LedgerSpec
INVARIANTS TypeOK LeaseIsReclaimable EvidenceIsFenced AdmissionOrderRespected OneTurnPerMessage NoMessageIsStranded
PROPERTIES KeepsPromise NoLiveLeaseTaken ParkedIsNotRevived ApprovedAnswerStable InvocationEvidenceKept
SYMMETRY ContentSymmetry
CONSTRAINTS AloneOrBriefly WithinHorizon
CHECK_DEADLOCK FALSE
