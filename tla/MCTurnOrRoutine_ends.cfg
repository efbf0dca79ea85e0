CONSTANTS
    Reactions = {TRUE, FALSE}
    Routes = {TRUE, FALSE}
    Timer = TRUE
    FaultKinds <- NoOrphans
    MaxFaults = 2
    MaxFence = 4
    MaxTurnAttempts = 2
    MaxPostDispatchAttempts = 8
    h1 = h1
    h2 = h2
    p1 = p1
    p2 = p2
    Heartbeats = {h1, h2}
    MaxRuns = 1
    MaxControls = 1
    Prompts = {p1}
    Faults = {"crash", "access"}
    Period = 1
    Ahead = {1}
    Grace = 2
    AdmissionLease = 1
    DeliveryLease = 1
    MaxLag = 1
    MaxFailures = 2
SPECIFICATION FairEitherSpec
INVARIANTS
    TypeOK
    AtMostOneFinal
    VerdictIsTrue
    DoneJobIsSettled
    CompletedAnswerIsKept
PROPERTIES
    FinalsAreAnnounced
    TurnIsDecided
    StoppedStartsNothing
    EveryOccurrenceEnds
CONSTRAINT OverlapIsEarly
