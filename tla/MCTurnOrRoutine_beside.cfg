CONSTANTS
    Reactions = {TRUE, FALSE}
    Routes = {FALSE}
    Timer = TRUE
    FaultKinds <- Orphans
    MaxFaults = 3
    MaxFence = 2
    MaxTurnAttempts = 2
    MaxPostDispatchAttempts = 8
    h1 = h1
    h2 = h2
    p1 = p1
    p2 = p2
    Heartbeats = {h1, h2}
    MaxRuns = 2
    MaxControls = 0
    Prompts = {p1, p2}
    Faults <- AnyFault
    Period = 1
    Ahead = {1}
    Grace = 2
    AdmissionLease = 1
    DeliveryLease = 1
    MaxLag = 0
    MaxFailures = 2
SPECIFICATION EitherSpec
INVARIANTS
    RecordedFinalsStand
    RoutineTypeOK
    OnePostAsRecorded
PROPERTIES
    CheckpointsStay
    FailureStopsSchedule
SYMMETRY Symmetry
CONSTRAINT SecondIsPlain
CHECK_DEADLOCK FALSE
