CONSTANTS
    h1 = h1
    h2 = h2
    p1 = p1
    Heartbeats = {h1}
    MaxRuns = 1
    MaxControls = 0
    Prompts = {p1}
    Faults = {"slack"}
    Period = 1
    Ahead = {1}
    Grace = 2
    AdmissionLease = 1
    DeliveryLease = 1
    MaxLag = 0
    MaxFailures = 2
SPECIFICATION RoutineSpec
PROPERTIES UnprovenPausesAtOnce
