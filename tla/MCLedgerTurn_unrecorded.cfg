CONSTANTS
    Reactions = {FALSE}
    Routes = {FALSE}
    Timer = TRUE
    FaultKinds <- Orphans
    MaxFaults = 2
    MaxFence = 2
    MaxTurnAttempts = 2
    MaxPostDispatchAttempts = 8
SPECIFICATION Spec
INVARIANTS
    NoUnrecordedFinal
CHECK_DEADLOCK FALSE
