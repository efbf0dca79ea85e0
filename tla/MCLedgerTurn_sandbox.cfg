CONSTANTS
    Reactions = {FALSE}
    Routes = {FALSE}
    Timer = TRUE
    FaultKinds <- WithSandbox
    MaxFaults = 2
    MaxFence = 4
    MaxTurnAttempts = 2
    MaxPostDispatchAttempts = 8
SPECIFICATION Spec
INVARIANTS
    CompletedAnswerIsKept
CHECK_DEADLOCK FALSE
