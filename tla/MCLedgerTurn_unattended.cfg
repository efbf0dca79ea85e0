CONSTANTS
    Reactions = {FALSE}
    Routes = {FALSE}
    Timer = FALSE
    FaultKinds <- StallOnly
    MaxFaults = 2
    MaxFence = 4
    MaxTurnAttempts = 2
    MaxPostDispatchAttempts = 8
SPECIFICATION FairSpec
PROPERTIES
    LostLeaseIsReconciled
CHECK_DEADLOCK FALSE
