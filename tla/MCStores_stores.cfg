CONSTANTS
    e1 = e1
    e2 = e2
    x1 = x1
    x2 = x2
    i1 = i1
    i2 = i2
    m1 = m1
    m2 = m2
    q1 = q1
    q2 = q2
    m3 = m3
    Events = {e1, e2}
    Entries = {x1, x2}
    Requests = {"ask", "remember", "update", "merge", "forget", "confirm"}
    MemoryFaults = {"slack", "agent", "crash", "channel"}
    MaxShocks = 2
    Isolates = {i1, i2}
    CredentialFaults = {"crash", "slow", "lost", "account", "late", "revoked"}
    MaxUpsets = 1
    MaxGrants = 2
    MaxRotations = 2
    Members = {m1, m2, m3}
    Changes = {q1, q2}
    s1 = s1
    s2 = s2
    s3 = s3
    t1 = t1
    t2 = t2
    Turns = {t1, t2}
    Sandboxes = {s1, s2, s3}
    TurnOf <- TwiceTheFirst
    Caps = {0, 1}
    MaxReservationIds = 1
    MaxCasAttempts = 2
    MaxMonths = 2
    MaxCount = 3
    f1 = f1
    f2 = f2
    u1 = u1
    r1 = r1
    r2 = r2
    Flows = {f1, f2}
    Servers = {u1}
    ConnectionFaults = {"stop", "stall", "lose", "end"}
    MaxFlows = 3
    MaxMishaps = 1
    MaxAuthorizations = 1
    MaxRefreshes = 1
    Clerks = {r1, r2}
    MaxInvitations = 2
    MaxErrands = 5
SPECIFICATION StoresSpec
INVARIANTS
    StoresTypeOK
    OnlyCurrentGenerationOpen
    StaleTextIsWithheld
    ConfirmedWasSupplied
    DisconnectedStaysAway
    NoNeedlessReconnect
    CapIsSpentOnce
    LeftoversAreNamed
    RefusedHasEnded
    HandedLinkWorks
PROPERTIES
    CurrentViewsKeepAnOwner
    SealedIsFrozen
    ForgetWasConfirmed
    OnlyRefusedTokensGo
    RevokedAdmitsNobody
SYMMETRY StoresSymmetry
CHECK_DEADLOCK FALSE
