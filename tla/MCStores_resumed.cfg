CONSTANTS
    e1 = e1
    e2 = e2
    x1 = x1
    x2 = x2
    i1 = i1
    i2 = i2
    m1 = m1
    m2 = m2
    q1 = q1
    q2 = q2
    m3 = m3
    Events = {e1, e2}
    Entries = {x1, x2}
    Requests = {"ask", "update"}
    MemoryFaults = {"crash"}
    MaxShocks = 2
    Isolates = {i1, i2}
    CredentialFaults = {"crash", "slow", "lost", "account", "late", "revoked"}
    MaxUpsets = 1
    MaxGrants = 2
    MaxRotations = 2
    Members = {m1}
    Changes = {q1}
    s1 = s1
    s2 = s2
    s3 = s3
    t1 = t1
    t2 = t2
    Turns = {t1, t2}
    Sandboxes = {s1, s2, s3}
    TurnOf <- TwiceTheFirst
    Caps = {0, 1}
    MaxReservationIds = 1
    MaxCasAttempts = 2
    MaxMonths = 1
    MaxCount = 0
    f1 = f1
    f2 = f2
    u1 = u1
    r1 = r1
    r2 = r2
    Flows = {f1}
    Servers = {u1}
    ConnectionFaults = {"stop", "stall", "lose", "end"}
    MaxFlows = 0
    MaxMishaps = 0
    MaxAuthorizations = 0
    MaxRefreshes = 1
    Clerks = {r1}
    MaxInvitations = 1
    MaxErrands = 0
SPECIFICATION StoresSpec
INVARIANTS
    StaleTextIsNotPosted
CHECK_DEADLOCK FALSE
