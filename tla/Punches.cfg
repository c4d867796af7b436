CONSTANTS
    u1 = u1
    w1 = w1
    nobody = nobody
    q1 = q1
    Users = {u1}
    Workers = {w1}
    Nobody = nobody
    Requests = {q1}
    Window = 1
    Drift = 0
    Batch = 2
    Overlap = FALSE
    MaxClock = 3
    MaxPunches = 2
    MaxFailures = 1
SPECIFICATION FairSpec
CHECK_DEADLOCK FALSE
INVARIANTS PunchTypeOK HolesOnlyInSlowPulls SyncedIsInCloud OneRowPerWorker
PROPERTIES EveryPunchArrives
