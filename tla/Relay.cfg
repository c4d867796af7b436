CONSTANTS
    t1 = t1
    t2 = t2
    Tickets = {t1, t2}
    Rejected = {t1}
    Conflicting = {}
    Take = 2
    MaxConsecutiveFailures = 1
    MaxAttempts = 1
    MaxChanges = 4
    MaxFailures = 1
    RawMirrorBatch = 2
SPECIFICATION FairRelaySpec
CHECK_DEADLOCK FALSE
INVARIANTS RelayTypeOK NeverLosesData NewestLast UpToDateIsMirrored
PROPERTIES HealthyTicketsArrive MirrorCatchesUp
