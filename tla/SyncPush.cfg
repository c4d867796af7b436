CONSTANTS
    w1 = w1
    w2 = w2
    p1 = p1
    q1 = q1
    q2 = q2
    c1 = c1
    c2 = c2
    WebTickets = {}
    PcTickets = {}
    PushTickets = {w1}
    Requests = {q1}
    Weights = {1, 2}
    PoFixes = {}
    CancelFixes = {}
    MaxClock = 4
    Take = 1
    MaxFailures = 0
SPECIFICATION SyncSpec
CHECK_DEADLOCK FALSE
INVARIANTS SyncedIsDelivered
