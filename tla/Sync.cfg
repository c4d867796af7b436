CONSTANTS
    w1 = w1
    w2 = w2
    p1 = p1
    q1 = q1
    q2 = q2
    c1 = c1
    c2 = c2
    WebTickets = {w1}
    PcTickets = {p1}
    PushTickets = {}
    Requests = {q1}
    Weights = {1, 2}
    PoFixes = {}
    CancelFixes = {}
    MaxClock = 2
    Take = 1
    MaxFailures = 1
SPECIFICATION FairSyncSpec
CHECK_DEADLOCK FALSE
INVARIANTS SyncTypeOK SyncedIsDelivered TicketsGapless
PROPERTIES DeliveryContract BacklogDrains CompleteReachesCloud
