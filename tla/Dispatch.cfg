CONSTANTS
    t1 = t1
    m1 = m1
    x1 = x1
    r1 = r1
    r2 = r2
    Trucks = {t1}
    Manual = {m1}
    Tankers = {x1}
    Requests = {r1, r2}
    MaxCancelled = 1
    MaxFailures = 1
SPECIFICATION FairSpec
CHECK_DEADLOCK FALSE
INVARIANTS DispatchTypeOK InvoiceSeriesGapless InvoicedOnce SuppliedMatchesDispatches
PROPERTIES StubsReported
