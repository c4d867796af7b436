CONSTANTS
    t1 = t1
    m1 = m1
    x1 = x1
    r1 = r1
    r2 = r2
    Trucks = {t1}
    Manual = {}
    Tankers = {x1}
    Requests = {r1, r2}
    MaxCancelled = 1
    MaxFailures = 0
SPECIFICATION Spec
CHECK_DEADLOCK FALSE
INVARIANTS TankerReleasedOnce
