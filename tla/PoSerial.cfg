CONSTANTS
    t1 = t1
    t2 = t2
    t3 = t3
    r1 = r1
    r2 = r2
    Trucks = {t1, t2, t3}
    Runs = {r1, r2}
    NoTruck = NoTruck
    Load = 2
    Ordered = 3
    Caps = {0, 1}
    Open = TRUE
    Fuel = TRUE
    Desk = FALSE
    Overlap = FALSE
    MaxGrns = 3
    MaxFailures = 1
SPECIFICATION PoSpec
SYMMETRY PushSymmetry
CHECK_DEADLOCK FALSE
INVARIANTS PoTypeOK OneReceiptPerTruck LineMatchesReceipts StockMovedOnce CapNearlyRespected
