CONSTANTS
    t1 = t1
    t2 = t2
    t3 = t3
    r1 = r1
    r2 = r2
    Trucks = {t1, t2}
    Runs = {r1}
    NoTruck = NoTruck
    Load = 2
    Ordered = 3
    Caps = {0, 1}
    Open = FALSE
    Fuel = FALSE
    Desk = TRUE
    Overlap = FALSE
    MaxGrns = 3
    MaxFailures = 1
SPECIFICATION FairPoSpec
CHECK_DEADLOCK FALSE
PROPERTIES EveryTruckAccounted EveryReceiptStocked
