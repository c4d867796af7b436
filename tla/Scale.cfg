CONSTANTS
    a = a
    b = b
    c = c
    q1 = q1
    Tickets = {a, b}
    Outbound = {}
    Loads = {1, 2}
    Requests = {q1}
    Window = 1
    MaxClock = 4
    MaxStays = 2
    MaxFailures = 1
SPECIFICATION Spec
SYMMETRY TicketSymmetry
CHECK_DEADLOCK FALSE
INVARIANTS ScaleTypeOK
PROPERTIES StandingTruckSigned
