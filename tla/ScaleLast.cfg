CONSTANTS
    a = a
    b = b
    c = c
    q1 = q1
    Tickets = {a, b, c}
    Outbound = {c}
    Loads = {1, 2}
    Requests = {q1}
    Window = 4
    MaxClock = 5
    MaxStays = 2
    MaxFailures = 0
SPECIFICATION Spec
SYMMETRY TicketSymmetry
CHECK_DEADLOCK FALSE
PROPERTIES NearPreviousSigned
