CONSTANTS
    w1 = w1
    w2 = w2
    p1 = p1
    q1 = q1
    q2 = q2
    c1 = c1
    c2 = c2
    WebTickets = {w1}
    PcTickets = {p1}
    PushTickets = {w2}
    Requests = {q1, q2}
    Weights = {1,2}
    PoFixes = {c1}
    CancelFixes = {c2}
    MaxClock = 3
SPECIFICATION FactorySpec
CONSTRAINT PcAlone
SYMMETRY RequestSymmetry
CHECK_DEADLOCK FALSE
INVARIANTS FactoryTypeOK NetIsGrossLessTare
PROPERTIES WeighedOnce CancelledForGood FinalWeightsFrozen
