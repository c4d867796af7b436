CONSTANTS
    i1 = i1
    i2 = i2
    b1 = b1
    q1 = q1
    q2 = q2
    u1 = u1
    u2 = u2
    u3 = u3
    a1 = a1
    a2 = a2
    Invoices = {i1, i2}
    Net <- OfOne
    Account <- Accounts
    Batches = {b1}
    Makers = {u1}
    Checkers = {u2}
    Releasers = {u3}
    Nobody = Nobody
    Requests = {q1, q2}
    MaxUploads = 2
    MaxByHand = 1
    MaxFailures = 1
SPECIFICATION BankSpec
SYMMETRY BankSymmetry
CHECK_DEADLOCK FALSE
INVARIANTS BankTypeOK BookedOnceIfPaid PaidNotOverstated RejectedNotSent
