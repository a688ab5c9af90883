SPECIFICATION Spec
CONSTANTS
    o1 = o1
    o2 = o2
    a1 = a1
    a2 = a2
    Poller = Poller
    Orders = {o1, o2}
    Admins = {a1, a2}
    Charge <- MCCharge
    Quantity <- MCQuantity
    MaxRetry = 2
    MaxRequests = 3
    MaxFaults = 2
    Faults = {"crash", "walletError", "commitUnknown", "transient"}
INVARIANTS
    TypeOK
    NeverOverRefunded
    NeverOverReturned
    RefundedMeansPaid
    RetryFresh
    RetryBounded
SYMMETRY AdminSymmetry
CONSTRAINT RequestsOrBatches
