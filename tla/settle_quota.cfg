SPECIFICATION Spec
CONSTANTS
    o1 = o1
    o2 = o2
    a1 = a1
    a2 = a2
    Poller = Poller
    Orders = {o2}
    Admins = {a1}
    Charge <- MCQuotaOnly
    Quantity <- MCQuotaQuantity
    MaxRetry = 2
    MaxRequests = 3
    MaxFaults = 0
    Faults = {}
INVARIANTS
    QuotaReturnedOnce
