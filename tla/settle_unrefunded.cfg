SPECIFICATION FairSpec
CONSTANTS
    o1 = o1
    o2 = o2
    a1 = a1
    a2 = a2
    Poller = Poller
    Orders = {o1}
    Admins = {a1}
    Charge <- MCMoney
    Quantity <- MCOneQuantity
    MaxRetry = 2
    MaxRequests = 0
    MaxFaults = 0
    Faults = {"walletError"}
PROPERTIES
    OwedRefundIsPaid
