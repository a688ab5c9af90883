SPECIFICATION MCSpec
CONSTANTS
    d1 = d1
    d2 = d2
    d3 = d3
    u1 = u1
    u2 = u2
    k1 = k1
    k2 = k2
    m1 = m1
    m2 = m2
    x1 = x1
    y1 = y1
    p1 = p1
    p2 = p2
    c1 = c1
    c2 = c2
    USD = USD
    EGP = EGP
    None = None
    Calls = {k1, k2}
    Requests = {d1, d2, d3}
    Customers = {u1, u2}
    UserOf <- MCUserOf
    ReferredBy <- MCReferredBy
    EligibleUntil <- MCEligibleUntil
    WalletCurrency <- MCWalletCurrency
    Rate <- MCRate
    Base = USD
    Amounts = {3, 6}
    Percents = {0, 2}
    Micro = 10
    MaxClock = 1
    MaxEdits = 1
    MaxSwitches = 1
    Messages = {m1, m2}
    Transaction <- MCTransaction
    Paid <- MCPaid
    TransactionOf <- MCTransactionOf
    Money = EGP
    TooOld = {m2}
    MaxDeliveries = 2
    Users = {u1}
    Payouts = {p1, p2}
    Commissions = {c1, c2}
    Currencies = {USD, EGP}
    Keys = {y1}
    Sums = {7}
    Cent = 10
    MaxRequests = 3
    MaxUserChanges = 1
    Earner <- MCEarner
    Earned <- MCEarned
    EarnedIn <- MCEarnedIn
    Age <- MCAge
    Home <- MCWallet
SYMMETRY Symmetry
CHECK_DEADLOCK FALSE
INVARIANTS CreditedOnceIfApproved CommissionOnCredited OneApprovalPerPayment PayoutsSound
PROPERTIES CommissionFixed
