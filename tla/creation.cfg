SPECIFICATION FairSpec
CONSTANTS
    r1 = r1
    r2 = r2
    r3 = r3
    u1 = u1
    k1 = k1
    None = None
    NoKey = NoKey
    Requests = {r1, r2}
    Users = {u1}
    User <- MCUser
    Key <- MCKey
    Price <- MCPrice
    Automatic = {r1, r2}
    Start <- MCStart
    Limit <- MCLimit
    MaxNumbers = 2
    Modes = {"transactions", "standalone", "unsupported"}
    Faults = {"dbError", "unknown"}
    MaxTopUps = 2
    MaxFaulty = 2
    MaxCrashes = 1
INVARIANTS
    TypeOK
    WithinCredit
    OneOrderPerKey
    PaidIffOrdered
    ExecutedOncePaid
    AnswersOriginal
PROPERTIES
    CheckoutSpec
    RequestsEnd
CHECK_DEADLOCK FALSE
