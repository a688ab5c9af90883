SPECIFICATION FairSpec
CONSTANTS
    r1 = r1
    r2 = r2
    r3 = r3
    u1 = u1
    k1 = k1
    None = None
    NoKey = NoKey
    Requests = {r3}
    Users = {u1}
    User <- MCUser
    Key <- MCKey
    Price <- MCPrice
    Automatic = {r3}
    Start <- MCStart
    Limit <- MCLimit
    MaxNumbers = 2
    Modes = {"transactions"}
    Faults = {"dbError"}
    MaxTopUps = 0
    MaxFaulty = 1
    MaxCrashes = 0
PROPERTIES
    CreatedIsExecuted
CHECK_DEADLOCK FALSE
