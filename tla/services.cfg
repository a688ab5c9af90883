SPECIFICATION MCSpec
CONSTANTS
    k1 = k1
    k2 = k2
    q1 = q1
    a1 = a1
    a2 = a2
    u1 = u1
    g1 = g1
    e1 = e1
    e2 = e2
    f1 = f1
    f2 = f2
    c1 = c1
    c2 = c2
    x1 = x1
    y1 = y1
    m1 = m1
    None = None
    s1 = s1
    v1 = v1
    p1 = p1
    p2 = p2
    t1 = t1
    t2 = t2
    Executors = {q1}
    Schedulers = {s1}
    Reviewers = {v1}
    MaxAttempts = 2
    MaxFaults = 2
    Calls = {k1, k2}
    Customers = {u1}
    Orders = {a1, a2}
    Prices = {1, 2}
    PolledOrders = {e1, e2, f1}
    PolledProviders = {p1, p2}
    Ids = {1, 2}
    ProviderOf <- MCProviderOf
    IdOf <- MCIdOf
    MaxBatchSize = 1
    MaxCycles = 2
    Products = {g1}
    Exts = {e1, x1}
    DynamicExt = x1
    Markups = {1}
    MaxSyncs = 2
    MaxEdits = 2
    MaxProviderChanges = 1
    Bodies = {1, 2}
    Keys = {y1}
    TargetAccounts = {u1}
    Methods = {m1}
    MaxTargets = 3
    MaxSettings = 1
    MaxChallenges = 3
    MaxLogins = 6
    Quotes = {e1, e2}
    Recipients = {u1}
    GroupMarkups = {1, 2}
    Rates = {3, 4}
    MaxCheckouts = 4
    MaxRevisions = 1
    Resellers = {u1, g1}
    Uuids = {y1}
    PublicIds = {e1, e2}
    MaxPurchases = 3
    MaxIdAttempts = 2
    Groups = {g1}
    Requests = {a1, a2}
    MaxCalls = 5
    Persons = {a1, a2}
    Emails = {e1, e2}
    Profiles = {f1, f2}
    Codes = {c1, c2}
    OAuthStates = {x1}
    MaxRetries = 2
    MaxSessions = 2
    MaxAccountChanges = 1
    MaxCodeAttempts = 2
    MaxGenerated = 3
    MaxTries = 2
    MaxSwitches = 2
    Events = {e1}
    Addressees = {a1, a2}
    Staff = {a1, a2}
    Members = {a1, a2}
    Tokens = {t1, t2}
    MaxMoves = 3
    MaxBuilds = 3
    MaxDemands = 2
SYMMETRY Symmetry
CHECK_DEADLOCK FALSE
INVARIANTS RefundProved SubAgentConsistent AccountsSound CredentialsSound TargetOrdersSound SyncMirrors AnswersSound PollSound ResellerSound HagoSound MessagesSound
PROPERTIES ApprovedWhileActive
