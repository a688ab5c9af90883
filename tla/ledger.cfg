SPECIFICATION MCSpec
CONSTANTS
    r1 = r1
    r2 = r2
    r3 = r3
    u1 = u1
    u2 = u2
    t1 = t1
    t2 = t2
    k1 = k1
    USD = USD
    EGP = EGP
    SAR = SAR
    None = None
    Requests = {r1, r2, r3}
    Users = {u1, u2}
    Suspended = {u2}
    Currencies = {USD, EGP}
    Rates = {1, 3}
    Start <- MCStart
    Home <- MCHome
    Amounts = {2}
    Targets = {2}
    Keys = {k1}
    Cent = 2
    MaxCasRetries = 2
    MaxRateChanges = 1
    Tasks = {t1, t2}
    Customers = {u1, u2}
    Coins = {USD, EGP}
    Sums = {1, 2}
    Percents = {50}
    Codes = {USD, EGP, SAR}
    Holders = {u1}
    PlatformRates = {1, 2}
    Seeded = {EGP}
    Calls = {t1, t2}
    MaxSyncs = 1
    PlatformRate <- MCPlatformRate
    Opening <- MCOpening
SYMMETRY Symmetry
CHECK_DEADLOCK FALSE
INVARIANTS LedgerAccounts Denominated LegacyAccounted StaleOnlyAfterOverlap
PROPERTIES DebitsCovered LedgerIsAtomic AdminOwnsPlatformRate
