SPECIFICATION Spec
CONSTANTS
    t1 = t1
    t2 = t2
    t3 = t3
    k1 = k1
    k2 = k2
    k3 = k3
    None = None
    Callers = {t1, t2, t3}
    Keys = {k1, k2, k3}
    CacheSize = 2
    MaxCalls = 6
    nse = nse
    forex = forex
    Workers = {nse, forex}
    Threads = {t1, t2, t3}
    Home <- HomeOf
    Unchecked = {t3}
    Horizons = {"SWING", "SHARED"}
    Shared = "SHARED"
    Budget = 2
    HorizonBudget <- SwingBudget
    RowLimit = 2
    RecentLimit = 2
    Faults = {"read", "locked", "crash"}
    MaxRequests = 4
    MaxDays = 2
    MaxFaults = 1
    s1 = s1
    s2 = s2
    NoSeries = NoSeries
    Series = {s1, s2}
    ScanFaults = {"history", "feature", "cycle", "late"}
    MaxCandles = 3
    MaxSyncs = 1
    MaxMishaps = 2
INVARIANTS
    CacheIsSound
    BudgetHolds
    OncePerCandle
PROPERTIES
    ServicesServe
CHECK_DEADLOCK FALSE
