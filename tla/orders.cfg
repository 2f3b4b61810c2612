SPECIFICATION OrdersSpec
CONSTANTS
    k1 = k1
    k2 = k2
    c1 = c1
    c2 = c2
    Keys = {k1, k2}
    Callers = {c1, c2}
    NoKey = NoKey
    Configured <- AllSettings
    MaxEntries = 1
    MaxRetries = 2
    PollAttempts = 2
    Faults = {"crash", "read", "record", "evict", "persist", "place", "status"}
    MaxSubmits = 3
    MaxFaults = 2
    Prices <- Quotes
    EntryPrices = {400}
    StopGap = 80
    TargetGap = 160
    InitialBalance = 8400
    SlippageDivisor = 20
    ChargeDivisor = 14
    BrokerageMax = 48
    WinRates = {0, 55, 60}
    PositionPct = 15
    RiskPct = 3
    LossLimit = 400
    DrawdownPct = 4
    AtrDistances = {0, 80, 120}
    MaxAdds = 1
    TriggerPct = 10
    AddDivisor = 2
    MaxTrades = 2
    MaxDays = 1
    MaxMishaps = 1
INVARIANTS
    RealOrdersNeedConsent
    SubmissionsAreTrue
    MoneyAddsUp
PROPERTIES
    RecordedIsNotRepeated
    ProtectionOnlyGrows
SYMMETRY Symmetry
CHECK_DEADLOCK FALSE
