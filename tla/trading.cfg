SPECIFICATION TradingSpec
CONSTANTS
    t1 = t1
    t2 = t2
    t3 = t3
    nifty = nifty
    sbin = sbin
    Trades = {t1, t2, t3}
    NoTrade = NoTrade
    Symbols = {nifty, sbin}
    SymbolOf <- Rivals
    Legacy = {t3}
    LegacyQty = 1
    EntryQty = {2, 3}
    AddDivisor = 2
    MaxAdds = 1
    DailyEntryCap = 2
    MaxPositions = 2
    AveragingEnabled = TRUE
    LearningEnabled = TRUE
    ManagedCarriesSource = TRUE
    Faults = {"crash", "raise", "swallow", "unsure", "load"}
    MaxFaults = 2
    Top = 3
    AdxMin = 2
    AdxMax = 1
    MaxExtension = 1
    MinSlope = 1
    MinRvol = 1
    MinRoc = 1
    MinMomentum = 1
    PullbackDistance = 1
    MinBody = 1
    RsiBuyMin = 0
    RsiBuyMax = 1
    RsiSellMin <- MinusOne
    RsiSellMax = 0
    ReversionBuyMax <- MinusOne
    ReversionSellMin = 1
    MinBandwidth = 1
    MinDeviation = 1
    MinZscore = 1
    BuyPercentile = 1
    SellPercentile <- MinusOne
    MinExcess = 1
    Oversold <- MinusTwo
    Overbought = 2
    PlannedStop = 2
    NearEma = 0
    MaxRisk = 1
    Missing = Missing
    Bars <- MCBars
    PivotLen = 1
    AtrLen = 2
    VolAvgLen = 2
    FrameBars = 6
    LastBar = 7
    Overlap = 1
    MaxCached = 2
    Buckets = 5
    Volumes = {0, 1, 2, 4}
    AreaPercent = 70
INVARIANTS
    TypeOK
    LedgerNeverAhead
    BooksAgree
    NothingIsForgotten
    ExposureIsCapped
    MirrorImage
    
PROPERTIES
    FollowsJourney
CHECK_DEADLOCK FALSE
