SPECIFICATION FairSpec
CONSTANTS
    t1 = t1
    t2 = t2
    t3 = t3
    nifty = nifty
    sbin = sbin
    Trades = {t1, t2, t3}
    NoTrade = NoTrade
    Symbols = {nifty, sbin}
    SymbolOf <- Rivals
    Legacy = {t3}
    LegacyQty = 1
    EntryQty = {2}
    AddDivisor = 2
    MaxAdds = 1
    DailyEntryCap = 2
    MaxPositions = 2
    AveragingEnabled = TRUE
    LearningEnabled = TRUE
    ManagedCarriesSource = TRUE
    Faults = {"crash", "swallow", "raise"}
    MaxFaults = 2
PROPERTIES
    SeenToTheEnd
CHECK_DEADLOCK FALSE
