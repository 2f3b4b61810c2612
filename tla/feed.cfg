SPECIFICATION FeedSpec
CONSTANTS
    a = a
    b = b
    Symbols = {a, b}
    Fallback = {a}
    MaxAge = 1
    LastTick = 3
    MaxTrades = 1
    MaxFaults = 1
    None = None
    i1 = i1
    Retries = 1
    StaleAfter = 1
    Executing = TRUE
    Traders = {"t1", "t2"}
    Intents = {i1}
    MaxTrouble = 3
    MaxSubmits = 3
INVARIANTS
    ConnectionIsTrue
PROPERTIES
    
    StopsAreHonoured
    OandaComesBack
CHECK_DEADLOCK FALSE
