SPECIFICATION Spec
CONSTANTS
    Session = 3
    Start = 2
    Bars = 2
    Depth = 2
    Overlap = 1
    MaxPerSlot = 2
    MaxFaults = 1
    LastDay = 3
    MinBars = 2
    Wanted = 3
    MaxDayTrades = 2
    MaxStops = 1
    Missing = Missing
    Names = {1, 2}
    Length = 7
    Lookback = 1
    StrategyBars = 1
    Warmup = 2
    TestBars = 2
    MinRemnant = 2
    Repeats = {3}
    Prices = {100, 104}
    SlipPct = 1
    ChargePct = 1
    Capital = 1000
    MinTrades = 2
    Formulas = {f1}
    NumSignals = 2
    MaxIterations = 2
    IcLimits = {1, 2}
    Strengths = {1, 2}
    PValues = {1, 2, 5}
    PLimit = 4
    TimeframeCount = 2
    Refresh = 2
    LastHour = 4
    MaxMishaps = 1
    NoSignal = NoSignal
    Tickers = {a, b}
    Closes = {1, 2}
    Trees <- MCTrees
    MaxRows = 4
    MinCross = 2
    NaN = NaN
    trend = trend
    revert = revert
    Ids = {1, 2}
    Strategies = {trend, revert}
    Default = trend
    Kinds <- MCKinds
    Capacities = {1, 2}
    MaxItems = 2
    MaxRounds = 2
INVARIANTS
    AnswersAreHeeded
    TodayIsOneBar
    ScoresAreEarned
PROPERTIES
    HistoryServes
    DiscoveryIsSound
CHECK_DEADLOCK FALSE
