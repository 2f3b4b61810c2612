SPECIFICATION DeskSpec
CONSTANTS
    a1 = a1
    a2 = a2
    a3 = a3
    Agents = {a1, a2, a3}
    Analysts = {a2}
    FailureThreshold = 2
    SuccessThreshold = 2
    Exhaustible = {1}
    eurusd = eurusd
    gbpusd = gbpusd
    eur = eur
    gbp = gbp
    usd = usd
    m5 = m5
    m15 = m15
    h1 = h1
    trend = trend
    revert = revert
    NoPass = NoPass
    Series <- MCSeries
    SwingFrames = {m15, h1}
    Base <- MCBase
    Quote <- MCQuote
    Strategies = {trend, revert}
    Factor <- MCFactor
    Outputs <- MCOutputs
    Bypass = FALSE
    MLPolicy <- MCPolicy
    MaxOpen <- MCMaxOpen
    MaxCurrency = 2
    MaxShared = 2
    Faults = {"crash", "fetch", "load", "quote", "demote"}
    MaxCandles = 2
    MaxFaults = 1
INVARIANTS
    BookIsTrue
    BreakerIsTrue
PROPERTIES
    
    HitIsClosed
    BreakerCools
