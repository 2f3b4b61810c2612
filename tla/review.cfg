SPECIFICATION ReviewSpec
CONSTANTS
    infy = infy
    tcs = tcs
    trend = trend
    revert = revert
    Candidates <- MCCandidates
    Models = {"up", "down"}
    Ways = {TRUE, FALSE}
    MaxReviews = 1
    MaxPositions = 2
    MaxSector = 1
    EntryCap = 2
    LossLimit = 2
    MaxTotalRisk = 2
    MaxGain = 1
    MaxKept = 1
    Faults = {"outage", "news", "budget", "withdraw", "gap"}
    MaxFaults = 1
    m5 = m5
    m15 = m15
    h1 = h1
    Watchlist <- MCWatchlist
    Confirming <- MCConfirming
    Origins <- MCOrigins
    Roles = {m5, m15, h1}
    Required = 2
    LongOnly = TRUE
    Predicting = TRUE
    BuyScore = 60
    RejectScore = 35
    AgreementStep = 5
    AgreementCap = 95
    BatchesOf <- MCBatchesOf
    Predictions <- MCPredictions
    Frames <- MCFrames
    SwingLevel = 5
    NearLevel = 3
    SwingBars = 5
    RetestBars = 3
    HistoryOf <- MCHistory
    Weights <- MCWeights
    Absent = Absent
INVARIANTS
    EntriesWereCleared
    DayLossBounded
    SetupsAreSound
PROPERTIES
    OutageIsForgotten
CHECK_DEADLOCK FALSE
