SPECIFICATION GSpec
CONSTANTS
    a1 = a1
    a2 = a2
    a3 = a3
    Agents = {a1, a2}
    Analysts = {a2}
    FailureThreshold = 2
    SuccessThreshold = 2
    Exhaustible = {2}
INVARIANTS QuotaNeverTrips
