SPECIFICATION Spec
CONSTANTS
    k1 = k1
    c1 = c1
    Keys = {k1}
    Callers = {c1}
    NoKey = NoKey
    Configured <- Armed
    MaxEntries = 1
    MaxRetries = 2
    PollAttempts = 2
    Faults = {}
    MaxSubmits = 2
    MaxFaults = 0
INVARIANTS OneFillPerKey
CHECK_DEADLOCK FALSE
