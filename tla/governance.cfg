SPECIFICATION Spec
CONSTANTS
    Versions = {1, 2}
    Lifetime = 2
    MaxRuns = 2
    MaxCrashes = 1
    MaxEdits = 1
    nightly = nightly
    script = script
    Models = {"m1", "m2"}
    Promoters = {"p1", "p2"}
    Trainers = {nightly, script}
    Requests = 3
    MaxFaults = 1
INVARIANTS
    ModelsAreSound
PROPERTIES
    ApprovalWasEarned
    ApprovalsEnd
    ChampionIsServed
CHECK_DEADLOCK FALSE
