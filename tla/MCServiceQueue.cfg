SPECIFICATION ServiceSpec
CONSTANTS
    d1 = d1  d2 = d2  s1 = s1  s2 = s2  t1 = t1  r1 = r1  r2 = r2
    Dispatch <- Two
    Thread <- OneThread
    ThreadOf <- OnThread
    Rank <- SameRank
    DedupeOf <- NoKeys
    NoKey = NoKey
    ClaimLimit = 1
    ReclaimLimit = 100
    Results = {"Done", "Waiting"}
    MaxEpoch = 0
    MaxAttempts = 2
    Server <- TwoServers
    HomeOf <- OneEach
    Inline = {}
    Run <- TwoRuns
    RunOf <- OwnRun
    Outcomes = {"Finished", "AwaitsTasks", "Suspended", "Transient", "Permanent"}
    Suspends = TRUE
    MaxLapses = 0
    MaxCrashes = 0
    MaxCalls = 0
INVARIANTS
    SingleActiveRun
    LostLeaseCancelsOwnRun
    AckedRunIsSettled
CHECK_DEADLOCK FALSE
