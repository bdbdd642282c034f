SPECIFICATION ServiceSpec
CONSTANTS
    d1 = d1  d2 = d2  s1 = s1  s2 = s2  t1 = t1  r1 = r1  r2 = r2
    Dispatch <- One
    Thread <- OneThread
    ThreadOf <- OnThread
    Rank <- SameRank
    DedupeOf <- NoKeys
    NoKey = NoKey
    ClaimLimit = 1
    ReclaimLimit = 100
    Results = {"Done", "Waiting"}
    MaxEpoch = 2
    MaxAttempts = 2
    Server <- TwoServers
    HomeOf <- AtFirst
    Inline <- One
    Run <- TwoRuns
    RunOf <- OwnRun
    Outcomes = {"Finished"}
    Suspends = FALSE
    MaxLapses = 1
    MaxCrashes = 1
    MaxCalls = 1
INVARIANTS
    RenewedIsExecuted
    LostSubmitIsRecovered
CHECK_DEADLOCK FALSE
