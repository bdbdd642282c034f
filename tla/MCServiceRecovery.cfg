SPECIFICATION FairServiceSpec
CONSTANTS
    d1 = d1  d2 = d2  s1 = s1  s2 = s2  t1 = t1  r1 = r1  r2 = r2
    Dispatch <- One
    Thread <- OneThread
    ThreadOf <- OnThread
    Rank <- SameRank
    DedupeOf <- NoKeys
    NoKey = NoKey
    ClaimLimit = 1
    ReclaimLimit = 100
    Results = {"Done", "Waiting"}
    MaxEpoch = 0
    MaxAttempts = 2
    Server <- TwoServers
    HomeOf <- AtFirst
    Inline = {}
    Run <- TwoRuns
    RunOf <- OwnRun
    Outcomes = {"Finished", "Suspended", "Permanent"}
    Suspends = FALSE
    MaxLapses = 1
    MaxCrashes = 1
    MaxCalls = 0
PROPERTIES
    QueuedIsServed
CHECK_DEADLOCK FALSE
