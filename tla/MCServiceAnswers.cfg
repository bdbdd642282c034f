SPECIFICATION FairServiceSpec
CONSTANTS
    d1 = d1  d2 = d2  s1 = s1  s2 = s2  t1 = t1  r1 = r1  r2 = r2
    Dispatch <- Two
    Thread <- OneThread
    ThreadOf <- OnThread
    Rank <- SameRank
    DedupeOf <- NoKeys
    NoKey = NoKey
    ClaimLimit = 1
    ReclaimLimit = 100
    Results = {"Done", "Waiting"}
    MaxEpoch = 2
    MaxAttempts = 1
    Server <- OneServer
    HomeOf <- AtFirst
    Inline <- One
    Run <- TwoRuns
    RunOf <- OwnRun
    Outcomes = {"Finished", "AgentError"}
    Suspends = FALSE
    MaxLapses = 0
    MaxCrashes = 0
    MaxCalls = 1
INVARIANTS
    WorkerHasTask
    ClaimIsRenewed
    RejectedLeavesNothing
PROPERTIES
    SubmitReturns
    TerminalRunIsClosed
CHECK_DEADLOCK FALSE
