SPECIFICATION StoreSpec
CONSTANTS
    d1 = d1  d2 = d2  d3 = d3  t1 = t1
    Dispatch <- Three
    Thread <- OneThread
    ThreadOf <- OnThread
    Rank <- NewerFirst
    DedupeOf <- KeyOfTwo
    NoKey = NoKey
    ClaimLimit = 1
    ReclaimLimit = 1
    Results = {"Done"}
    MaxEpoch = 1
    MaxAttempts = 2
INVARIANTS
    StoreTypeOK
    OneClaimedPerThread
    InterruptFences
