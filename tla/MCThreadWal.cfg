SPECIFICATION WalSpec
CONSTANTS
    c1 = c1
    c2 = c2
    c3 = c3
    x1 = x1
    r1 = r1
    r2 = r2
    f1 = f1
    f2 = f2
    Checkpoint <- TwoCalls
    Deletion <- OneDeletion
    Run <- Runs
    RunOf <- RunPerCall
    Flusher <- TwoFlushers
    Nobody = Nobody
    MaxLapses = 1
    LapseAt <- UnlessTombstone
    MaxFlushLapses = 0
    MaxFaults = 1
SYMMETRY Symmetric
INVARIANTS WalTypeOK OnlyCommittedIsSeen AckedIsStored FlushedIsWhole
PROPERTY ImplementsRegister
CHECK_DEADLOCK FALSE
