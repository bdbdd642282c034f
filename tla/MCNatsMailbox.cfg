SPECIFICATION NatsSpec
CONSTANTS
    d1 = d1
    d2 = d2
    p1 = p1
    p2 = p2
    p3 = p3
    None = None
    Dispatch = {d1, d2}
    Keyed = {d1, d2}
    Call = {p1, p2}
    MaxAttempts = 2
    MaxEpoch = 1
    MaxTokens = 2
    MaxCrashes = 1
SYMMETRY CallSymmetry
INVARIANTS OneLiveClaim InterruptFences DedupeKeyUnique IndexCoversActive
CHECK_DEADLOCK FALSE
