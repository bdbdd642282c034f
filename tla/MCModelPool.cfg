SPECIFICATION PoolSpec
CONSTANTS
    m1 = m1  m2 = m2  c1 = c1  c2 = c2  p1 = p1  x1 = x1  x2 = x2
    None = None
    Member = {m1, m2}
    Homes = {m1, m2}
    Call = {c1, p1}
    Plain = {p1}
    Session = {c1, p1}
    SessionOf <- OwnSession
    Pool = {x1}
    PoolOf <- OnePool
    Score <- FirstIsBest
    Threshold = 2
    HalfOpenMax = 1
    MaxSwitches = 2
    MaxStreamRetries = 1
INVARIANTS HalfOpenIsProbed FailureIsChargedOnce
CHECK_DEADLOCK FALSE
