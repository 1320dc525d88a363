SPECIFICATION Spec
CONSTANTS
    p1 = p1
    p2 = p2
    x1 = x1
    x2 = x2
    r1 = r1
    r2 = r2
    r3 = r3
    r4 = r4
    Pools <- OnePool
    Paths = {x1, x2}
    Requests = {r1, r2, r3, r4}
    Workers = {w1, w2, w3, w4}
    PoolOf <- AllInOne
    PathOf <- LastTwoElsewhere
    OverallLimit = 2
    BudgetLimit = 0
    Concurrency = 0
    Limit = 2
    MaxQueue = 0
    WarmPaths = {}
    WarmCount = 1
    Handshake = FALSE
    Happens = {"crash", "kill", "age", "idle", "leaveLine"}
    Ends = {"signalled"}
    MaxLeaving = 0
SYMMETRY PairSymmetry
INVARIANTS LeasedStayListed StopSparesRequests
