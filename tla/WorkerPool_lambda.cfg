SPECIFICATION Spec
CONSTANTS
    p1 = p1
    p2 = p2
    x1 = x1
    x2 = x2
    r1 = r1
    r2 = r2
    r3 = r3
    r4 = r4
    Pools <- OnePool
    Paths = {x1}
    Requests = {r1, r2, r3}
    Workers = {w1, w2, w3}
    PoolOf <- AllInOne
    PathOf <- AllTheSame
    OverallLimit = 2
    BudgetLimit = 0
    Concurrency = 1
    Limit = 2
    MaxQueue = 1
    WarmPaths = {}
    WarmCount = 1
    Handshake = TRUE
    Happens = {"age", "kill", "killAfter", "leaveLine", "crash", "stable"}
    Ends = {"done"}
    MaxLeaving = 0
SYMMETRY FullSymmetry
INVARIANT NoPlaceWasted
