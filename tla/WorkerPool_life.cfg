SPECIFICATION FairSpec
CONSTANTS
    p1 = p1
    p2 = p2
    x1 = x1
    x2 = x2
    r1 = r1
    r2 = r2
    r3 = r3
    r4 = r4
    Pools <- OnePool
    Paths = {x1, x2}
    Requests = {r1, r3}
    Workers = {w1, w2}
    PoolOf <- AllInOne
    PathOf <- LastElsewhere
    OverallLimit = 1
    BudgetLimit = 0
    Concurrency = 0
    Limit = 2
    MaxQueue = 0
    WarmPaths = {x2}
    WarmCount = 1
    Handshake = FALSE
    Happens = {"crash", "keepWarm", "dispose"}
    Ends = {"done"}
    MaxLeaving = 0
INVARIANT KeptWarm
PROPERTIES LineDrains DisposalEnds
