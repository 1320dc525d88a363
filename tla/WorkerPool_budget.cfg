SPECIFICATION Spec
CONSTANTS
    p1 = p1
    p2 = p2
    x1 = x1
    x2 = x2
    r1 = r1
    r2 = r2
    r3 = r3
    r4 = r4
    Pools <- TwoPools
    Paths = {x1, x2}
    Requests = {r1, r2, r3}
    Workers = {w1, w2, w3, w4, w5}
    PoolOf <- OneEach
    PathOf <- LastElsewhere
    OverallLimit = 2
    BudgetLimit = 2
    Concurrency = 0
    Limit = 2
    MaxQueue = 0
    WarmPaths = {x2}
    WarmCount = 1
    Handshake = FALSE
    Happens = {"dispose", "kill", "warm", "spawnFails"}
    Ends = {"done"}
    MaxLeaving = 0
SYMMETRY Symmetry
INVARIANTS WithinLimits NoLostWakeup
