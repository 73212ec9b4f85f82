SPECIFICATION FairSpec
CONSTANTS
    f = f
    m = m
    t = t
    Node = {f, m}
    FsNode = {f}
    Cacheable = {f, m}
    Root = {m}
    Client = {c1}
    Value = {0, 1}
    None = None
    Invalidated = Invalidated
    Cyclic = Cyclic
    Throw = Throw
    Wanted <- ChainWanted
    Compute <- ChainCompute
    Disk0 <- DiskOne
    Retries = 1
    CycleAttempts = 2
    Budget <- MCBudget
    Writes = 1
    Executes = 2
    Flushes = 1
    Drains = 0
    Laps = 1
CHECK_DEADLOCK FALSE
INVARIANTS CleanIsTrue
PROPERTIES Answered
