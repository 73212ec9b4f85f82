SPECIFICATION Spec
CONSTANTS
    f = f
    m = m
    t = t
    Node = {f, m, t}
    FsNode = {f}
    Cacheable = {f, m, t}
    Root = {t, m}
    Client = {c1}
    Value = {0, 1}
    None = None
    Invalidated = Invalidated
    Cyclic = Cyclic
    Throw = Throw
    Wanted <- SwapWanted
    Compute <- SwapCompute
    Disk0 <- DiskZero
    Retries = 0
    CycleAttempts = 10
    Budget <- MCBudget
    Writes = 1
    Executes = 2
    Flushes = 0
    Drains = 1
    Laps = 0
CHECK_DEADLOCK FALSE
INVARIANTS Acyclic NoWaitCycle WaitsFollowEdges
