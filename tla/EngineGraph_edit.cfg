SPECIFICATION Spec
CONSTANTS
    f = f
    m = m
    t = t
    Node = {f, m, t}
    FsNode = {f}
    Cacheable = {f, m}
    Root = {t}
    Client = {c1, c2}
    Value = {0, a, b}
    None = None
    Invalidated = Invalidated
    Cyclic = Cyclic
    Throw = Throw
    Wanted <- ChainWanted
    Compute <- ChainCompute
    Disk0 <- DiskZero
    Retries = 0
    CycleAttempts = 2
    Budget <- MCBudget
    Writes = 2
    Executes = 2
    Flushes = 0
    Drains = 0
    Laps = 0
CHECK_DEADLOCK FALSE
INVARIANTS TypeOK OneLiveRun AnswersFresh UsedFresh GenerationsTellValues CleanIsTrue
SYMMETRY EditSymmetry
