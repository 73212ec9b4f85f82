SPECIFICATION Spec
CONSTANTS
    f1 = f1
    f2 = f2
    d1 = d1
    Key = {f1, f2}
    FileKey = {f1, f2}
    Size <- MCSize
    Process = {p1}
    Target = 1
    LeaseTerm = 2
    LeaseEvery = 1
    CollectEvery = 4
    MaxTime = 8
CHECK_DEADLOCK FALSE
INVARIANTS InUsePresent
