SPECIFICATION Spec
CONSTANTS
    f1 = f1
    f2 = f2
    d1 = d1
    Key = {f1, d1}
    FileKey = {f1}
    Size <- MCSize
    Process = {p1, p2}
    Target = 1
    LeaseTerm = 1
    LeaseEvery = 1
    CollectEvery = 2
    MaxTime = 5
CHECK_DEADLOCK FALSE
INVARIANTS PlanStillValid HeapCoversUsed
PROPERTIES LeasedSurvive
