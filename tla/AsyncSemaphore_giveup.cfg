SPECIFICATION FairSpec
CONSTANTS
    Task = {t1, t2, t3}
    Permits = 2
    MaxAcquires = 8
    MaxDrops = 3
CHECK_DEADLOCK FALSE
INVARIANTS PermitsConserved QueueExact NoLostWakeup
PROPERTIES FirstComeFirstServed ServedIfAllStay
