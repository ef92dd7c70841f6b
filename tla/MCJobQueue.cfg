SPECIFICATION FairSpec
CONSTANTS
    j1 = j1
    j2 = j2
    l1 = l1
    l2 = l2
    t1 = t1
    t2 = t2
    NoJob = NoJob
    Jobs = {j1}
    Loops = {l1}
    Tasks = {t1, t2}
    Owner <- OneServer
    MaxRetries = 2
    MaxFaults = 2
    MaxRuns = 5
INVARIANTS
    NotLost
    RecoveredAfterTimeout
    SoleTask
    RunBudget
PROPERTY
    EveryJobSettles
CHECK_DEADLOCK FALSE
