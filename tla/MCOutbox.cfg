SPECIFICATION FairSpec
CONSTANTS
    j1 = j1
    j2 = j2
    w1 = w1
    w2 = w2
    Jobs = {j1}
    Workers = {w1, w2}
    NoJob = NoJob
    MaxAttempts = 2
    MaxFaults = 2
    Needs <- FullNeeds
INVARIANTS
    CompletedIsDone
    PointsOnce
    WebhookLast
    SoleHolder
    AttemptBudget
PROPERTIES
    CompletedStays
    EveryJobSettles
    ContractSpec
CHECK_DEADLOCK FALSE
