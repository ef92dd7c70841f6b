SPECIFICATION LogFairSpec
CONSTANTS
    e1 = e1
    e2 = e2
    h1 = h1
    h2 = h2
    h3 = h3
    Events = {e1, e2}
    Ignored = {e2}
    Handlers = {h1, h2, h3}
    NoEvent = NoEvent
    MaxFaults = 2
INVARIANTS
    ActsOnce
    WorkerHoldsRow
PROPERTIES
    FinalStays
    EventsSettle
CHECK_DEADLOCK FALSE
