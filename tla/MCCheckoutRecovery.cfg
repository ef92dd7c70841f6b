SPECIFICATION Spec
CONSTANTS
    c1 = c1
    m1 = m1
    None = None
    Checkouts = {c1}
    Managers = {m1}
INVARIANTS
    NothingForgotten
    RegisterSalesReported
    EvidenceIsExact
PROPERTIES
    BlockedStays
CHECK_DEADLOCK FALSE
