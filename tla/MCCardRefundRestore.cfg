SPECIFICATION Spec
CONSTANTS
    t1 = t1
    t2 = t2
    h1 = h1
    h2 = h2
    Tenders = {t1, t2}
    Handlers = {h1, h2}
    None = None
    Charge = 2
    Cancellations = {}
    MaxAttempts = 2
PROPERTIES
    RestoreFindsApproval
CHECK_DEADLOCK FALSE
