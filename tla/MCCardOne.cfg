SPECIFICATION FairSpec
CONSTANTS
    c1 = c1
    c2 = c2
    t1 = t1
    t2 = t2
    p1 = p1
    Checkouts = {c1}
    Terminals = {t1}
    Pollers = {p1}
    Intents = {"look", "physical_cancel", "ros_error"}
    NoCheckout = NoCheckout
    NoTerminal = NoTerminal
    MaxStarts = 1
    MaxReads = 2
    MaxPolls = 0
INVARIANTS
    ApprovalsAreReal
PROPERTIES
    ApprovalFinal
    ChargeRecorded
CHECK_DEADLOCK FALSE
