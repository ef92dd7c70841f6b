SPECIFICATION Spec
CONSTANTS
    c1 = c1
    c2 = c2
    t1 = t1
    t2 = t2
    p1 = p1
    Checkouts = {c1, c2}
    Terminals = {t1}
    Pollers = {p1}
    Intents = {"look"}
    NoCheckout = NoCheckout
    NoTerminal = NoTerminal
    MaxStarts = 2
    MaxReads = 1
    MaxPolls = 1
SYMMETRY CheckoutSymmetry
INVARIANTS
    CancelTakenForAnother
PROPERTIES
    NoSecondPurchase
    SaleTakesApprovals
CHECK_DEADLOCK FALSE
