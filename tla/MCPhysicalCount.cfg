SPECIFICATION CountSpec
CONSTANTS
    s1 = s1
    s2 = s2
    Scans = {s1, s2}
    None = None
    InitialStock = 2
    MaxClock = 5
SYMMETRY ScanSymmetry
INVARIANTS
    LedgerExact
PROPERTIES
    PublishedIsShelf
    OverwritesOnlyUnseen
CHECK_DEADLOCK FALSE
