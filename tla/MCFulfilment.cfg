SPECIFICATION Spec
CONSTANTS
    l1 = l1
    l2 = l2
    Lines = {l1, l2}
    MaxQuantity = 2
    MaxUnits = 3
    Overrides = TRUE
    OpeningStock = 0
    MaxForStock = 1
SYMMETRY LineSymmetry
INVARIANTS
    BooksMatchShelf
    PromisesKept
CHECK_DEADLOCK FALSE
