SPECIFICATION Spec
CONSTANTS
    p1 = p1
    p2 = p2
    v1 = v1
    Posters = {p1, p2}
    Voiders = {v1}
    None = None
    Unnamed = Unnamed
    MaxRows = 2
    MaxFacts = 2
    MaxEntries = 2
    MaxForgotten = 1
SYMMETRY PosterSymmetry
INVARIANTS
    OneEntryPerRow
    NothingHidden
    BooksAgree
    OnePoster
CHECK_DEADLOCK FALSE
