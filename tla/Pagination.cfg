SPECIFICATION Spec
CONSTANTS
    Limits <- OmittedToFour
    DefaultLimit = 2
    MaxLimit = 3
    MaxRows = 7
    NoLimit = NoLimit
INVARIANTS
    TypeOK
    PagesInOrder
    NoLinkMeansLast
