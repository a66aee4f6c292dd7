SPECIFICATION Spec
CONSTANTS
    Sitemaps = {root, a, b, c}
    Root = root
    MaxDepth = 2
    LimitBound = 3
    MaxUrls = 2
    MaxChildren = 2
SYMMETRY Symmetry
\* a walk that has returned is over
CHECK_DEADLOCK FALSE
INVARIANTS
    TypeOK
    WithinLimit
    ContributesOnce
    NothingMissed
