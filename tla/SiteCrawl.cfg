SPECIFICATION Spec
CONSTANTS
    Pages = {root, a, b}
    Root = root
    DepthBound = 2
    LimitBound = 3
    SitemapBound = 2
SYMMETRY Symmetry
\* a crawl that has returned is over
CHECK_DEADLOCK FALSE
INVARIANTS
    TypeOK
    FindsAllInReach
    DepthIsDistance
    LimitKeepsNearest
