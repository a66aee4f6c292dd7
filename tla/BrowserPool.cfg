SPECIFICATION FairSpec
CONSTANTS
    Tasks = {t1, t2, t3}
    Browsers = {b1, b2}
    NoBrowser = NoBrowser
    Nobody = Nobody
    Closer = Closer
\* after a shutdown nothing is left to do
CHECK_DEADLOCK FALSE
INVARIANTS
    TypeOK
    EachBrowserOnce
    PermitsConserved
    PermitsBacked
PROPERTIES
    WaitersServed
    PushesLand
