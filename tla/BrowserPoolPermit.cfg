SPECIFICATION Spec
CONSTANTS
    Tasks = {t1, t2, t3}
    Browsers = {b1, b2}
    NoBrowser = NoBrowser
    Nobody = Nobody
    Closer = Closer
CHECK_DEADLOCK FALSE
INVARIANT
    PermitMeansBrowser
