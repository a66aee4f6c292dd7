SPECIFICATION FairSpec
CONSTANTS
    a = a
    b = b
    c = c
    http = http
    https = https
    other = other
    site = site
    elsewhere = elsewhere
    Urls = {a, b, c}
    OriginOf <- TwoHosts
    HostOf <- Sites
    FirstUrl = a
    Rules <- AllOrNothing
    Parallel = 2
    MaxHosts = 1
    RetriesBound = 2
    Completions <- SomeCompletions
    NoFile = NoFile
    NoUrl = NoUrl
\* a run that has ended is over
CHECK_DEADLOCK FALSE
INVARIANTS
    TypeOK
    PermitsConserved
    RobotsRespected
    EveryPageCollected
    ObjectRecovered
PROPERTY
    RunEnds
