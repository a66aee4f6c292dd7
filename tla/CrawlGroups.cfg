SPECIFICATION FairSpec
CONSTANTS
    Crawls = {crawl}
    Batches = {batch}
    Groups = {g1, g2}
    Clients = {c1, c2}
    Workers = {w1}
    MaxJobs = 1
    MaxPages = 1
    MaxStalls = 1
    MaxCrashes = 1
    NoJob = NoJob
    NoGroup = NoGroup
    NoLock = NoLock
INVARIANTS
    TypeOK
    CompletedGroupHoldsItsPages
    CompletedJobClosedItsGroup
PROPERTIES
    FinalStays
    KnownJobsEnd
