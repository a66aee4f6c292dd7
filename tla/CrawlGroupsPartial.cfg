SPECIFICATION Spec
CONSTANTS
    Crawls = {crawl}
    Batches = {}
    Groups = {g1, g2}
    Clients = {c1}
    Workers = {w1}
    MaxJobs = 1
    MaxPages = 2
    MaxStalls = 1
    MaxCrashes = 0
    NoJob = NoJob
    NoGroup = NoGroup
    NoLock = NoLock
\* all jobs posted and settled, or no group id left
CHECK_DEADLOCK FALSE
INVARIANT
    CompletedHoldsAllPages
