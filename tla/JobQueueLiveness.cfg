SPECIFICATION FairSpec
CONSTANTS
    j1 = j1
    j2 = j2
    w1 = w1
    w2 = w2
    NoLock = NoLock
    NoJob = NoJob
    Jobs = {j1, j2}
    Workers = {w1}
    Webhooks = {j1}
    Prio <- UrgentSecond
    MaxConcurrent = 1
    JobTimeout = 1
    StallMargin = 2
    DbLatency = 1
    MaxStalls = 1
    MaxFaults = 2
    MaxLate = 1
PROPERTY
    EveryJobSettles
