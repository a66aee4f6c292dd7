SPECIFICATION Spec
CONSTANTS
    j1 = j1
    j2 = j2
    w1 = w1
    w2 = w2
    NoLock = NoLock
    NoJob = NoJob
    Jobs = {j1}
    Workers = {w1}
    Webhooks = {j1}
    Prio <- SamePrio
    MaxConcurrent = 2
    JobTimeout = 1
    StallMargin = 2
    DbLatency = 1
    MaxStalls = 2
    MaxFaults = 0
    MaxLate = 0
INVARIANT
    NotifiedMeansCompleted
