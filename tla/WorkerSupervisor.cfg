SPECIFICATION Spec
CONSTANTS
    Ids <- FourWorkers
    MaxDeaths = 3
\* once panics stop and the pool is full, nothing happens
CHECK_DEADLOCK FALSE
INVARIANTS
    TypeOK
    NoHandleLost
PROPERTY
    PoolRefills
