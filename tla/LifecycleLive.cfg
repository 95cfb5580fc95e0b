SPECIFICATION ServerFairSpec
CONSTANTS
    RequestIds = {r1, r2}
    JobIds = {}
    NoJob = NoJob
    Values = {v1}
    NoValue = NoValue
    StrayPatches <- MCStrayPatches
    Surroundings = {"unreachable", "refuses", "rpc_loss", "retries", "redelivers", "strays", "clears", "restarts"}
    MaxMishaps = 1
INVARIANTS
    TypeOK
    WaiterInMap
    NoLostWakeup
PROPERTIES
    BoundedPostAnswered
    EveryPostAnswered
CHECK_DEADLOCK FALSE
