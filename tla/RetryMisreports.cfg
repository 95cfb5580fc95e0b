SPECIFICATION Spec
CONSTANTS
    RequestIds = {r1, r2}
    JobIds = {j1}
    NoJob = NoJob
    Values = {v1}
    NoValue = NoValue
    StrayPatches = {}
    Surroundings = {"retries"}
    MaxMishaps = 0
INVARIANTS
    FailureNotCalledSuccess
CHECK_DEADLOCK FALSE
