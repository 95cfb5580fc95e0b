SPECIFICATION Spec
CONSTANTS
    RequestIds = {r1, r2}
    JobIds = {j1}
    NoJob = NoJob
    Values = {v1}
    NoValue = NoValue
    StrayPatches = {}
    Surroundings = {"refuses", "rpc_loss", "retries", "clears", "restarts", "crashes"}
    MaxMishaps = 2
INVARIANTS
    BlockingAnswerHolds
    RefusedLeavesNothing
    CreatedIsQueued
PROPERTIES
    CompletedIsFinal
    Contract
CHECK_DEADLOCK FALSE
