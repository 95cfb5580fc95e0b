SPECIFICATION Spec
CONSTANTS
    Jobs = {reset}
    DateJobs = {}
    ResettingJobs = {reset}
    EndingJobs = {}
    PostedStatuses = {"RUNNING"}
    Workers = 1
    MaxInstances <- MCMaxInstances
    PatchBodies <- MCPatchBodies
    Surroundings = {}
INVARIANTS
    PausedJobSleeps
CHECK_DEADLOCK FALSE
