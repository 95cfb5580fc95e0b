SPECIFICATION FairSpec
CONSTANTS
    Jobs = {date, reset, ending}
    DateJobs = {date}
    ResettingJobs = {reset}
    EndingJobs = {ending}
    PostedStatuses = {"RUNNING", "PAUSED"}
    Workers = 2
    MaxInstances <- MCMaxInstances
    PatchBodies <- MCPatchBodies
    Surroundings = {"misfires", "fails", "restarts"}
INVARIANTS
    TypeOK
    RunningJobIsScheduled
PROPERTIES
    PauseHolds
    GoneStaysGone
    RunningJobRuns
CHECK_DEADLOCK FALSE
