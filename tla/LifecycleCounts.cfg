SPECIFICATION Spec
CONSTANTS
    RequestIds = {r1, r2}
    JobIds = {j1}
    NoJob = NoJob
    Values = {v1}
    NoValue = NoValue
    StrayPatches = {}
    Surroundings = {"refuses", "retries", "removals", "restarts"}
    MaxMishaps = 2
INVARIANTS
    GaugesExact
    NoCompletionCountedTwice
    JobTally
    OutcomeAnnounced
SYMMETRY MCSymmetry
CHECK_DEADLOCK FALSE
