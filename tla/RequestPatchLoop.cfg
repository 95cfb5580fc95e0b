SPECIFICATION Spec
CONSTANTS
    Values = {v1, v2}
    v1 = v1
    v2 = v2
    NoValue = NoValue
    MaxOps = 3
    Bodies <- MCBodies
INVARIANTS
    TypeOK
    SavedAsDefined
    RejectedAsDefined
    EventAsDefined
    CompletedFieldsKept
CHECK_DEADLOCK FALSE
