SPECIFICATION Spec
CONSTANTS
    Signals = {g1, g2}
    Sockets = {s1, s2}
    Surroundings = {"mongo", "drops", "fails", "slow"}
    MaxCalls = 2
    MaxEvents <- MCMaxEvents
INVARIANTS
    TypeOK
    DeliveredInOrder
    NoListenerOutlives
    StopsDrained
PROPERTIES
    SignalStops
CHECK_DEADLOCK FALSE
