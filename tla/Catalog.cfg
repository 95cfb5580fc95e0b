SPECIFICATION Spec
CONSTANTS
    Systems <- MCSystems
    Released = {"echo"}
    Names <- MCNames
    Ids = {i1, i2, i3}
    NoId = NoId
    CommandLists <- MCCommandLists
    NoCommands = "none"
    Gone = Gone
    Posts <- MCPosts
    SystemBodies <- MCSystemBodies
    InstanceBodies <- MCInstanceBodies
    Handlers = {h1, h2}
    NoHandler = NoHandler
    Surroundings = {"unreachable", "losses"}
    MaxMessages = 1
    MaxCalls = 2
INVARIANTS
    TypeOK
    StatusSettles
PROPERTIES
    RemovedStayUnlisted
    LimitKeptByPatch
    ReleasedCommandsFixed
    IdentityKept
SYMMETRY MCSymmetry
CHECK_DEADLOCK FALSE
