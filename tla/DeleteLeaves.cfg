SPECIFICATION Spec
CONSTANTS
    Systems <- MCSystems
    Released = {"echo"}
    Names <- MCNames
    Ids = {i1, i2}
    NoId = NoId
    CommandLists <- MCCommandLists
    NoCommands = "none"
    Gone = Gone
    Posts <- MCPosts
    SystemBodies <- MCSystemBodies
    InstanceBodies <- MCInstanceBodies
    Handlers = {h1, h2}
    NoHandler = NoHandler
    Surroundings = {"unreachable"}
    MaxMessages = 1
    MaxCalls = 1
PROPERTIES
    DeleteDeletes
CHECK_DEADLOCK FALSE
