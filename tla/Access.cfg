SPECIFICATION Spec
CONSTANTS
    Roles <- MCRoles
    Protected <- MCProtected
    Permissions <- MCPermissions
    Users <- MCUsers
    Anonymous = "anonymous"
    Tokens = {t1}
    RoleBodies <- MCRoleBodies
    UserBodies <- MCUserBodies
    NewRoles <- MCNewRoles
    NewUsers <- MCNewUsers
    Auth = "guest"
    Lifetime = 1
    MaxCopies = 1
    Gone = Gone
    FirstRoles <- MCFirstRoles
    FirstUsers <- MCFirstUsers
INVARIANTS
    TypeOK
    NestingAcyclic
    NoDanglingRoles
PROPERTIES
    GuestGoesStaleUntold
    DeadTokensStayDead
CHECK_DEADLOCK FALSE
