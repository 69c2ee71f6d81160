SPECIFICATION Spec
CONSTANTS
    Users = {u1, u2}
    Requests = {r1, r2}
    Roles = {superuser, normal}
    Permissions = {"assignRole", "removeRole", "updateRole"}
    SuperUser = superuser
    Normal = normal
    NoRole = NoRole
    Configured = {"assignRole", "removeRole", "updateRole"}
    Seed <- MCSeed
    Asked <- GuardAsked
    MaxFloating = 1
    MaxCopies = 1
SYMMETRY Symmetry
INVARIANTS TypeOK VerdictsHeld
PROPERTY ImplementsAuthorization
