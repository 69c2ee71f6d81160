SPECIFICATION Spec
CONSTANTS
    Users = {u1}
    Requests = {r1}
    Roles = {superuser, normal, role3}
    Permissions = {"sync", "removePermission", "createPermission", "createRole",
                   "updatePermission", p1}
    SuperUser = superuser
    Normal = normal
    NoRole = NoRole
    Configured = {"sync", "removePermission", "createPermission", "createRole",
                  "updatePermission"}
    Seed <- MCSeed
    Asked <- RoutesAsked
    MaxFloating = 2
    MaxCopies = 0
SYMMETRY Symmetry
INVARIANT OnlySuperUserHolds
PROPERTY OnlyAssignmentGrants
