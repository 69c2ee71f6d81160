SPECIFICATION Spec
CONSTANTS
    Users = {u1, u2}
    Requests = {r1}
    Tokens = {t1, t2}
    Passwords = {p1}
    MaxTime = 0
    NoRow = NoRow
    NoUser = NoUser
    NoToken = NoToken
INVARIANT GeneratedTokenUnused
