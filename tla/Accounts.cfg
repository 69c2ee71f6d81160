SPECIFICATION Spec
CONSTANTS
    Users = {u1}
    Requests = {r1, r2}
    Tokens = {t1, t2}
    Passwords = {p1, p2}
    MaxTime = 1
    NoRow = NoRow
    NoUser = NoUser
    NoToken = NoToken
SYMMETRY Symmetry
INVARIANTS TypeOK AccountInvariant
PROPERTIES NoLostUpdateAlone BlockSticks
