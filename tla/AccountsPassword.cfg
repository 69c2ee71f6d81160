SPECIFICATION Spec
CONSTANTS
    Users = {u1}
    Requests = {r1}
    Tokens = {t1}
    Passwords = {p1}
    MaxTime = 0
    NoRow = NoRow
    NoUser = NoUser
    NoToken = NoToken
PROPERTY PasswordRequestsServed
