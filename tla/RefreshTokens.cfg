SPECIFICATION Spec
CONSTANTS
    Users = {u1, u2}
    Tokens = {t1, t2}
    Browsers = {b1}
    Requests = {r1, r2}
    NoUser = NoUser
    NoToken = NoToken
    NoRow = NoRow
SYMMETRY Symmetry
INVARIANTS TypeOK SessionInvariant
PROPERTIES SessionsSpec LogoutCloses OwnerRevokes LetInAgain CookiesAgree
