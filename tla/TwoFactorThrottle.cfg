SPECIFICATION Spec
CONSTANTS
    Users = {u1}
    Requests = {r1}
    Secrets = {s1}
    MaxTime = 1
    NoSecret = NoSecret
    NoRow = NoRow
PROPERTY ThrottleOutlivesToggle
