SPECIFICATION Spec
CONSTANTS
    Users = {u1}
    Requests = {r1, r2}
    Secrets = {s1, s2}
    MaxTime = 1
    NoSecret = NoSecret
    NoRow = NoRow
SYMMETRY Symmetry
INVARIANTS TypeOK FactorInvariant
PROPERTIES ImplementsSecondFactor FactorSticks NewSessionNeedsActive ToggleAlone
