SPECIFICATION FairSpec
CONSTANTS
    Keys = {k1, k2}
    Requests = {r1, r2}
    Limit = 2
INVARIANTS TypeOK OvershootBounded
PROPERTIES BudgetSpec EveryLoginAnswered BlockEnds
