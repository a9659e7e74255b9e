SPECIFICATION Spec
CONSTANTS
    v1 = v1
    c1 = c1
    c2 = c2
    d1 = d1
    d2 = d2
    p1 = p1
    p2 = p2
    NULL = NULL
    NoExpiry = NoExpiry
    Callers = {c1, c2}
    Limit = 2
    Window = 2
    MaxLost = 1
    MaxSlips = 1
    Visits = {v1}
    Desks = {d1, d2}
    Replicas = {p1, p2}
    Length = 1
    Grants = {1}
    MaxFailed = 1
    MaxEnd = 1
INVARIANTS
    OvershootBounded
PROPERTIES
    BudgetRefills
    EveryOverrunIsTold
CHECK_DEADLOCK FALSE
