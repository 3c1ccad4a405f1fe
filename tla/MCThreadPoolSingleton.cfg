SPECIFICATION Spec
CONSTANTS
    None = None
    w1 = w1
    w2 = w2
    i1 = i1
    i2 = i2
    i3 = i3
    c1 = c1
    c2 = c2
    x1 = x1
    Workers = {w1, w2}
    Callers = {c1, c2}
    Cancellers = {}
    Items = {i1, i2}
    StartsUp = FALSE
    MayShutDown = FALSE
INVARIANTS
    PoolIsSingleton
CHECK_DEADLOCK FALSE
