SPECIFICATION Spec
CONSTANTS
    NoOne = NoOne
    t1 = t1
    t2 = t2
    t3 = t3
    Threads = {t1, t2, t3}
INVARIANTS
    ReadersExcludeWriters
