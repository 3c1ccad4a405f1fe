SPECIFICATION Spec
CONSTANTS
    i1 = i1  r1 = r1  r2 = r2
    Ids = {i1}
    Reqs = {r1, r2}
    MaxInput = 1
    MaxWire = 1
    None = None
INVARIANTS
    WokenReaderHasInput
CHECK_DEADLOCK FALSE
