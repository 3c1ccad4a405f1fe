SPECIFICATION FairSpec
CONSTANTS
    Invalid = Invalid
    Zero = Zero
    None = None
    h1 = h1
    h2 = h2
    Handles = {h1, h2}
    u1 = u1
    c1 = c1
    a1 = a1
    a2 = a2
    Users = {u1}
    Closers = {c1}
    Openers = {}
    Attachers = {a1, a2}
    RefMod = 8
    MaxOps = 2
INVARIANTS
    NoHandleLeaks
PROPERTIES
    DisposedIsReleased
