SPECIFICATION Spec
CONSTANTS
    Invalid = Invalid
    Zero = Zero
    None = None
    h1 = h1
    h2 = h2
    Handles = {h1, h2}
    u1 = u1
    u2 = u2
    c1 = c1
    o1 = o1
    Users = {u1, u2}
    Closers = {c1}
    Openers = {o1}
    Attachers = {}
    RefMod = 8
    MaxOps = 2
SYMMETRY Symmetry
INVARIANTS
    TypeOK
    HandleInUseIsOpen
    ReleasedAtMostOnce
    RefCountIsExact
PROPERTIES
    ImplementsOwnedHandle
