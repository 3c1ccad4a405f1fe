SPECIFICATION Spec
CONSTANTS
    None = None
    Ids = {i1}  Reqs = {r1, r2}  MaxInput = 1  MaxWire = 1
    Clients = {c1, c2}  MaxSize = 3  MaxRequests = 3  MaxStream = 2
    Threads = {t1, t2, t3}
    MaxSent = 2  Room = 1
    Strings = {s1, s2}  Bufs = {b0, b1, b2}  Narrows = {n1, n2}
    Empty = b0  Texts = {v}  NoText = noText
    Subnets = {x1, x2, x3}  MaxLinks = 2  MaxOutboundConnections = 2
    MaxCreated = 3  MaxStopped = 1
    Header = 2  Magic = 1  MaxPayload = 1  MaxMessages = 2  MaxQueued = 3  Modulus = 2
INVARIANTS
    TypeOK
    InputWakesReader EntryLostOnlyByReuse
    EndMeansAllForwarded
    TextIsOwn NarrowIsValid
    LimitsHoldUnlessOverlapped 
    StreamsAreWhole
PROPERTIES
    ImplementsRequestTable
    ImplementsEvent
    StoppedLinkEnds
CHECK_DEADLOCK FALSE
