SPECIFICATION Spec
CONSTANTS
    None = None
    a1 = a1
    a2 = a2
    a3 = a3
    p1 = p1
    p2 = p2
    p3 = p3
    t1 = t1
    Addrs = {a1, a2, a3}
    Peers = {p1, p2, p3}
    Adders = {t1}
    Hash <- MCHash
    NewBucketCount = 2
    NewBucketSize = 1
    TriedBucketCount = 1
    TriedBucketSize = 1
    MaxOutboundConnections = 1
    MaxBans = 1
INVARIANTS
    NewBucketsAreBounded
