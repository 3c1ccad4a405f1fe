---------------------------- MODULE PeerManager ----------------------------
(***************************************************************************)
(* The peer table of the P2P network library (inet/p2p-peers.cpp, .h):     *)
(* IpToPeer owns the known peers, VecRandom lists them by raw pointer, and *)
(* the New and Tried buckets, found by a hash of the address, order them   *)
(* for Select().  Threads Add() addresses, links report Good() and         *)
(* misbehaving peers, and a periodic thread opens links and saves the      *)
(* table when it is dirty.                                                 *)
(*                                                                         *)
(* A step is one section under MtxPeers, or one access outside it.  Which  *)
(* peer of a bucket is terrible or oldest depends on the clock: it is any. *)
(***************************************************************************)
EXTENDS Integers, FiniteSets

CONSTANTS
    Addrs,            \* IP addresses
    Peers,            \* Peer objects; a freed one may be allocated again
    Adders,           \* threads that call Add()
    None,             \* nullptr
    Hash(_),          \* Peer::GetHash() of the peer at an address
    NewBucketCount, NewBucketSize,       \* ADDRMAN_NEW_BUCKET_COUNT, _SIZE
    TriedBucketCount, TriedBucketSize,   \* ADDRMAN_TRIED_BUCKET_COUNT, _SIZE
    MaxOutboundConnections,              \* links OnPeriodic() opens at most
    MaxBans           \* bound: addresses that are banned

ASSUME PeerManagerAssumption ==
    /\ None \notin Addrs \cup Peers
    /\ NewBucketCount \in Nat \ {0} /\ NewBucketSize \in Nat \ {0}
    /\ TriedBucketCount \in Nat \ {0} /\ TriedBucketSize \in Nat \ {0}
    /\ \A a \in Addrs : Hash(a) \in Nat

VARIABLES
    endPoint,    \* Peer::EndPoint of each object, None while it is not in use
    ipToPeer,    \* IpToPeer
    vecRandom,   \* VecRandom
    newPeers,    \* m_peers of each bucket of NewBuckets
    triedPeers,  \* m_peers of each bucket of TriedBuckets
    linked,      \* the peers that links hold in Link::Peer
    banned,      \* NetManager::BannedIPs
    dirty,       \* m_aPeersDirty
    adding,      \* the address each Add() is about to enter
    periodic,    \* OnPeriodic(): "idle", about to "test" the flag, or "saving"
    saved,       \* the addresses in the file
    overtaken,   \* history: addresses whose Add() has set the flag but not yet
                 \* entered them when a save that cleared the flag is made
    revived      \* history: Good() was told of a peer that Shrink() had dropped

tables == <<endPoint, ipToPeer, vecRandom, newPeers, triedPeers>>
saves  == <<dirty, periodic, saved, overtaken>>
vars   == <<tables, linked, banned, adding, saves, revived>>

NewIndex(a)   == Hash(a) % NewBucketCount
TriedIndex(a) == Hash(a) % TriedBucketCount

InNew(p)   == \E i \in DOMAIN newPeers : p \in newPeers[i]
InTried(p) == \E i \in DOMAIN triedPeers : p \in triedPeers[i]

Init ==
    /\ endPoint = [p \in Peers |-> None]
    /\ ipToPeer = [a \in Addrs |-> None]
    /\ vecRandom = {}
    /\ newPeers = [i \in 0..(NewBucketCount - 1) |-> {}]
    /\ triedPeers = [i \in 0..(TriedBucketCount - 1) |-> {}]
    /\ linked = {} /\ banned = {}
    /\ adding = [t \in Adders |-> None]
    /\ dirty = FALSE /\ periodic = "idle" /\ saved = {} /\ overtaken = {}
    /\ revived = FALSE

\* A ptr<> to the object exists.
Owned(p) == p \in linked \/ InNew(p) \/ InTried(p) \/ \E a \in Addrs : ipToPeer[a] = p

\* The object at ends[p] is destroyed with its last ptr<>.
Reclaimed(ends) == [p \in Peers |-> IF Owned(p)' THEN ends[p] ELSE None]

-----------------------------------------------------------------------------
(* Add().                                                                  *)

\* The tests and the flag, before the lock.
AddBegin(t, a) ==
    /\ adding[t] = None
    /\ a \notin banned
    /\ adding' = [adding EXCEPT ![t] = a]
    /\ dirty' = TRUE
    /\ UNCHANGED <<tables, linked, banned, periodic, saved, overtaken, revived>>

\* The peer is to enter the New bucket i, which is full.
MustShrink(p, i) == p \notin newPeers[i] /\ Cardinality(newPeers[i]) >= NewBucketSize

\* Mutant of Forget: the pointer stays.
ForgetAddressOnly(list, v) == list

\* PeerManager::Remove() takes the pointer out of VecRandom.
Forget(list, v) == list \ {v}

\* Under the lock: find or create the peer p, and see that it is in its New
\* bucket.  Shrink() of a full bucket makes room: it drops the peer v and
\* PeerManager::Remove() forgets v's address and pointer.
AddInsert(t, p, v) ==
    LET a      == adding[t]
        known  == ipToPeer[a] # None
        i      == NewIndex(a)
        tried  == known /\ InTried(p)
        shrink == ~tried /\ MustShrink(p, i)
    IN  /\ a # None
        /\ adding' = [adding EXCEPT ![t] = None]
        /\ IF known THEN p = ipToPeer[a] ELSE ~Owned(p)
        /\ IF shrink THEN v \in newPeers[i] ELSE v = None
        /\ newPeers' = IF tried THEN newPeers
                                ELSE [newPeers EXCEPT ![i] = (@ \ {v}) \cup {p}]
        /\ ipToPeer' = [b \in Addrs |-> IF shrink /\ b = endPoint[v] THEN None
                                        ELSE IF b = a THEN p ELSE ipToPeer[b]]
        /\ vecRandom' = Forget(vecRandom \cup (IF known THEN {} ELSE {p}), v)
        /\ linked' = linked /\ triedPeers' = triedPeers
        /\ endPoint' = Reclaimed([endPoint EXCEPT ![p] = a])
        /\ UNCHANGED <<banned, saves, revived>>

-----------------------------------------------------------------------------
(* What links report.                                                      *)

\* Mutant of RemovedFromNew: the New buckets keep the peer.
StillInNew(p) == newPeers

TriedHasRoom(i) == Cardinality(triedPeers[i]) < TriedBucketSize

\* Good() takes the peer out of every New bucket.
RemovedFromNew(p) == [j \in DOMAIN newPeers |-> newPeers[j] \ {p}]

\* Good(): the peer moves to its Tried bucket.  If that is full, the oldest
\* peer o goes back to its New bucket and the place stays empty.
Good(p, o) ==
    LET i    == TriedIndex(endPoint[p])
        room == TriedHasRoom(i)
        rest == RemovedFromNew(p)
    IN  /\ p \in linked
        /\ ~InTried(p)
        /\ IF room THEN o = None ELSE o \in triedPeers[i]
        /\ triedPeers' = [triedPeers EXCEPT ![i] = IF room THEN @ \cup {p} ELSE @ \ {o}]
        /\ newPeers' = IF room THEN rest
                       ELSE [rest EXCEPT ![NewIndex(endPoint[o])] = @ \cup {o}]
        /\ revived' = (revived \/ ipToPeer[endPoint[p]] # p)
        /\ UNCHANGED <<endPoint, ipToPeer, vecRandom, linked, banned, adding, saves>>

\* A message that cannot be parsed: NetManager::BanPeer().  The peer stays
\* in the tables.
BanPeer(p) ==
    /\ p \in linked
    /\ Cardinality(banned) < MaxBans
    /\ banned' = banned \cup {endPoint[p]}
    /\ UNCHANGED <<tables, linked, adding, saves, revived>>

CloseLink(p) ==
    /\ p \in linked
    /\ linked' = linked \ {p}
    /\ UNCHANGED <<ipToPeer, vecRandom, newPeers, triedPeers, banned, adding, saves, revived>>
    /\ endPoint' = Reclaimed(endPoint)

-----------------------------------------------------------------------------
(* OnPeriodic().                                                           *)

\* Select() draws from the buckets until a chance, which is never 0, comes up.
Selectable(p) == InNew(p) \/ InTried(p)

\* Under the lock: links are opened to selected peers, as many as are
\* missing.  When the list of links is full of incoming ones, OnPeriodic()
\* returns before that and before the save, and nothing changes.
OpenLinks(S) ==
    /\ periodic = "idle"
    /\ \A p \in S : Selectable(p) /\ p \notin linked
    /\ S # {} => Cardinality(linked \cup S) <= MaxOutboundConnections
    /\ linked' = linked \cup S
    /\ periodic' = "test"
    /\ UNCHANGED <<tables, banned, adding, dirty, saved, overtaken, revived>>

\* After it: compare_exchange_weak() clears the flag before the save; it may
\* also fail spuriously.
TestDirty ==
    /\ periodic = "test"
    /\ \/ dirty /\ dirty' = FALSE /\ periodic' = "saving"
       \/ periodic' = "idle" /\ UNCHANGED dirty
    /\ UNCHANGED <<tables, linked, banned, adding, saved, overtaken, revived>>

\* The addresses of Add()s whose flag a save has consumed.
Consumed == IF dirty THEN {} ELSE {adding[t] : t \in Adders} \ {None}

\* Mutants of SavePeers: the flag is cleared after the table was read, and
\* pointers are written for addresses.
SavePeersClears ==
    /\ periodic = "saving" /\ periodic' = "idle"
    /\ saved' = {endPoint[p] : p \in vecRandom} \ {None}
    /\ overtaken' = Consumed
    /\ dirty' = FALSE
    /\ UNCHANGED <<tables, linked, banned, adding, revived>>

SavePeersPointers ==
    /\ periodic = "saving" /\ periodic' = "idle"
    /\ saved' = vecRandom
    /\ overtaken' = Consumed
    /\ UNCHANGED <<tables, linked, banned, adding, dirty, revived>>

\* SavePeers() of the application writes GetAllPeers(); what it reads through
\* a dangling pointer is left out.
SavePeers ==
    /\ periodic = "saving" /\ periodic' = "idle"
    /\ saved' = {endPoint[p] : p \in vecRandom} \ {None}
    /\ overtaken' = Consumed
    /\ UNCHANGED <<tables, linked, banned, adding, dirty, revived>>

-----------------------------------------------------------------------------
Next ==
    \/ \E t \in Adders :
          \/ \E a \in Addrs : AddBegin(t, a)
          \/ \E p \in Peers, v \in Peers \cup {None} : AddInsert(t, p, v)
    \/ \E p \in Peers :
          \/ \E o \in Peers \cup {None} : Good(p, o)
          \/ BanPeer(p) \/ CloseLink(p)
    \/ \E S \in SUBSET Peers : OpenLinks(S)
    \/ TestDirty
    \/ SavePeers

Spec == Init /\ [][Next]_vars

-----------------------------------------------------------------------------
\* Every variable has its type.
TypeOK ==
    /\ endPoint \in [Peers -> Addrs \cup {None}]
    /\ ipToPeer \in [Addrs -> Peers \cup {None}]
    /\ vecRandom \cup linked \subseteq Peers
    /\ newPeers \in [0..(NewBucketCount - 1) -> SUBSET Peers]
    /\ triedPeers \in [0..(TriedBucketCount - 1) -> SUBSET Peers]
    /\ adding \in [Adders -> Addrs \cup {None}]
    /\ banned \cup saved \cup overtaken \subseteq Addrs
    /\ dirty \in BOOLEAN /\ revived \in BOOLEAN
    /\ periodic \in {"idle", "test", "saving"}

\* VecRandom, whose raw pointers GetPeers() turns into ptr<>s, lists exactly
\* the peers that IpToPeer owns, and the buckets hold no other peer; until a
\* link reports Good() for a peer that Shrink() has dropped (see the README).
IndexesAgree ==
    ~revived =>
        /\ vecRandom = {p \in Peers : \E a \in Addrs : ipToPeer[a] = p}
        /\ \A p \in Peers : InNew(p) \/ InTried(p) => p \in vecRandom

\* A peer is in at most one bucket, New or Tried, and in the one its hash
\* names, whatever sequence of Add(), Shrink() and Good() moved it.
PlacedOnce ==
    \A p \in Peers :
        /\ \A i \in DOMAIN newPeers : p \in newPeers[i] => i = NewIndex(endPoint[p])
        /\ \A i \in DOMAIN triedPeers : p \in triedPeers[i] => i = TriedIndex(endPoint[p])
        /\ ~(InNew(p) /\ InTried(p))

\* "maximum allowed number of entries in buckets for new addresses"
NewBucketsAreBounded ==
    \A i \in DOMAIN newPeers : Cardinality(newPeers[i]) <= NewBucketSize

\* An address that is known and not in the file will be written: the flag is
\* set or the save is on its way.  The one exception is an Add() that a whole
\* save overtakes between its store to the flag and its lock.
UnsavedIsDirty ==
    \A a \in Addrs :
        ipToPeer[a] # None /\ a \notin saved => dirty \/ periodic = "saving" \/ a \in overtaken
=============================================================================
