------------------------- MODULE PeerManagerProofs -------------------------
(***************************************************************************)
(* Proofs about PeerManager for any sets of addresses, peers and threads,  *)
(* any hash and any sizes of the buckets.                                  *)
(***************************************************************************)
EXTENDS PeerManager, FiniteSetTheorems, TLAPS

(* An object that a ptr<> points to is in use, and it is entered under its *)
(* own address only.                                                       *)
OwnedInUse ==
    /\ \A p \in Peers : Owned(p) => endPoint[p] \in Addrs
    /\ \A a \in Addrs : ipToPeer[a] \in Peers => endPoint[ipToPeer[a]] = a

(* GetAllPeers() misses no peer that IpToPeer owns.                        *)
KnownIsListed == \A a \in Addrs : ipToPeer[a] \in Peers => ipToPeer[a] \in vecRandom

(* An Add() that has set the flag can rely on it, unless it is overtaken.  *)
FlagStands ==
    \A t \in Adders : adding[t] # None =>
        dirty \/ periodic = "saving" \/ adding[t] \in overtaken

IInv ==
    /\ TypeOK /\ OwnedInUse /\ PlacedOnce
    /\ KnownIsListed /\ FlagStands /\ UnsavedIsDirty /\ IndexesAgree

(* The hash of an address names a bucket of each kind.                     *)
LEMMA IndexInRange ==
  ASSUME NEW a \in Addrs
  PROVE  /\ NewIndex(a) \in 0..(NewBucketCount - 1)
         /\ TriedIndex(a) \in 0..(TriedBucketCount - 1)
BY PeerManagerAssumption DEF NewIndex, TriedIndex

(* An object keeps its end point as long as a ptr<> to it exists.          *)
LEMMA ReclaimedType ==
  ASSUME NEW ends \in [Peers -> Addrs \cup {None}]
  PROVE  Reclaimed(ends) \in [Peers -> Addrs \cup {None}]
BY DEF Reclaimed

LEMMA InitHolds == Init => IInv
<1> SUFFICES ASSUME Init PROVE IInv
    OBVIOUS
<1> USE PeerManagerAssumption DEF Init
<1>1. TypeOK BY DEF TypeOK
<1>2. \A p \in Peers : ~Owned(p) BY DEF Owned, InNew, InTried
<1>3. OwnedInUse /\ KnownIsListed BY <1>2 DEF OwnedInUse, KnownIsListed
<1>4. PlacedOnce BY DEF PlacedOnce, InNew, InTried
<1>5. FlagStands /\ UnsavedIsDirty BY DEF FlagStands, UnsavedIsDirty
<1>6. IndexesAgree BY DEF IndexesAgree, InNew, InTried
<1>7. QED BY <1>1, <1>3, <1>4, <1>5, <1>6 DEF IInv

-----------------------------------------------------------------------------
(* Steps that leave the tables alone.                                      *)

(* What says nothing of the flag or the file holds as long as the tables do. *)
LEMMA TablesStay ==
  ASSUME IInv, UNCHANGED <<tables, linked, revived>>
  PROVE  OwnedInUse' /\ PlacedOnce' /\ KnownIsListed' /\ IndexesAgree'
<1> USE DEF tables
<1>1. \A p \in Peers : Owned(p)' = Owned(p) BY DEF Owned, InNew, InTried
<1>2. OwnedInUse' BY <1>1 DEF IInv, OwnedInUse
<1>3. PlacedOnce' BY DEF IInv, PlacedOnce, InNew, InTried, NewIndex, TriedIndex
<1>4. KnownIsListed' BY DEF IInv, KnownIsListed
<1>5. IndexesAgree' BY DEF IInv, IndexesAgree, InNew, InTried
<1>6. QED BY <1>2, <1>3, <1>4, <1>5

LEMMA AddBeginPreserves ==
  ASSUME IInv, NEW t \in Adders, NEW a \in Addrs, AddBegin(t, a)
  PROVE  IInv'
<1> USE DEF AddBegin, tables
<1>1. TypeOK' BY DEF IInv, TypeOK
<1>2. FlagStands' /\ UnsavedIsDirty' BY DEF FlagStands, UnsavedIsDirty
<1>3. QED BY <1>1, <1>2, TablesStay DEF IInv

LEMMA BanPeerPreserves ==
  ASSUME IInv, NEW p \in Peers, BanPeer(p)
  PROVE  IInv'
<1> USE DEF BanPeer, tables, saves
<1>1. endPoint[p] \in Addrs BY DEF IInv, OwnedInUse, Owned
<1>2. TypeOK' BY <1>1 DEF IInv, TypeOK
<1>3. FlagStands' /\ UnsavedIsDirty' BY DEF IInv, FlagStands, UnsavedIsDirty
<1>4. QED BY <1>2, <1>3, TablesStay DEF IInv

LEMMA TestDirtyPreserves ==
  ASSUME IInv, TestDirty
  PROVE  IInv'
<1> USE DEF TestDirty, tables
<1>1. TypeOK' BY DEF IInv, TypeOK
<1>2. FlagStands' /\ UnsavedIsDirty' BY DEF IInv, FlagStands, UnsavedIsDirty
<1>3. QED BY <1>1, <1>2, TablesStay DEF IInv

(* Whatever is known when the save is made is in VecRandom, and so in the  *)
(* file; whoever has set the flag and is not yet in the table is overtaken. *)
LEMMA SavePeersPreserves ==
  ASSUME IInv, SavePeers
  PROVE  IInv'
<1> USE DEF SavePeers, tables
<1>1. Consumed \subseteq Addrs BY DEF IInv, TypeOK, Consumed
<1>2. \A p \in vecRandom : endPoint[p] \in Addrs \cup {None} BY DEF IInv, TypeOK
<1>3. TypeOK' BY <1>1, <1>2 DEF IInv, TypeOK
<1>4. \A a \in Addrs : ipToPeer[a] # None => a \in saved'
  <2> SUFFICES ASSUME NEW a \in Addrs, ipToPeer[a] # None PROVE a \in saved'
      OBVIOUS
  <2>1. ipToPeer[a] \in vecRandom /\ endPoint[ipToPeer[a]] = a
        BY DEF IInv, TypeOK, KnownIsListed, OwnedInUse
  <2>2. QED BY <2>1, PeerManagerAssumption
<1>5. UnsavedIsDirty' BY <1>4 DEF UnsavedIsDirty
<1>6. FlagStands' BY DEF IInv, FlagStands, Consumed
<1>7. QED BY <1>3, <1>5, <1>6, TablesStay DEF IInv

-----------------------------------------------------------------------------
(* Steps that open and close links.                                        *)

LEMMA OpenLinksPreserves ==
  ASSUME IInv, NEW S \in SUBSET Peers, OpenLinks(S)
  PROVE  IInv'
<1> USE DEF OpenLinks, tables
<1>1. \A p \in Peers : Owned(p)' => Owned(p) BY DEF Owned, Selectable, InNew, InTried
<1>2. TypeOK' BY DEF IInv, TypeOK
<1>3. OwnedInUse' BY <1>1 DEF IInv, OwnedInUse
<1>4. PlacedOnce' BY DEF IInv, PlacedOnce, InNew, InTried, NewIndex, TriedIndex
<1>5. KnownIsListed' BY DEF IInv, KnownIsListed
<1>6. FlagStands' /\ UnsavedIsDirty' BY DEF IInv, FlagStands, UnsavedIsDirty
<1>7. IndexesAgree' BY DEF IInv, IndexesAgree, InNew, InTried
<1>8. QED BY <1>2, <1>3, <1>4, <1>5, <1>6, <1>7 DEF IInv

LEMMA CloseLinkPreserves ==
  ASSUME IInv, NEW p \in Peers, CloseLink(p)
  PROVE  IInv'
<1> USE DEF CloseLink
<1>1. \A q \in Peers : Owned(q)' => Owned(q) BY DEF Owned, InNew, InTried
<1>2. endPoint' \in [Peers -> Addrs \cup {None}] BY ReclaimedType DEF IInv, TypeOK
<1>3. \A q \in Peers : Owned(q)' => endPoint'[q] = endPoint[q] BY DEF Reclaimed
<1>4. TypeOK' BY <1>2 DEF IInv, TypeOK, saves
<1>5. OwnedInUse'
  <2>1. \A q \in Peers : Owned(q)' => endPoint'[q] \in Addrs
        BY <1>1, <1>3 DEF IInv, OwnedInUse
  <2>2. \A a \in Addrs : ipToPeer'[a] \in Peers => endPoint'[ipToPeer'[a]] = a
        BY <1>3 DEF IInv, OwnedInUse, Owned
  <2>3. QED BY <2>1, <2>2 DEF OwnedInUse
<1>6. PlacedOnce' BY <1>3 DEF IInv, PlacedOnce, InNew, InTried, NewIndex, TriedIndex, Owned
<1>7. KnownIsListed' BY DEF IInv, KnownIsListed
<1>8. FlagStands' /\ UnsavedIsDirty' BY DEF IInv, FlagStands, UnsavedIsDirty, saves
<1>9. IndexesAgree' BY DEF IInv, IndexesAgree, InNew, InTried
<1>10. QED BY <1>4, <1>5, <1>6, <1>7, <1>8, <1>9 DEF IInv

-----------------------------------------------------------------------------
(* Add() under the lock.                                                   *)

LEMMA AddInsertPreserves ==
  ASSUME IInv, NEW t \in Adders, NEW p \in Peers, NEW v \in Peers \cup {None},
         AddInsert(t, p, v)
  PROVE  IInv'
<1> DEFINE a      == adding[t]
           i      == NewIndex(a)
           known  == ipToPeer[a] # None
           tried  == known /\ InTried(p)
           shrink == ~tried /\ MustShrink(p, i)
<1> USE PeerManagerAssumption
<1>1. /\ a \in Addrs /\ adding' = [adding EXCEPT ![t] = None]
      /\ UNCHANGED <<linked, triedPeers, banned, dirty, periodic, saved, overtaken, revived>>
      BY DEF AddInsert, IInv, TypeOK, saves
\* The peer is the one entered under the address, or an object not in use.
<1>2. IF known THEN p = ipToPeer[a] /\ p \in vecRandom /\ endPoint[p] = a ELSE ~Owned(p)
      BY <1>1 DEF AddInsert, IInv, OwnedInUse, KnownIsListed
\* The peer dropped is another one of the same bucket.
<1>3. IF shrink THEN v \in Peers /\ v # p /\ v \in newPeers[i] /\ InNew(v) ELSE v = None
      BY <1>1, IndexInRange DEF AddInsert, MustShrink, InNew, IInv, TypeOK
<1>4. newPeers' = IF tried THEN newPeers ELSE [newPeers EXCEPT ![i] = (@ \ {v}) \cup {p}]
      BY DEF AddInsert
<1>5. ipToPeer' = [b \in Addrs |-> IF shrink /\ b = endPoint[v] THEN None
                                   ELSE IF b = a THEN p ELSE ipToPeer[b]]
      BY DEF AddInsert
<1>6. vecRandom' = (vecRandom \cup (IF known THEN {} ELSE {p})) \ {v}
      BY DEF AddInsert, Forget
<1>7. \A q \in Peers : Owned(q)' => endPoint'[q] = IF q = p THEN a ELSE endPoint[q]
      BY DEF AddInsert, Reclaimed, IInv, TypeOK
<1>8. endPoint' \in [Peers -> Addrs \cup {None}]
      BY <1>1, ReclaimedType DEF AddInsert, IInv, TypeOK
<1> HIDE DEF a, i, known, tried, shrink
<1>9. \A q \in Peers : q # p /\ Owned(q)' => Owned(q)
      BY <1>1, <1>4, <1>5 DEF Owned, InNew, InTried, IInv, TypeOK
<1>10. TypeOK' BY <1>1, <1>4, <1>5, <1>6, <1>8 DEF IInv, TypeOK
<1>11. OwnedInUse'
  <2>1. \A q \in Peers : Owned(q)' => endPoint'[q] \in Addrs
        BY <1>1, <1>7, <1>9 DEF IInv, OwnedInUse
  <2>2. ASSUME NEW b \in Addrs, NEW q \in Peers, ipToPeer'[b] = q
        PROVE  endPoint'[q] = b
    <3>1. endPoint'[q] = IF q = p THEN a ELSE endPoint[q] BY <2>2, <1>7 DEF Owned
    <3>2. CASE b = a
      <4>1. q = p BY <2>2, <3>2, <1>5
      <4>2. QED BY <4>1, <3>1, <3>2
    <3>3. CASE b # a
      <4>1. ipToPeer[b] = q BY <2>2, <3>3, <1>5, <1>3
      <4>2. endPoint[q] = b BY <4>1 DEF IInv, OwnedInUse
      <4>3. Owned(q) BY <4>1 DEF Owned
      <4>4. q # p BY <4>2, <4>3, <3>3, <1>2
      <4>5. QED BY <4>2, <4>4, <3>1
    <3>4. QED BY <3>2, <3>3
  <2>3. QED BY <2>1, <2>2 DEF OwnedInUse
<1>12. PlacedOnce'
  <2> SUFFICES ASSUME NEW q \in Peers
               PROVE  /\ \A j \in DOMAIN newPeers' : q \in newPeers'[j] => j = NewIndex(endPoint'[q])
                      /\ \A j \in DOMAIN triedPeers' : q \in triedPeers'[j] => j = TriedIndex(endPoint'[q])
                      /\ ~(InNew(q)' /\ InTried(q)')
      BY DEF PlacedOnce, NewIndex, TriedIndex
  <2>1. /\ \A j \in DOMAIN newPeers : q \in newPeers[j] => j = NewIndex(endPoint[q])
        /\ \A j \in DOMAIN triedPeers : q \in triedPeers[j] => j = TriedIndex(endPoint[q])
        /\ ~(InNew(q) /\ InTried(q))
        BY DEF IInv, PlacedOnce
  <2>2. DOMAIN newPeers' = DOMAIN newPeers /\ InTried(q)' = InTried(q)
        BY <1>1, <1>4 DEF InTried
  <2>3. InNew(q)' \/ InTried(q)' => Owned(q)' BY DEF Owned
  <2>4. CASE q # p
    <3>1. \A j \in DOMAIN newPeers : q \in newPeers'[j] => q \in newPeers[j]
          BY <2>4, <1>4 DEF IInv, TypeOK
    <3>2. InNew(q)' \/ InTried(q)' => endPoint'[q] = endPoint[q]
          BY <2>3, <2>4, <1>7
    <3>3. InNew(q)' => InNew(q) BY <2>2, <3>1 DEF InNew
    <3>4. QED BY <1>1, <2>1, <2>2, <3>1, <3>2, <3>3 DEF InNew, InTried
  <2>5. CASE q = p
    <3>1. InTried(p) => endPoint[p] = a /\ tried
          BY <1>2 DEF Owned, tried
    <3>2. InNew(p) => endPoint[p] = a BY <1>2 DEF Owned
    <3>3. InNew(p)' \/ InTried(p)' => endPoint'[p] = a BY <2>3, <2>5, <1>7
    <3>4. \A j \in DOMAIN newPeers : p \in newPeers'[j] => j = i
          BY <2>1, <2>5, <3>2, <1>4 DEF InNew, i
    <3>5. ~(InNew(p)' /\ InTried(p)')
      <4>1. InTried(p) => InNew(p)' = InNew(p) BY <3>1, <1>4 DEF InNew
      <4>2. QED BY <4>1, <2>1, <2>2, <2>5
    <3>6. QED BY <1>1, <2>1, <2>2, <2>5, <3>1, <3>3, <3>4, <3>5 DEF InNew, InTried, i
  <2>6. QED BY <2>4, <2>5
<1>13. KnownIsListed'
  <2> SUFFICES ASSUME NEW b \in Addrs, ipToPeer'[b] \in Peers
               PROVE  ipToPeer'[b] \in vecRandom'
      BY DEF KnownIsListed
  <2>1. CASE b = a BY <2>1, <1>2, <1>3, <1>5, <1>6
  <2>2. CASE b # a
    <3>1. ipToPeer'[b] = ipToPeer[b] BY <2>2, <1>5
    <3>2. ipToPeer[b] # v BY <3>1, <1>3, <1>5 DEF IInv, OwnedInUse
    <3>3. QED BY <3>1, <3>2, <1>6 DEF IInv, KnownIsListed
  <2>3. QED BY <2>1, <2>2
<1>14. FlagStands' BY <1>1 DEF IInv, FlagStands, TypeOK
\* The address was entered only now: it is covered as long as Add() was.
<1>15. UnsavedIsDirty'
  <2> SUFFICES ASSUME NEW b \in Addrs, ipToPeer'[b] # None, b \notin saved
               PROVE  dirty \/ periodic = "saving" \/ b \in overtaken
      BY <1>1 DEF UnsavedIsDirty
  <2>1. CASE b = a BY <2>1, <1>1 DEF IInv, FlagStands, a
  <2>2. CASE b # a BY <2>2, <1>5 DEF IInv, UnsavedIsDirty
  <2>3. QED BY <2>1, <2>2
<1>16. IndexesAgree'
  <2> SUFFICES ASSUME ~revived
               PROVE  /\ vecRandom' = {q \in Peers : \E b \in Addrs : ipToPeer'[b] = q}
                      /\ \A q \in Peers : InNew(q)' \/ InTried(q)' => q \in vecRandom'
      BY <1>1 DEF IndexesAgree
  <2>1. /\ vecRandom = {q \in Peers : \E b \in Addrs : ipToPeer[b] = q}
        /\ \A q \in Peers : InNew(q) \/ InTried(q) => q \in vecRandom
        BY DEF IInv, IndexesAgree
  <2>2. ASSUME NEW q \in vecRandom'
        PROVE  \E b \in Addrs : ipToPeer'[b] = q
    <3>1. CASE q = p
      <4>1. shrink => endPoint[v] # a BY <1>2, <1>3, <2>1 DEF IInv, OwnedInUse, known, Owned
      <4>2. ipToPeer'[a] = p BY <4>1, <1>1, <1>5
      <4>3. QED BY <4>2, <3>1, <1>1
    <3>2. CASE q # p
      <4>1. q \in vecRandom /\ q # v BY <3>2, <2>2, <1>6
      <4>2. PICK b \in Addrs : ipToPeer[b] = q BY <4>1, <2>1
      <4>3. q \in Peers /\ endPoint[q] = b BY <4>1, <4>2, <2>1 DEF IInv, OwnedInUse
      <4>4. b # a BY <4>2, <4>3, <3>2, <1>2 DEF known
      <4>5. shrink => endPoint[v] # b
        <5> SUFFICES ASSUME shrink, endPoint[v] = b PROVE FALSE
            OBVIOUS
        <5>1. v \in vecRandom BY <1>3, <2>1
        <5>2. PICK c \in Addrs : ipToPeer[c] = v BY <5>1, <2>1
        <5>3. c = b BY <5>2, <1>3 DEF IInv, OwnedInUse
        <5>4. QED BY <5>2, <5>3, <4>1, <4>2
      <4>6. ipToPeer'[b] = q BY <4>2, <4>4, <4>5, <1>5
      <4>7. QED BY <4>6
    <3>3. QED BY <3>1, <3>2
  <2>3. \A q \in vecRandom' : q \in Peers BY <1>10 DEF TypeOK
  <2>4. ASSUME NEW q \in Peers, NEW b \in Addrs, ipToPeer'[b] = q
        PROVE  q \in vecRandom'
        BY <2>4, <1>13 DEF KnownIsListed
  <2>5. ASSUME NEW q \in Peers, InNew(q)' \/ InTried(q)'
        PROVE  q \in vecRandom'
    <3>1. CASE q = p BY <3>1, <1>2, <1>3, <1>6
    <3>2. CASE q # p
      <4>1. InNew(q) \/ InTried(q)
            BY <2>5, <3>2, <1>1, <1>4 DEF InNew, InTried, IInv, TypeOK
      <4>2. q # v
        <5> SUFFICES ASSUME q = v, shrink PROVE FALSE
            BY <1>3
        <5>1. ~InTried(v) /\ \A j \in DOMAIN newPeers : v \in newPeers[j] => j = NewIndex(endPoint[v])
              BY <1>3 DEF IInv, PlacedOnce
        <5>2. i \in DOMAIN newPeers BY <1>1, IndexInRange DEF i, IInv, TypeOK
        <5>3. \A j \in DOMAIN newPeers : v \notin newPeers'[j]
              BY <5>1, <5>2, <1>3, <1>4 DEF shrink, IInv, TypeOK
        <5>4. QED BY <2>5, <5>1, <5>3, <1>1, <1>4 DEF InNew, InTried
      <4>3. QED BY <4>1, <4>2, <2>1, <1>6
    <3>3. QED BY <3>1, <3>2
  <2>6. QED BY <2>2, <2>3, <2>4, <2>5
<1>17. QED BY <1>10, <1>11, <1>12, <1>13, <1>14, <1>15, <1>16 DEF IInv

-----------------------------------------------------------------------------
(* Good().                                                                 *)

LEMMA GoodPreserves ==
  ASSUME IInv, NEW p \in Peers, NEW o \in Peers \cup {None}, Good(p, o)
  PROVE  IInv'
<1> DEFINE i    == TriedIndex(endPoint[p])
           room == TriedHasRoom(i)
           n    == NewIndex(endPoint[o])
<1> USE PeerManagerAssumption
<1>1. /\ p \in linked /\ ~InTried(p)
      /\ triedPeers' = [triedPeers EXCEPT ![i] = IF room THEN @ \cup {p} ELSE @ \ {o}]
      /\ newPeers' = IF room THEN RemovedFromNew(p)
                     ELSE [RemovedFromNew(p) EXCEPT ![n] = @ \cup {o}]
      /\ revived' = (revived \/ ipToPeer[endPoint[p]] # p)
      /\ UNCHANGED <<endPoint, ipToPeer, vecRandom, linked, banned, adding>>
      /\ UNCHANGED <<dirty, periodic, saved, overtaken>>
      BY DEF Good, saves
<1>2. endPoint[p] \in Addrs /\ i \in DOMAIN triedPeers
      BY <1>1, IndexInRange DEF IInv, OwnedInUse, Owned, TypeOK
<1>3. IF room THEN o = None ELSE o \in Peers /\ o \in triedPeers[i] /\ o # p /\ InTried(o)
      BY <1>1, <1>2 DEF Good, IInv, TypeOK, InTried
<1>4. ~room => endPoint[o] \in Addrs /\ n \in DOMAIN newPeers
      BY <1>3, IndexInRange DEF IInv, OwnedInUse, Owned, TypeOK
\* Where a peer may be now.
<1>5. \A q \in Peers : \A j \in DOMAIN newPeers :
          q \in newPeers'[j] <=> (q # p /\ q \in newPeers[j]) \/ (~room /\ q = o /\ j = n)
      BY <1>1, <1>3, <1>4 DEF RemovedFromNew, IInv, TypeOK
<1>6. \A q \in Peers : \A j \in DOMAIN triedPeers :
          q \in triedPeers'[j] <=> IF j = i THEN IF room THEN q \in triedPeers[i] \/ q = p
                                                         ELSE q \in triedPeers[i] /\ q # o
                                   ELSE q \in triedPeers[j]
      BY <1>1, <1>2 DEF IInv, TypeOK
<1>7. DOMAIN newPeers' = DOMAIN newPeers /\ DOMAIN triedPeers' = DOMAIN triedPeers
      BY <1>1 DEF RemovedFromNew
<1>8. TypeOK' BY <1>1, <1>3, <1>4 DEF IInv, TypeOK, RemovedFromNew
<1> HIDE DEF i, room, n
<1>9. \A q \in Peers : InNew(q)' \/ InTried(q)' => InNew(q) \/ InTried(q) \/ q = p
      BY <1>3, <1>5, <1>6, <1>7 DEF InNew, InTried
<1>10. OwnedInUse'
  <2>1. \A q \in Peers : Owned(q)' => Owned(q)
        BY <1>1, <1>9 DEF Owned
  <2>2. QED BY <2>1, <1>1 DEF IInv, OwnedInUse
<1>11. PlacedOnce'
  <2> SUFFICES ASSUME NEW q \in Peers
               PROVE  /\ \A j \in DOMAIN newPeers : q \in newPeers'[j] => j = NewIndex(endPoint[q])
                      /\ \A j \in DOMAIN triedPeers : q \in triedPeers'[j] => j = TriedIndex(endPoint[q])
                      /\ ~(InNew(q)' /\ InTried(q)')
      BY <1>1, <1>7 DEF PlacedOnce, NewIndex, TriedIndex
  <2>1. /\ \A j \in DOMAIN newPeers : q \in newPeers[j] => j = NewIndex(endPoint[q])
        /\ \A j \in DOMAIN triedPeers : q \in triedPeers[j] => j = TriedIndex(endPoint[q])
        /\ ~(InNew(q) /\ InTried(q))
        BY DEF IInv, PlacedOnce
  <2>2. \A j \in DOMAIN newPeers : q \in newPeers'[j] => j = NewIndex(endPoint[q])
        BY <2>1, <1>5 DEF n
  <2>3. \A j \in DOMAIN triedPeers : q \in triedPeers'[j] => j = TriedIndex(endPoint[q])
        BY <2>1, <1>6 DEF i
\* The peer moved to Tried has left New, and the one moved back was in no other bucket of Tried.
  <2>4. CASE InNew(q)'
    <3>1. (q # p /\ InNew(q)) \/ (~room /\ q = o)
          BY <2>4, <1>5, <1>7 DEF InNew
    <3>2. CASE q # p /\ InNew(q)
      <4>1. ~InTried(q) BY <3>2, <2>1
      <4>2. \A j \in DOMAIN triedPeers : q \notin triedPeers'[j]
            BY <4>1, <3>2, <1>2, <1>6 DEF InTried
      <4>3. ~InTried(q)' BY <4>2, <1>7 DEF InTried
      <4>4. QED BY <4>3, <2>2, <2>3
    <3>3. CASE ~room /\ q = o
      <4>1. \A j \in DOMAIN triedPeers : q \in triedPeers[j] => j = i
            BY <2>1, <1>2, <1>3, <3>3
      <4>2. \A j \in DOMAIN triedPeers : q \notin triedPeers'[j]
            BY <4>1, <3>3, <1>6
      <4>3. ~InTried(q)' BY <4>2, <1>7 DEF InTried
      <4>4. QED BY <4>3, <2>2, <2>3
    <3>4. QED BY <3>1, <3>2, <3>3
  <2>5. QED BY <2>2, <2>3, <2>4
<1>12. KnownIsListed' BY <1>1 DEF IInv, KnownIsListed
<1>13. FlagStands' /\ UnsavedIsDirty' BY <1>1 DEF IInv, FlagStands, UnsavedIsDirty
<1>14. IndexesAgree'
  <2> SUFFICES ASSUME ~revived'
               PROVE  /\ vecRandom' = {q \in Peers : \E b \in Addrs : ipToPeer'[b] = q}
                      /\ \A q \in Peers : InNew(q)' \/ InTried(q)' => q \in vecRandom'
      BY DEF IndexesAgree
  <2>1. ~revived /\ ipToPeer[endPoint[p]] = p BY <1>1
  <2>2. p \in vecRandom BY <2>1, <1>2 DEF IInv, KnownIsListed
  <2>3. QED BY <2>1, <2>2, <1>1, <1>9 DEF IInv, IndexesAgree
<1>15. QED BY <1>8, <1>10, <1>11, <1>12, <1>13, <1>14 DEF IInv

-----------------------------------------------------------------------------
LEMMA StepPreserves == IInv /\ [Next]_vars => IInv'
<1> SUFFICES ASSUME IInv, [Next]_vars PROVE IInv'
    OBVIOUS
<1>1. ASSUME NEW t \in Adders, NEW a \in Addrs, AddBegin(t, a) PROVE IInv'
      BY <1>1, AddBeginPreserves
<1>2. ASSUME NEW t \in Adders, NEW p \in Peers, NEW v \in Peers \cup {None}, AddInsert(t, p, v)
      PROVE  IInv'
      BY <1>2, AddInsertPreserves
<1>3. ASSUME NEW p \in Peers, NEW o \in Peers \cup {None}, Good(p, o) PROVE IInv'
      BY <1>3, GoodPreserves
<1>4. ASSUME NEW p \in Peers, BanPeer(p) \/ CloseLink(p) PROVE IInv'
      BY <1>4, BanPeerPreserves, CloseLinkPreserves
<1>5. ASSUME NEW S \in SUBSET Peers, OpenLinks(S) PROVE IInv'
      BY <1>5, OpenLinksPreserves
<1>6. CASE TestDirty BY <1>6, TestDirtyPreserves
<1>7. CASE SavePeers BY <1>7, SavePeersPreserves
<1>8. CASE UNCHANGED vars
  <2>1. OwnedInUse' /\ PlacedOnce' /\ KnownIsListed' /\ IndexesAgree'
        BY <1>8, TablesStay DEF vars
  <2>2. TypeOK' /\ FlagStands' /\ UnsavedIsDirty'
        BY <1>8 DEF vars, tables, saves, IInv, TypeOK, FlagStands, UnsavedIsDirty
  <2>3. QED BY <2>1, <2>2 DEF IInv
<1>9. QED BY <1>1, <1>2, <1>3, <1>4, <1>5, <1>6, <1>7, <1>8 DEF Next

(* The inductive invariant holds for any addresses, peers, threads, hash   *)
(* and sizes of the buckets.                                               *)
THEOREM InductiveInvariant == Spec => []IInv
BY InitHolds, StepPreserves, PTL DEF Spec

(* Type correctness of the peer table; in particular whatever is banned or *)
(* saved is an address, never the end point of an object not in use.       *)
THEOREM TypeCorrect == Spec => []TypeOK
<1>1. IInv => TypeOK BY DEF IInv
<1>2. QED BY <1>1, InductiveInvariant, PTL

(* Add(), Shrink() and Good() never leave a peer in two buckets, or in one *)
(* that its hash does not name.                                            *)
THEOREM PlacementTheorem == Spec => []PlacedOnce
<1>1. IInv => PlacedOnce BY DEF IInv
<1>2. QED BY <1>1, InductiveInvariant, PTL

(* An address that is known will be in the file: the flag is set or the    *)
(* save is on its way, unless a save overtook the Add() that entered it.   *)
THEOREM SavingTheorem == Spec => []UnsavedIsDirty
<1>1. IInv => UnsavedIsDirty BY DEF IInv
<1>2. QED BY <1>1, InductiveInvariant, PTL

(* VecRandom has no dangling pointer, and misses no peer, until Good() is  *)
(* told of a peer that Shrink() had dropped.                               *)
THEOREM IndexTheorem == Spec => []IndexesAgree
<1>1. IInv => IndexesAgree BY DEF IInv
<1>2. QED BY <1>1, InductiveInvariant, PTL

-----------------------------------------------------------------------------
(* The sizes of the buckets.                                               *)

(* Bounded finite sets of peers.                                           *)
Fits(bucket, size) == IsFiniteSet(bucket) /\ Cardinality(bucket) <= size

TriedFit == \A i \in DOMAIN triedPeers : Fits(triedPeers[i], TriedBucketSize)
NewFit   == \A i \in DOMAIN newPeers : Fits(newPeers[i], NewBucketSize)

(* Good() meets a full Tried bucket, and evicts the peer o to New.         *)
Evicts == \E p, o \in Peers : Good(p, o)

(* A bucket that loses peers fits, and so does one with room for one more. *)
LEMMA FitsLess ==
  ASSUME NEW B, NEW n \in Nat, Fits(B, n), NEW C \in SUBSET B
  PROVE  Fits(C, n)
BY FS_Subset, FS_CardinalityType DEF Fits

LEMMA FitsOneMore ==
  ASSUME NEW B, NEW n \in Nat, Fits(B, n), Cardinality(B) < n, NEW p
  PROVE  Fits(B \cup {p}, n)
<1>1. IsFiniteSet(B) /\ Cardinality(B) \in Nat BY FS_CardinalityType DEF Fits
<1>2. CASE p \in B
  <2>1. B \cup {p} = B BY <1>2
  <2>2. QED BY <2>1
<1>3. CASE p \notin B
  <2>1. IsFiniteSet(B \cup {p}) /\ Cardinality(B \cup {p}) = Cardinality(B) + 1
    BY <1>1, <1>3, FS_AddElement
  <2>2. QED BY <1>1, <2>1 DEF Fits
<1>4. QED BY <1>2, <1>3

(* Shrink() makes the room that the new peer takes.                        *)
LEMMA FitsExchange ==
  ASSUME NEW B, NEW n \in Nat, Fits(B, n), NEW v \in B, NEW p
  PROVE  Fits((B \ {v}) \cup {p}, n)
<1>1. Cardinality(B \ {v}) = Cardinality(B) - 1 /\ Cardinality(B) \in Nat
  BY FS_RemoveElement, FS_CardinalityType DEF Fits
<1>2. Fits(B \ {v}, n) BY FitsLess
<1>3. Cardinality(B \ {v}) < n BY <1>1 DEF Fits
<1>4. QED BY <1>2, <1>3, FitsOneMore

LEMMA InitFits == Init => TriedFit /\ NewFit
<1> SUFFICES ASSUME Init PROVE TriedFit /\ NewFit OBVIOUS
<1>1. \A n \in Nat : Fits({}, n) BY FS_EmptySet DEF Fits
<1>2. QED BY <1>1, PeerManagerAssumption DEF Init, TriedFit, NewFit

(* Only Good() and Add() change buckets.                                   *)
LEMMA OthersLeaveBuckets ==
  ASSUME [Next]_vars
  PROVE  \/ UNCHANGED <<newPeers, triedPeers>>
         \/ \E p \in Peers, o \in Peers \cup {None} : Good(p, o)
         \/ \E t \in Adders, p \in Peers, v \in Peers \cup {None} : AddInsert(t, p, v)
BY DEF Next, vars, tables, AddBegin, BanPeer, CloseLink, OpenLinks, TestDirty, SavePeers

LEMMA TriedStepFits == IInv /\ TriedFit /\ [Next]_vars => TriedFit'
<1> SUFFICES ASSUME IInv, TriedFit, [Next]_vars PROVE TriedFit' OBVIOUS
<1> USE PeerManagerAssumption
<1>1. ASSUME NEW p \in Peers, NEW o \in Peers \cup {None}, Good(p, o) PROVE TriedFit'
  <2> DEFINE i == TriedIndex(endPoint[p])
  <2>1. endPoint[p] \in Addrs BY <1>1 DEF Good, IInv, OwnedInUse, Owned
  <2>2. i \in DOMAIN triedPeers BY <2>1, IndexInRange DEF IInv, TypeOK
  <2>3. triedPeers' = [triedPeers EXCEPT
            ![i] = IF TriedHasRoom(i) THEN @ \cup {p} ELSE @ \ {o}]
    BY <1>1 DEF Good
  <2>4. Fits(triedPeers[i], TriedBucketSize) BY <2>2 DEF TriedFit
  <2>5. Fits(triedPeers'[i], TriedBucketSize)
    <3>1. CASE TriedHasRoom(i)
      <4>1. Fits(triedPeers[i] \cup {p}, TriedBucketSize)
        BY <2>4, <3>1, FitsOneMore DEF TriedHasRoom
      <4>2. QED BY <2>2, <2>3, <3>1, <4>1
    <3>2. CASE ~TriedHasRoom(i)
      <4>1. Fits(triedPeers[i] \ {o}, TriedBucketSize) BY <2>4, FitsLess
      <4>2. QED BY <2>2, <2>3, <3>2, <4>1
    <3>3. QED BY <3>1, <3>2
  <2> HIDE DEF i
  <2>6. QED BY <2>3, <2>5 DEF TriedFit
<1>2. CASE UNCHANGED triedPeers BY <1>2 DEF TriedFit
<1>3. QED BY <1>1, <1>2, OthersLeaveBuckets DEF AddInsert

LEMMA NewStepFits == IInv /\ NewFit /\ [Next /\ ~Evicts]_vars => NewFit'
<1> SUFFICES ASSUME IInv, NewFit, [Next /\ ~Evicts]_vars PROVE NewFit' OBVIOUS
<1> USE PeerManagerAssumption
<1>1. ASSUME NEW p \in Peers, NEW o \in Peers \cup {None}, Good(p, o), o \notin Peers
      PROVE  NewFit'
  <2>1. TriedHasRoom(TriedIndex(endPoint[p]))
    <3>1. endPoint[p] \in Addrs BY <1>1 DEF Good, IInv, OwnedInUse, Owned
    <3>2. TriedIndex(endPoint[p]) \in DOMAIN triedPeers
      BY <3>1, IndexInRange DEF IInv, TypeOK
    <3>3. QED BY <1>1, <3>2 DEF Good, IInv, TypeOK
  <2>2. newPeers' = RemovedFromNew(p) BY <1>1, <2>1 DEF Good
  <2>3. ASSUME NEW j \in DOMAIN newPeers PROVE Fits(newPeers[j] \ {p}, NewBucketSize)
    BY FitsLess DEF NewFit
  <2>4. QED BY <2>2, <2>3 DEF NewFit, RemovedFromNew
<1>2. ASSUME NEW t \in Adders, NEW p \in Peers, NEW v \in Peers \cup {None}, AddInsert(t, p, v)
      PROVE  NewFit'
  <2> DEFINE i == NewIndex(adding[t])
             shrink == MustShrink(p, i)
  <2>1. i \in DOMAIN newPeers
    BY <1>2, IndexInRange DEF AddInsert, IInv, TypeOK
  <2>2. \/ newPeers' = newPeers
        \/ /\ newPeers' = [newPeers EXCEPT ![i] = (@ \ {v}) \cup {p}]
           /\ IF shrink THEN v \in newPeers[i] ELSE v = None
    BY <1>2 DEF AddInsert
  <2>3. CASE newPeers' = newPeers BY <2>3 DEF NewFit
  <2>4. CASE /\ newPeers' = [newPeers EXCEPT ![i] = (@ \ {v}) \cup {p}]
             /\ IF shrink THEN v \in newPeers[i] ELSE v = None
    <3>1. Fits(newPeers[i], NewBucketSize) BY <2>1 DEF NewFit
    <3>2. Fits((newPeers[i] \ {v}) \cup {p}, NewBucketSize)
      <4>1. CASE shrink BY <2>4, <3>1, <4>1, FitsExchange
      <4>2. CASE ~shrink
        <5>1. newPeers[i] \ {v} = newPeers[i]
          BY <2>1, <2>4, <4>2 DEF IInv, TypeOK
        <5>2. p \in newPeers[i] \/ Cardinality(newPeers[i]) < NewBucketSize
          BY <3>1, <4>2, FS_CardinalityType DEF MustShrink, Fits
        <5>3. CASE p \in newPeers[i]
          <6>1. newPeers[i] \cup {p} = newPeers[i] BY <5>3
          <6>2. QED BY <3>1, <5>1, <6>1
        <5>4. CASE Cardinality(newPeers[i]) < NewBucketSize
          BY <3>1, <5>1, <5>4, FitsOneMore
        <5>5. QED BY <5>2, <5>3, <5>4
      <4>3. QED BY <4>1, <4>2
    <3>3. QED BY <2>1, <2>4, <3>2 DEF NewFit
  <2>5. QED BY <2>2, <2>3, <2>4
<1>3. CASE UNCHANGED newPeers BY <1>3 DEF NewFit
<1>4. CASE Next /\ ~Evicts
  BY <1>1, <1>2, <1>3, <1>4, OthersLeaveBuckets DEF Evicts
<1>5. QED BY <1>3, <1>4 DEF vars, tables

(* A Tried bucket never holds more than ADDRMAN_TRIED_BUCKET_SIZE peers.   *)
THEOREM TriedBucketsTheorem ==
  Spec => [](\A i \in DOMAIN triedPeers : Cardinality(triedPeers[i]) <= TriedBucketSize)
<1>1. TriedFit => \A i \in DOMAIN triedPeers : Cardinality(triedPeers[i]) <= TriedBucketSize
  BY DEF TriedFit, Fits
<1>2. QED BY <1>1, InitFits, TriedStepFits, InductiveInvariant, PTL DEF Spec

(* What a comment says of the New buckets, "maximum allowed number of      *)
(* entries", is true as long as Good() meets no full Tried bucket: Add()   *)
(* and Shrink() keep it, and only the peer that Good() moves back breaks it. *)
THEOREM NewBucketsTheorem == Spec /\ [][~Evicts]_vars => []NewBucketsAreBounded
<1>1. NewFit => NewBucketsAreBounded BY DEF NewFit, Fits, NewBucketsAreBounded
<1>2. [Next]_vars /\ [~Evicts]_vars => [Next /\ ~Evicts]_vars OBVIOUS
<1>3. QED BY <1>1, <1>2, InitFits, NewStepFits, InductiveInvariant, PTL DEF Spec
=============================================================================
