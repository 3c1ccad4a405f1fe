----------------------------- MODULE LibraryProofs -----------------------------
(***************************************************************************)
(* Proofs about the components of Library that run in one process: the     *)
(* socket looper, for any amount of data and any room in the buffers, the  *)
(* Strings, for any set of them and of their buffers, and the emulated     *)
(* event, for any set of threads.  With the servers and the links they     *)
(* make the type theorem of Library.                                       *)
(***************************************************************************)
EXTENDS LibraryServerProofs, LibraryLinkProofs

-----------------------------------------------------------------------------
(* Looper: the two connections of CSocketLooper.                           *)

(* What a peer did, as TypeOK has it.                                      *)
LooperPeerState == [sent : 0..MaxSent, got : 0..MaxSent, finished : BOOLEAN,
                    sawEnd : BOOLEAN, reset : BOOLEAN]

(* The piece that the looper has received from q and not sent.             *)
LooperInHand(q) == IF looperPc = "send" /\ at = q THEN 1 ELSE 0

(* What p can have read of q's pieces at most, and will have read if no    *)
(* connection breaks.                                                      *)
LooperOnTheWay(p) ==
    party[p].got + outbound[p] + LooperInHand(Looper!Other(p)) + inbound[Looper!Other(p)]

(* Pieces are lost only with a connection, and none appears.               *)
LooperConserved ==
    \A p \in Looper!Peers :
        /\ LooperOnTheWay(p) <= party[Looper!Other(p)].sent
        /\ ~party[p].reset /\ ~party[Looper!Other(p)].reset =>
              LooperOnTheWay(p) = party[Looper!Other(p)].sent

(* The reading end of a socket is shut only when there is nobody to send   *)
(* to.                                                                     *)
LooperReadEndShut == \A p \in Looper!Peers : socket[Looper!Other(p)].readEnd => party[p].reset

(* The writing end is shut when all of the other peer's pieces are sent.   *)
LooperWriteEndShut ==
    \A p \in Looper!Peers : LET q == Looper!Other(p) IN
        socket[p].writeEnd /\ ~party[p].reset /\ ~party[q].reset =>
            party[q].finished /\ inbound[q] = 0 /\ LooperInHand(q) = 0

(* The end of the stream is read after the last piece.                     *)
LooperEndSeen ==
    \A p \in Looper!Peers : LET q == Looper!Other(p) IN
        /\ party[p].sawEnd => socket[p].writeEnd
        /\ party[p].sawEnd /\ ~party[q].reset => party[q].finished /\ party[p].got = party[q].sent

LooperInv ==
    /\ Looper!TypeOK
    /\ LooperConserved /\ LooperReadEndShut /\ LooperWriteEndShut /\ LooperEndSeen

(* There are two peers.                                                    *)
LEMMA LooperOthers ==
  \A p \in Looper!Peers :
      Looper!Other(p) \in Looper!Peers /\ Looper!Other(p) # p /\ Looper!Other(Looper!Other(p)) = p
BY DEF Looper!Peers, Looper!Other

LEMMA LooperTwoPeers == \A p, q \in Looper!Peers : q = p \/ q = Looper!Other(p)
BY DEF Looper!Peers, Looper!Other

LEMMA LooperInitHolds == ASSUME Looper!Init PROVE LooperInv
<1> USE LooperAssumption DEF Looper!Init
<1>1. Looper!TypeOK BY DEF Looper!TypeOK, Looper!Peers
<1>2. LooperConserved BY LooperOthers DEF LooperConserved, LooperOnTheWay, LooperInHand
<1>3. LooperReadEndShut /\ LooperWriteEndShut /\ LooperEndSeen
      BY LooperOthers DEF LooperReadEndShut, LooperWriteEndShut, LooperEndSeen
<1>4. QED BY <1>1, <1>2, <1>3 DEF LooperInv


-----------------------------------------------------------------------------
(* The peers.                                                              *)

LEMMA LooperPeerSendsPreserves ==
  ASSUME LooperInv, NEW p \in Looper!Peers, Looper!PeerSends(p)
  PROVE  LooperInv'
<1>a. party \in [Looper!Peers -> LooperPeerState] BY DEF LooperInv, Looper!TypeOK, LooperPeerState
<1>b. party' = [party EXCEPT ![p] = [party[p] EXCEPT !.sent = @ + 1]] BY DEF Looper!PeerSends
<1>c. [party[p] EXCEPT !.sent = @ + 1] \in LooperPeerState
      BY <1>a, LooperAssumption DEF LooperPeerState, Looper!PeerSends
<1>d. \A r \in Looper!Peers : party'[r] =
        IF r = p THEN [party[p] EXCEPT !.sent = @ + 1] ELSE party[r]
      BY <1>a, <1>b
<1>e. \A r \in Looper!Peers : inbound'[r] = IF r = p THEN inbound[p] + 1 ELSE inbound[r]
      BY DEF Looper!PeerSends, LooperInv, Looper!TypeOK
<1>f. /\ UNCHANGED <<outbound, socket, keeper, looperPc, ready, at>>
      /\ inbound' \in [Looper!Peers -> 0..Room] /\ ~party[p].finished
      BY LooperAssumption DEF Looper!PeerSends, Looper!looper, LooperInv, Looper!TypeOK
<1>g. \A r \in Looper!Peers : /\ party'[r].reset = party[r].reset
                              /\ party'[r].finished = party[r].finished
                              /\ party'[r].got = party[r].got /\ party'[r].sawEnd = party[r].sawEnd
                              /\ party'[r].sent = IF r = p THEN party[p].sent + 1 ELSE party[r].sent
      BY <1>a, <1>d DEF LooperPeerState
<1> USE LooperAssumption, LooperOthers, LooperTwoPeers DEF LooperInv, Looper!TypeOK
<1>1. Looper!TypeOK'
  <2>1. party' \in [Looper!Peers -> LooperPeerState] BY <1>a, <1>b, <1>c
  <2>2. QED BY <2>1, <1>f DEF LooperPeerState
<1>2. LooperConserved'
  <2> SUFFICES ASSUME NEW r \in Looper!Peers
               PROVE  /\ LooperOnTheWay(r)' <= party'[Looper!Other(r)].sent
                      /\ ~party'[r].reset /\ ~party'[Looper!Other(r)].reset =>
                            LooperOnTheWay(r)' = party'[Looper!Other(r)].sent
      BY DEF LooperConserved, LooperOnTheWay, LooperInHand, Looper!Other
  <2>1. LooperInHand(Looper!Other(r))' = LooperInHand(Looper!Other(r))
        /\ LooperInHand(Looper!Other(r)) \in 0..1
        BY <1>f DEF LooperInHand
  <2>2. /\ LooperOnTheWay(r) <= party[Looper!Other(r)].sent
        /\ ~party[r].reset /\ ~party[Looper!Other(r)].reset =>
              LooperOnTheWay(r) = party[Looper!Other(r)].sent
        BY DEF LooperConserved
  <2>3. CASE r = p
    <3>1. LooperOnTheWay(r)' = LooperOnTheWay(r) BY <1>e, <1>f, <1>g, <2>1, <2>3 DEF LooperOnTheWay
    <3>2. QED BY <3>1, <1>g, <2>2, <2>3
  <2>4. CASE r = Looper!Other(p)
    <3>1. Looper!Other(r) = p /\ r # p BY <2>4
    <3>2. /\ party[r].got \in Nat /\ outbound[r] \in Nat /\ inbound[p] \in Nat
          /\ party[p].sent \in Nat
          /\ LooperOnTheWay(r) \in Nat
          BY <2>1, <3>1 DEF LooperOnTheWay
    <3>3. LooperOnTheWay(r)' = LooperOnTheWay(r) + 1
      <4>1. LooperInHand(p)' = LooperInHand(p) /\ LooperInHand(p) \in 0..1 BY <1>f DEF LooperInHand
      <4>2. party'[r].got = party[r].got /\ outbound'[r] = outbound[r]
            /\ inbound'[p] = inbound[p] + 1
            BY <1>e, <1>f, <1>g
      <4>3. Looper!Other(r) = p BY <3>1
      <4>4. LooperOnTheWay(r) = party[r].got + outbound[r] + LooperInHand(p) + inbound[p]
            BY <4>3 DEF LooperOnTheWay
      <4>5. LooperOnTheWay(r)' = party'[r].got + outbound'[r] + LooperInHand(p)' + inbound'[p]
            BY <4>3, <1>f DEF LooperOnTheWay, LooperInHand
      <4>6. QED BY ONLY <4>1, <4>2, <4>4, <4>5, <3>2
    <3>4. QED BY <3>1, <3>2, <3>3, <1>g, <2>2
  <2>5. QED BY <2>3, <2>4
<1>3. LooperReadEndShut' BY <1>f, <1>g DEF LooperReadEndShut
<1>4. LooperWriteEndShut'
  <2> SUFFICES ASSUME NEW r \in Looper!Peers, socket'[r].writeEnd, ~party'[r].reset,
      ~party'[Looper!Other(r)].reset
               PROVE  /\ party'[Looper!Other(r)].finished /\ inbound'[Looper!Other(r)] = 0
                      /\ LooperInHand(Looper!Other(r))' = 0
      BY DEF LooperWriteEndShut
  <2>1. LooperInHand(Looper!Other(r))' = LooperInHand(Looper!Other(r)) BY <1>f DEF LooperInHand
  <2>2. party[Looper!Other(r)].finished /\ inbound[Looper!Other(r)] = 0
        /\ LooperInHand(Looper!Other(r)) = 0
        BY <1>f, <1>g DEF LooperWriteEndShut
  <2>3. Looper!Other(r) # p BY <2>2, <1>f
  <2>4. QED BY <2>1, <2>2, <2>3, <1>e, <1>g
<1>5. LooperEndSeen'
      BY <1>f, <1>g
         DEF LooperEndSeen, LooperWriteEndShut, LooperConserved, LooperOnTheWay, LooperInHand
<1>6. QED BY <1>1, <1>2, <1>3, <1>4, <1>5

LEMMA LooperPeerFinishesPreserves ==
  ASSUME LooperInv, NEW p \in Looper!Peers, Looper!PeerFinishes(p)
  PROVE  LooperInv'
<1>a. party \in [Looper!Peers -> LooperPeerState] BY DEF LooperInv, Looper!TypeOK, LooperPeerState
<1>b. party' = [party EXCEPT ![p] = [party[p] EXCEPT !.finished = TRUE]] BY DEF Looper!PeerFinishes
<1>c. [party[p] EXCEPT !.finished = TRUE] \in LooperPeerState BY <1>a DEF LooperPeerState
<1>d. \A r \in Looper!Peers : party'[r] =
        IF r = p THEN [party[p] EXCEPT !.finished = TRUE] ELSE party[r]
      BY <1>a, <1>b
<1> USE LooperAssumption, LooperOthers, LooperTwoPeers
    DEF LooperInv, Looper!TypeOK, Looper!PeerFinishes, Looper!looper
<1>1. Looper!TypeOK'
  <2>1. party' \in [Looper!Peers -> LooperPeerState] BY <1>a, <1>b, <1>c
  <2>2. QED BY <2>1 DEF LooperPeerState
<1>2. LooperConserved' BY DEF LooperConserved, LooperOnTheWay, LooperInHand
<1>3. LooperReadEndShut' BY DEF LooperReadEndShut
<1>4. LooperWriteEndShut' BY DEF LooperWriteEndShut, LooperInHand, LooperReadEndShut
<1>5. LooperEndSeen'
      BY DEF LooperEndSeen, LooperWriteEndShut, LooperConserved, LooperOnTheWay, LooperInHand
<1>6. QED BY <1>1, <1>2, <1>3, <1>4, <1>5

LEMMA LooperPeerReadsPreserves ==
  ASSUME LooperInv, NEW p \in Looper!Peers, Looper!PeerReads(p)
  PROVE  LooperInv'
<1> DEFINE some == outbound[p] > 0
<1>a. party \in [Looper!Peers -> LooperPeerState] BY DEF LooperInv, Looper!TypeOK, LooperPeerState
<1>b. /\ some => party' = [party EXCEPT ![p] = [party[p] EXCEPT !.got = @ + 1]]
      /\ ~some => party' = [party EXCEPT ![p] = [party[p] EXCEPT !.sawEnd = TRUE]]
            /\ socket[p].writeEnd
      /\ ~party[p].reset
      BY DEF Looper!PeerReads
<1>c. some => [party[p] EXCEPT !.got = @ + 1] \in LooperPeerState
  <2> SUFFICES ASSUME some PROVE party[p].got + 1 \in 0..MaxSent
      BY <1>a DEF LooperPeerState
  <2>1. LooperOnTheWay(p) <= party[Looper!Other(p)].sent BY DEF LooperInv, LooperConserved
  <2>2. /\ party[p].got \in Nat /\ outbound[p] \in Nat /\ inbound[Looper!Other(p)] \in Nat
        /\ party[Looper!Other(p)].sent \in 0..MaxSent
        BY LooperOthers, LooperAssumption DEF LooperInv, Looper!TypeOK
  <2>3. QED BY <2>1, <2>2, LooperAssumption DEF LooperOnTheWay, LooperInHand
<1>d. [party[p] EXCEPT !.sawEnd = TRUE] \in LooperPeerState BY <1>a DEF LooperPeerState
<1>e. \A r \in Looper!Peers :
         party'[r] = IF r # p THEN party[r]
                     ELSE IF some THEN [party[p] EXCEPT !.got = @ + 1]
                          ELSE [party[p] EXCEPT !.sawEnd = TRUE]
      BY <1>a, <1>b
<1>f. /\ UNCHANGED <<inbound, socket, keeper, looperPc, ready, at>>
      /\ \A r \in Looper!Peers : outbound'[r] =
              IF r = p /\ some THEN outbound[p] - 1 ELSE outbound[r]
      /\ outbound' \in [Looper!Peers -> 0..Room] /\ outbound[p] \in Nat
      BY LooperAssumption DEF Looper!PeerReads, Looper!looper, LooperInv, Looper!TypeOK
<1>g. \A r \in Looper!Peers : /\ party'[r].reset = party[r].reset
                              /\ party'[r].finished = party[r].finished
                              /\ party'[r].sent = party[r].sent
      BY <1>a, <1>e DEF LooperPeerState
<1> HIDE DEF some
<1> USE LooperAssumption, LooperOthers, LooperTwoPeers DEF LooperInv, Looper!TypeOK
<1>1. Looper!TypeOK'
  <2>1. party' \in [Looper!Peers -> LooperPeerState] BY <1>a, <1>b, <1>c, <1>d
  <2>2. QED BY <2>1, <1>f DEF LooperPeerState
<1>2. LooperConserved'
  <2> SUFFICES ASSUME NEW r \in Looper!Peers
               PROVE  /\ LooperOnTheWay(r)' <= party'[Looper!Other(r)].sent
                      /\ ~party'[r].reset /\ ~party'[Looper!Other(r)].reset =>
                            LooperOnTheWay(r)' = party'[Looper!Other(r)].sent
      BY DEF LooperConserved, LooperOnTheWay, LooperInHand, Looper!Other
  <2>1. LooperInHand(Looper!Other(r))' = LooperInHand(Looper!Other(r))
        /\ LooperInHand(Looper!Other(r)) \in 0..1
        BY <1>f DEF LooperInHand
  <2>2. /\ LooperOnTheWay(r) <= party[Looper!Other(r)].sent
        /\ ~party[r].reset /\ ~party[Looper!Other(r)].reset =>
              LooperOnTheWay(r) = party[Looper!Other(r)].sent
        BY DEF LooperConserved
  <2>3. LooperOnTheWay(r)' = LooperOnTheWay(r)
    <3>1. CASE r # p \/ ~some
      <4>1. party'[r].got = party[r].got BY <3>1, <1>a, <1>e DEF LooperPeerState
      <4>2. outbound'[r] = outbound[r] BY <3>1, <1>f
      <4>3. QED BY <4>1, <4>2, <1>f, <2>1 DEF LooperOnTheWay
    <3>2. CASE r = p /\ some
      <4>1. party'[r].got = party[r].got + 1 BY <3>2, <1>a, <1>e DEF LooperPeerState
      <4>2. outbound'[r] = outbound[r] - 1 BY <3>2, <1>f
      <4>3. /\ party[r].got \in Nat /\ outbound[r] \in Nat /\ inbound[Looper!Other(r)] \in Nat
            /\ inbound'[Looper!Other(r)] = inbound[Looper!Other(r)]
            BY <1>f
      <4>4. QED BY <4>1, <4>2, <4>3, <2>1 DEF LooperOnTheWay
    <3>3. QED BY <3>1, <3>2
  <2>4. QED BY <1>g, <2>2, <2>3
<1>3. LooperReadEndShut' BY <1>f, <1>g DEF LooperReadEndShut
<1>4. LooperWriteEndShut' BY <1>f, <1>g DEF LooperWriteEndShut, LooperInHand, LooperReadEndShut
<1>5. LooperEndSeen'
  <2> SUFFICES ASSUME NEW r \in Looper!Peers
               PROVE  /\ party'[r].sawEnd => socket'[r].writeEnd
                      /\ party'[r].sawEnd /\ ~party'[Looper!Other(r)].reset =>
                            party'[Looper!Other(r)].finished
                                /\ party'[r].got = party'[Looper!Other(r)].sent
      BY DEF LooperEndSeen
  <2>1. CASE r # p
    <3>1. party'[r] = party[r] /\ socket'[r] = socket[r] BY <2>1, <1>e, <1>f
    <3>2. QED BY <3>1, <1>g DEF LooperEndSeen
  <2>2. CASE r = p
    <3>1. party'[Looper!Other(p)] = party[Looper!Other(p)] BY <1>e
    <3>2. party[p].sawEnd \/ ~some => socket[p].writeEnd BY <1>b DEF LooperEndSeen
    <3>3. ASSUME socket[p].writeEnd, ~party[Looper!Other(p)].reset
          PROVE  party[Looper!Other(p)].finished
                 /\ party[p].got + outbound[p] = party[Looper!Other(p)].sent
      <4>1. party[Looper!Other(p)].finished /\ inbound[Looper!Other(p)] = 0
            /\ LooperInHand(Looper!Other(p)) = 0
            BY <1>b, <3>3 DEF LooperWriteEndShut
      <4>2. LooperOnTheWay(p) = party[Looper!Other(p)].sent BY <1>b, <3>3 DEF LooperConserved
      <4>3. QED BY <4>1, <4>2 DEF LooperOnTheWay
    <3>4. CASE some
      <4>1. party'[p].sawEnd = party[p].sawEnd /\ party'[p].got = party[p].got + 1
            BY <1>a, <1>e, <3>4 DEF LooperPeerState
      <4>2. ~party[p].sawEnd \/ party[Looper!Other(p)].reset
            BY <3>2, <3>3, <3>4, <1>f DEF LooperEndSeen, some
      <4>3. QED BY <4>1, <4>2, <3>1, <3>2, <2>2, <1>f
    <3>5. CASE ~some
      <4>1. party'[p].got = party[p].got /\ outbound[p] = 0
            BY <1>a, <1>e, <1>f, <3>5 DEF LooperPeerState, some
      <4>2. QED BY <4>1, <3>1, <3>2, <3>3, <3>5, <2>2, <1>f
    <3>6. QED BY <3>4, <3>5
  <2>3. QED BY <2>1, <2>2
<1>6. QED BY <1>1, <1>2, <1>3, <1>4, <1>5

LEMMA LooperPeerResetsPreserves ==
  ASSUME LooperInv, NEW p \in Looper!Peers, Looper!PeerResets(p)
  PROVE  LooperInv'
<1>a. party \in [Looper!Peers -> LooperPeerState] BY DEF LooperInv, Looper!TypeOK, LooperPeerState
<1>b. party' = [party EXCEPT ![p] = [party[p] EXCEPT !.reset = TRUE]] BY DEF Looper!PeerResets
<1>c. [party[p] EXCEPT !.reset = TRUE] \in LooperPeerState BY <1>a DEF LooperPeerState
<1>d. \A r \in Looper!Peers : party'[r] =
        IF r = p THEN [party[p] EXCEPT !.reset = TRUE] ELSE party[r]
      BY <1>a, <1>b
<1> USE LooperAssumption, LooperOthers, LooperTwoPeers
    DEF LooperInv, Looper!TypeOK, Looper!PeerResets, Looper!looper
<1>1. Looper!TypeOK'
  <2>1. party' \in [Looper!Peers -> LooperPeerState] BY <1>a, <1>b, <1>c
  <2>2. QED BY <2>1 DEF LooperPeerState
<1>2. LooperConserved' BY DEF LooperConserved, LooperOnTheWay, LooperInHand
<1>3. LooperReadEndShut' BY DEF LooperReadEndShut
<1>4. LooperWriteEndShut' BY DEF LooperWriteEndShut, LooperInHand, LooperReadEndShut
<1>5. LooperEndSeen'
      BY DEF LooperEndSeen, LooperWriteEndShut, LooperConserved, LooperOnTheWay, LooperInHand
<1>6. QED BY <1>1, <1>2, <1>3, <1>4, <1>5

-----------------------------------------------------------------------------
(* The looper.                                                             *)

LEMMA LooperLeaveLoopPreserves ==
  ASSUME LooperInv, Looper!LeaveLoop
  PROVE  LooperInv'
<1> USE LooperAssumption, LooperOthers, LooperTwoPeers
    DEF LooperInv, Looper!TypeOK, Looper!LeaveLoop
<1>1. Looper!TypeOK' BY DEF Looper!Peers
<1>2. LooperConserved' BY DEF LooperConserved, LooperOnTheWay, LooperInHand
<1>3. LooperReadEndShut' BY DEF LooperReadEndShut
<1>4. LooperWriteEndShut' BY DEF LooperWriteEndShut, LooperInHand, LooperReadEndShut
<1>5. LooperEndSeen'
      BY DEF LooperEndSeen, LooperWriteEndShut, LooperConserved, LooperOnTheWay, LooperInHand
<1>6. QED BY <1>1, <1>2, <1>3, <1>4, <1>5

LEMMA LooperSelectPreserves ==
  ASSUME LooperInv, Looper!Select
  PROVE  LooperInv'
<1> USE LooperAssumption, LooperOthers, LooperTwoPeers
    DEF LooperInv, Looper!TypeOK, Looper!Select, Looper!Active
<1>1. Looper!TypeOK' BY DEF Looper!Peers
<1>2. LooperConserved' BY DEF LooperConserved, LooperOnTheWay, LooperInHand
<1>3. LooperReadEndShut' BY DEF LooperReadEndShut
<1>4. LooperWriteEndShut' BY DEF LooperWriteEndShut, LooperInHand, LooperReadEndShut
<1>5. LooperEndSeen'
      BY DEF LooperEndSeen, LooperWriteEndShut, LooperConserved, LooperOnTheWay, LooperInHand
<1>6. QED BY <1>1, <1>2, <1>3, <1>4, <1>5

LEMMA LooperSkipPreserves ==
  ASSUME LooperInv, Looper!Skip
  PROVE  LooperInv'
<1> USE LooperAssumption, LooperOthers, LooperTwoPeers
    DEF LooperInv, Looper!TypeOK, Looper!Skip, Looper!GoOn
<1>1. Looper!TypeOK' BY DEF Looper!Peers
<1>2. LooperConserved' BY DEF LooperConserved, LooperOnTheWay, LooperInHand
<1>3. LooperReadEndShut' BY DEF LooperReadEndShut
<1>4. LooperWriteEndShut' BY DEF LooperWriteEndShut, LooperInHand, LooperReadEndShut
<1>5. LooperEndSeen'
      BY DEF LooperEndSeen, LooperWriteEndShut, LooperConserved, LooperOnTheWay, LooperInHand
<1>6. QED BY <1>1, <1>2, <1>3, <1>4, <1>5

LEMMA LooperReceivePiecePreserves ==
  ASSUME LooperInv, Looper!ReceivePiece
  PROVE  LooperInv'
<1> USE LooperAssumption, LooperOthers, LooperTwoPeers
    DEF LooperInv, Looper!TypeOK, Looper!ReceivePiece
<1>1. Looper!TypeOK' BY DEF Looper!Peers
<1>2. LooperConserved' BY DEF LooperConserved, LooperOnTheWay, LooperInHand
<1>3. LooperReadEndShut' BY DEF LooperReadEndShut
<1>4. LooperWriteEndShut' BY DEF LooperWriteEndShut, LooperInHand, LooperReadEndShut
<1>5. LooperEndSeen'
      BY DEF LooperEndSeen, LooperWriteEndShut, LooperConserved, LooperOnTheWay, LooperInHand
<1>6. QED BY <1>1, <1>2, <1>3, <1>4, <1>5

LEMMA LooperReceiveEndPreserves ==
  ASSUME LooperInv, Looper!ReceiveEnd
  PROVE  LooperInv'
<1> USE LooperAssumption, LooperOthers, LooperTwoPeers
    DEF LooperInv, Looper!TypeOK, Looper!ReceiveEnd, Looper!GoOn, Looper!HandOnEnd, Looper!AtEnd
<1>1. Looper!TypeOK' BY ZenonT(40) DEF Looper!Peers
<1>2. LooperConserved' BY DEF LooperConserved, LooperOnTheWay, LooperInHand
<1>3. LooperReadEndShut' BY DEF LooperReadEndShut
<1>4. LooperWriteEndShut' BY DEF LooperWriteEndShut, LooperInHand, LooperReadEndShut
<1>5. LooperEndSeen'
      BY DEF LooperEndSeen, LooperWriteEndShut, LooperConserved, LooperOnTheWay, LooperInHand
<1>6. QED BY <1>1, <1>2, <1>3, <1>4, <1>5

LEMMA LooperReceiveFailsPreserves ==
  ASSUME LooperInv, Looper!ReceiveFails
  PROVE  LooperInv'
<1> USE LooperAssumption, LooperOthers, LooperTwoPeers
    DEF LooperInv, Looper!TypeOK, Looper!ReceiveFails
<1>1. Looper!TypeOK' BY DEF Looper!Peers
<1>2. LooperConserved' BY DEF LooperConserved, LooperOnTheWay, LooperInHand
<1>3. LooperReadEndShut' BY DEF LooperReadEndShut
<1>4. LooperWriteEndShut' BY DEF LooperWriteEndShut, LooperInHand, LooperReadEndShut
<1>5. LooperEndSeen'
      BY DEF LooperEndSeen, LooperWriteEndShut, LooperConserved, LooperOnTheWay, LooperInHand
<1>6. QED BY <1>1, <1>2, <1>3, <1>4, <1>5

LEMMA LooperSendPiecePreserves ==
  ASSUME LooperInv, Looper!SendPiece
  PROVE  LooperInv'
<1> USE LooperAssumption, LooperOthers, LooperTwoPeers
    DEF LooperInv, Looper!TypeOK, Looper!SendPiece, Looper!GoOn
<1>1. Looper!TypeOK' BY DEF Looper!Peers
<1>2. LooperConserved' BY DEF LooperConserved, LooperOnTheWay, LooperInHand
<1>3. LooperReadEndShut' BY DEF LooperReadEndShut
<1>4. LooperWriteEndShut' BY DEF LooperWriteEndShut, LooperInHand, LooperReadEndShut
<1>5. LooperEndSeen'
      BY DEF LooperEndSeen, LooperWriteEndShut, LooperConserved, LooperOnTheWay, LooperInHand
<1>6. QED BY <1>1, <1>2, <1>3, <1>4, <1>5

LEMMA LooperSendFailsPreserves ==
  ASSUME LooperInv, Looper!SendFails
  PROVE  LooperInv'
<1> USE LooperAssumption, LooperOthers, LooperTwoPeers
    DEF LooperInv, Looper!TypeOK, Looper!SendFails, Looper!GoOn
<1>1. Looper!TypeOK' BY ZenonT(40) DEF Looper!Peers
<1>2. LooperConserved' BY DEF LooperConserved, LooperOnTheWay, LooperInHand
<1>3. LooperReadEndShut' BY DEF LooperReadEndShut
<1>4. LooperWriteEndShut' BY DEF LooperWriteEndShut, LooperInHand, LooperReadEndShut
<1>5. LooperEndSeen'
      BY DEF LooperEndSeen, LooperWriteEndShut, LooperConserved, LooperOnTheWay, LooperInHand
<1>6. QED BY <1>1, <1>2, <1>3, <1>4, <1>5

-----------------------------------------------------------------------------
LEMMA LooperStepPreserves ==
  ASSUME LooperInv, [Looper!Next]_Looper!vars
  PROVE  LooperInv'
<1>1. ASSUME NEW p \in Looper!Peers, Looper!Peer(p) PROVE LooperInv'
      BY <1>1, LooperPeerSendsPreserves, LooperPeerFinishesPreserves, LooperPeerReadsPreserves,
         LooperPeerResetsPreserves
      DEF Looper!Peer
<1>2. CASE Looper!Loop
      BY <1>2, LooperLeaveLoopPreserves, LooperSelectPreserves, LooperSkipPreserves,
         LooperReceivePiecePreserves,
         LooperReceiveEndPreserves, LooperReceiveFailsPreserves, LooperSendPiecePreserves,
             LooperSendFailsPreserves
      DEF Looper!Loop
<1>3. CASE UNCHANGED Looper!vars
  <2> USE <1>3 DEF Looper!vars, Looper!looper
  <2>1. Looper!TypeOK' BY DEF LooperInv, Looper!TypeOK
  <2>2. LooperConserved' BY DEF LooperInv, LooperConserved, LooperOnTheWay, LooperInHand
  <2>3. LooperReadEndShut' /\ LooperWriteEndShut' /\ LooperEndSeen'
        BY DEF LooperInv, LooperReadEndShut, LooperWriteEndShut, LooperEndSeen, LooperInHand
  <2>4. QED BY <2>1, <2>2, <2>3 DEF LooperInv
<1>4. QED BY <1>1, <1>2, <1>3 DEF Looper!Next

LEMMA LooperInitially == Init => LooperInv
BY LooperInitHolds DEF Init

LEMMA LooperPreserved == LooperInv /\ [Next]_vars => LooperInv'
<1>1. [Next]_vars => [Looper!Next]_Looper!vars
      BY DEF Next, CgiStep, RpcStep, EventStep, LooperStep, StrStep, NetStep, LinkStep,
             vars, looperVars, Looper!vars
<1>2. QED BY <1>1, LooperStepPreserves

(* The half-close that the looper hands on overtakes no data, however much *)
(* there is and however little room.                                       *)
THEOREM HalfCloseTheorem == Spec => []EndMeansAllForwarded
<1>1. LooperInv => EndMeansAllForwarded
      BY DEF LooperInv, LooperEndSeen, EndMeansAllForwarded, Looper!EndMeansAllForwarded
<1>2. QED BY <1>1, LooperInitially, LooperPreserved, PTL DEF Spec

-----------------------------------------------------------------------------
(* Str: the Strings that share buffers.                                    *)

StrNarrowOrNone == Narrows \cup {None}
StrBuffer == [ref : Nat \ {0}, text : Str!AllTexts, narrow : StrNarrowOrNone, mixed : BOOLEAN]
StrSteps == {"idle", "resize", "detach", "dirty", "setAt", "convert", "publish", "load"}
StrOp == [pc : StrSteps, text : Str!AllTexts, made : StrNarrowOrNone]

StrTypes ==
    /\ pData \in [Strings -> Bufs]
    /\ buf \in [Bufs -> StrBuffer \cup {None}]
    /\ narrow \in [Narrows -> Str!AllTexts \cup {None}]
    /\ op \in [Strings -> StrOp]
    /\ own \in [Strings -> Str!AllTexts]
    /\ held \in [Strings -> StrNarrowOrNone \cup {"null"}]
    /\ dirtied \in [Strings -> BOOLEAN]

(* m_aRef is exact, so that no String refers to a buffer that is freed.    *)
StrUsers(b) == {s \in Strings : pData[s] = b}
StrCounted ==
    /\ \A b \in Bufs : buf[b] # None =>
          buf[b].ref = Cardinality(StrUsers(b)) + IF b = Empty THEN 1 ELSE 0
    /\ buf[Empty] # None /\ \A s \in Strings : buf[pData[s]] # None

(* A buffer has the text of each String that refers to it.                 *)
StrTexts == \A s \in Strings : Str!Buf(s).text = own[s] \/ Str!Buf(s).mixed

(* A narrow text that is published is there and is the text of the buffer. *)
StrPublished ==
    \A b \in Bufs : buf[b] # None /\ buf[b].narrow # None =>
        /\ narrow[buf[b].narrow] # None
        /\ narrow[buf[b].narrow] = buf[b].text \/ buf[b].mixed

(* So is one that a thread has made and not published yet.                 *)
StrMade ==
    \A s \in Strings :
        /\ op[s].made # None <=> Str!At(s, "publish")
        /\ op[s].made # None =>
              /\ narrow[op[s].made] # None
              /\ narrow[op[s].made] = Str!Buf(s).text \/ Str!Buf(s).mixed

(* A narrow text has one place, so who frees it takes it from nobody.      *)
StrUnshared ==
    /\ \A b, c \in Bufs : buf[b] # None /\ buf[c] # None /\ buf[b].narrow # None
          /\ buf[b].narrow = buf[c].narrow => b = c
    /\ \A s, t \in Strings : op[s].made # None /\ op[s].made = op[t].made => s = t
    /\ \A b \in Bufs, s \in Strings : buf[b] # None /\ buf[b].narrow # None =>
          buf[b].narrow # op[s].made

(* What c_str() returned is still published, and what it is about to       *)
(* return is there, unless a sharer called MakeDirty().                    *)
StrHeld ==
    \A s \in Strings :
        /\ held[s] # None => Str!At(s, "idle") /\ (held[s] = Str!Buf(s).narrow \/ dirtied[s])
        /\ Str!At(s, "load") => Str!Buf(s).narrow # None \/ dirtied[s]

StrInv == StrTypes /\ StrCounted /\ StrTexts /\ StrPublished /\ StrMade /\ StrUnshared /\ StrHeld

(* StringBuf counts with its own instance of FiniteSets.                   *)
LEMMA StrCardinality == \A S : Str!Cardinality(S) = Cardinality(S)
BY DEF Str!Cardinality, Cardinality

LEMMA StrIdle == Str!Idle \in StrOp /\ Str!Idle.pc = "idle" /\ Str!Idle.made = None
BY DEF Str!Idle, StrOp, StrSteps, StrNarrowOrNone, Str!AllTexts

LEMMA StrInitHolds == ASSUME Str!Init PROVE StrInv
<1> USE StrAssumption DEF Str!Init
<1>1. Cardinality(Strings) \in Nat BY FS_CardinalityType
<1>2. Str!Buffer(NoText, Cardinality(Strings) + 1) \in StrBuffer
      BY <1>1 DEF Str!Buffer, StrBuffer, StrNarrowOrNone, Str!AllTexts
<1>3. \A b \in Bufs : buf[b] =
        IF b = Empty THEN Str!Buffer(NoText, Cardinality(Strings) + 1) ELSE None
      BY StrCardinality
<1>4. buf[Empty] # None BY <1>2, <1>3 DEF StrBuffer, StrNarrowOrNone
<1>5. StrTypes
  <2>1. Str!Idle \in StrOp BY StrIdle
  <2>2. buf \in [Bufs -> StrBuffer \cup {None}] BY <1>2, StrCardinality
  <2>3. QED BY <2>1, <2>2 DEF StrTypes, Str!AllTexts, StrNarrowOrNone
<1>6. StrCounted
  <2>1. StrUsers(Empty) = Strings BY DEF StrUsers
  <2>2. buf[Empty].ref = Cardinality(Strings) + 1 BY <1>3 DEF Str!Buffer
  <2>3. QED BY <1>3, <1>4, <2>1, <2>2 DEF StrCounted
<1>7. \A b \in Bufs : buf[b] # None => b = Empty /\ buf[b].narrow = None /\ buf[b].text = NoText
      BY <1>3 DEF Str!Buffer
<1>8. \A s \in Strings : op[s].made = None /\ op[s].pc = "idle" BY DEF Str!Idle
<1>9. QED BY <1>4, <1>5, <1>6, <1>7, <1>8
          DEF StrInv, StrTexts, StrPublished, StrMade, StrUnshared, StrHeld, Str!Buf, Str!At

(* What one String does while the buffers stay.                            *)
LEMMA StrOnlyGoes ==
  ASSUME StrInv, NEW s \in Strings, NEW x \in StrOp, op' = [op EXCEPT ![s] = x],
         UNCHANGED <<pData, buf, narrow, own>>, x.made = None, x.pc # "publish",
             ~Str!At(s, "publish"),
         NEW h \in StrNarrowOrNone \cup {"null"}, held' = [held EXCEPT ![s] = h],
         NEW d \in BOOLEAN, dirtied' = [dirtied EXCEPT ![s] = d],
         h # None => x.pc = "idle" /\ (h = Str!Buf(s).narrow \/ d),
         x.pc = "load" => Str!Buf(s).narrow # None \/ d
  PROVE  StrInv'
<1>1. \A t \in Strings : /\ op'[t] = IF t = s THEN x ELSE op[t]
                         /\ held'[t] = IF t = s THEN h ELSE held[t]
                         /\ dirtied'[t] = IF t = s THEN d ELSE dirtied[t]
      BY DEF StrInv, StrTypes
<1>2. StrTypes' BY DEF StrInv, StrTypes
<1>3. StrCounted' /\ StrTexts' /\ StrPublished'
      BY DEF StrInv, StrCounted, StrUsers, StrTexts, StrPublished, Str!Buf
<1>4. StrMade' BY <1>1 DEF StrInv, StrMade, Str!At, Str!Buf
<1>5. StrUnshared' BY <1>1 DEF StrInv, StrUnshared
<1>6. StrHeld' BY <1>1 DEF StrInv, StrHeld, Str!At, Str!Buf
<1>7. QED BY <1>2, <1>3, <1>4, <1>5, <1>6 DEF StrInv

LEMMA StrGoesPreserves ==
  ASSUME StrInv, NEW s \in Strings,
         Str!BeginClear(s) \/ Str!TestShared(s) \/ Str!CStrBegin(s) \/ Str!CStrReturn(s)
  PROVE  StrInv'
<1>1. op[s] \in StrOp /\ held[s] \in StrNarrowOrNone \cup {"null"} /\ dirtied[s] \in BOOLEAN
      BY DEF StrInv, StrTypes
<1>2. op[s].made = None /\ ~Str!At(s, "publish")
      BY DEF StrInv, StrMade, Str!BeginClear, Str!TestShared, Str!CStrBegin, Str!CStrReturn, Str!At
<1>3. held = [held EXCEPT ![s] = held[s]] /\ dirtied = [dirtied EXCEPT ![s] = dirtied[s]]
      BY DEF StrInv, StrTypes
<1>4. CASE Str!BeginClear(s)
  <2> DEFINE x == [pc |-> "resize", text |-> NoText, made |-> None]
  <2>1. x \in StrOp BY DEF StrOp, StrSteps, StrNarrowOrNone, Str!AllTexts
  <2>2. QED BY <1>1, <1>2, <1>3, <1>4, <2>1, StrOnlyGoes DEF Str!BeginClear, StrNarrowOrNone
<1>5. CASE Str!TestShared(s)
  <2> DEFINE x == [op[s] EXCEPT !.pc = "detach"]
  <2>1. x \in StrOp /\ x.pc = "detach" /\ x.made = None BY <1>1, <1>2 DEF StrOp, StrSteps
  <2>2. op' = [op EXCEPT ![s] = x] /\ UNCHANGED <<pData, buf, narrow, own, held, dirtied>>
        BY <1>5 DEF Str!TestShared, Str!Goto
  <2>3. held[s] = None BY <1>5 DEF StrInv, StrHeld, Str!TestShared, Str!At
  <2> HIDE DEF x
  <2>4. QED BY <1>1, <1>2, <1>3, <2>1, <2>2, <2>3, StrOnlyGoes
<1>6. CASE Str!CStrBegin(s)
  <2> DEFINE x == [op[s] EXCEPT !.pc = IF Str!Buf(s).narrow = None THEN "convert" ELSE "load"]
  <2>1. /\ x \in StrOp /\ x.made = None
        /\ x.pc = IF Str!Buf(s).narrow = None THEN "convert" ELSE "load"
        BY <1>1, <1>2 DEF StrOp, StrSteps
  <2>2. op' = [op EXCEPT ![s] = x] BY <1>6 DEF Str!CStrBegin, Str!Goto
  <2>3. /\ held' = [held EXCEPT ![s] = None] /\ dirtied' = [dirtied EXCEPT ![s] = FALSE]
        /\ UNCHANGED <<pData, buf, narrow, own>>
        BY <1>6 DEF Str!CStrBegin
  <2> HIDE DEF x
  <2>4. QED BY <1>2, <2>1, <2>2, <2>3, StrOnlyGoes DEF StrNarrowOrNone
<1>7. CASE Str!CStrReturn(s)
  <2> DEFINE h == IF Str!Buf(s).narrow = None THEN "null" ELSE Str!Buf(s).narrow
  <2>1. Str!Idle \in StrOp /\ Str!Idle.pc = "idle" /\ Str!Idle.made = None BY StrIdle
  <2>2. /\ op' = [op EXCEPT ![s] = Str!Idle] /\ held' = [held EXCEPT ![s] = h]
        /\ UNCHANGED <<pData, buf, narrow, own, dirtied>>
        BY <1>7 DEF Str!CStrReturn, Str!Return
  <2>3. h \in StrNarrowOrNone \cup {"null"} /\ (h = Str!Buf(s).narrow \/ dirtied[s])
        BY <1>7 DEF StrInv, StrTypes, StrCounted, StrBuffer, StrHeld, Str!CStrReturn, Str!Buf
  <2> HIDE DEF h
  <2>4. QED BY <1>1, <1>2, <1>3, <2>1, <2>2, <2>3, StrOnlyGoes
<1>8. QED BY <1>4, <1>5, <1>6, <1>7

(* One narrow text is freed and the others stay.                           *)
LEMMA StrFreed ==
  ASSUME StrTypes, NEW n \in StrNarrowOrNone, Str!FreeNarrow(n)
  PROVE  /\ narrow' \in [Narrows -> Str!AllTexts \cup {None}]
         /\ \A m \in Narrows : m # n => narrow'[m] = narrow[m]
BY DEF StrTypes, Str!FreeNarrow

(* MakeDirty() takes the narrow text from all sharers.                     *)
LEMMA StrMakeDirtyPreserves ==
  ASSUME StrInv, NEW s \in Strings, Str!MakeDirty(s), UNCHANGED <<pData, own>>,
         NEW x \in StrOp, op' = [op EXCEPT ![s] = x], x.made = None,
         x.pc \notin {"publish", "load"}, ~Str!At(s, "publish")
  PROVE  StrInv'
<1> DEFINE b0 == pData[s]
<1>1. /\ b0 \in Bufs /\ buf[b0] # None /\ buf[b0] \in StrBuffer
      /\ \A b \in Bufs : buf[b] \in StrBuffer \cup {None}
      BY DEF StrInv, StrTypes, StrCounted
<1>2. buf' = [buf EXCEPT ![b0] = [buf[b0] EXCEPT !.narrow = None]] BY DEF Str!MakeDirty
<1>3. [buf[b0] EXCEPT !.narrow = None] \in StrBuffer
      BY <1>1 DEF StrBuffer, StrNarrowOrNone
<1>4. \A b \in Bufs : buf'[b] = IF b = b0 THEN [buf[b0] EXCEPT !.narrow = None] ELSE buf[b]
      BY <1>2 DEF StrInv, StrTypes
<1>5. \A b \in Bufs : /\ buf'[b] # None <=> buf[b] # None
                      /\ buf[b] # None =>
                            /\ buf'[b].ref = buf[b].ref /\ buf'[b].text = buf[b].text
                            /\ buf'[b].mixed = buf[b].mixed
                            /\ buf'[b].narrow = IF b = b0 THEN None ELSE buf[b].narrow
      BY <1>1, <1>3, <1>4, StrAssumption DEF StrBuffer, StrNarrowOrNone
<1>6. /\ narrow' \in [Narrows -> Str!AllTexts \cup {None}]
      /\ \A m \in Narrows : m # buf[b0].narrow => narrow'[m] = narrow[m]
      BY <1>1, StrFreed DEF Str!MakeDirty, StrInv, StrBuffer, Str!Buf
<1>7. \A t \in Strings : op'[t] = IF t = s THEN x ELSE op[t] BY DEF StrInv, StrTypes
<1>8. \A t \in Strings : /\ held'[t] = IF t = s THEN None ELSE held[t]
                         /\ dirtied'[t] <=> dirtied[t] \/ (t # s /\ pData[t] = pData[s])
      BY DEF Str!MakeDirty, StrInv, StrTypes, Str!Sharers
<1> HIDE DEF b0
<1>9. StrTypes'
  <2>1. buf' \in [Bufs -> StrBuffer \cup {None}] BY <1>1, <1>2, <1>3 DEF StrInv, StrTypes
  <2>2. op' \in [Strings -> StrOp] BY DEF StrInv, StrTypes
  <2>3. held' \in [Strings -> StrNarrowOrNone \cup {"null"}] /\ dirtied' \in [Strings -> BOOLEAN]
        BY DEF StrInv, StrTypes, Str!MakeDirty, StrNarrowOrNone
  <2>4. QED BY <2>1, <2>2, <2>3, <1>6 DEF StrInv, StrTypes
<1>10. StrCounted' BY <1>5, StrAssumption DEF StrInv, StrCounted, StrTypes, StrUsers
<1>11. StrTexts' BY <1>5 DEF StrInv, StrTypes, StrCounted, StrTexts, Str!Buf
<1>12. StrPublished'
  <2> SUFFICES ASSUME NEW b \in Bufs, buf'[b] # None, buf'[b].narrow # None
               PROVE  /\ narrow'[buf'[b].narrow] # None
                      /\ narrow'[buf'[b].narrow] = buf'[b].text \/ buf'[b].mixed
      BY DEF StrPublished
  <2>1. b # b0 /\ buf[b] # None /\ buf'[b].narrow = buf[b].narrow /\ buf[b].narrow # None BY <1>5
  <2>2. buf[b].narrow \in Narrows /\ buf[b].narrow # buf[b0].narrow
        BY <1>1, <2>1 DEF StrInv, StrUnshared, StrBuffer, StrNarrowOrNone
  <2>3. QED BY <1>5, <1>6, <2>1, <2>2 DEF StrInv, StrPublished
<1>13. StrMade'
  <2> SUFFICES ASSUME NEW t \in Strings
               PROVE  /\ op'[t].made # None <=> op'[t].pc = "publish"
                      /\ op'[t].made # None =>
                            /\ narrow'[op'[t].made] # None
                            /\ narrow'[op'[t].made] = buf'[pData[t]].text \/ buf'[pData[t]].mixed
      BY DEF StrMade, Str!At, Str!Buf
  <2>1. CASE t = s BY <1>7, <2>1
  <2>2. CASE t # s
    <3>1. op'[t] = op[t] /\ (op[t].made # None <=> op[t].pc = "publish")
          BY <1>7, <2>2 DEF StrInv, StrMade, Str!At
    <3>2. ASSUME op[t].made # None
          PROVE  op[t].made \in Narrows /\ op[t].made # buf[b0].narrow
          BY <1>1, <3>2 DEF StrInv, StrTypes, StrUnshared, StrOp, StrNarrowOrNone
    <3>3. pData[t] \in Bufs /\ buf[pData[t]] # None BY DEF StrInv, StrTypes, StrCounted
    <3>4. QED BY <1>5, <1>6, <3>1, <3>2, <3>3 DEF StrInv, StrMade, Str!Buf
  <2>3. QED BY <2>1, <2>2
<1>14. StrUnshared' BY <1>5, <1>7 DEF StrInv, StrUnshared
<1>15. StrHeld'
  <2> SUFFICES ASSUME NEW t \in Strings
               PROVE  /\ held'[t] # None => op'[t].pc = "idle"
                                            /\ (held'[t] = buf'[pData[t]].narrow \/ dirtied'[t])
                      /\ op'[t].pc = "load" => buf'[pData[t]].narrow # None \/ dirtied'[t]
      BY DEF StrHeld, Str!At, Str!Buf
  <2>1. CASE t = s BY <1>7, <1>8, <2>1
  <2>2. CASE t # s
    <3>1. pData[t] \in Bufs /\ buf[pData[t]] # None BY DEF StrInv, StrTypes, StrCounted
    <3>2. op'[t] = op[t] /\ held'[t] = held[t] BY <2>2, <1>7, <1>8
    <3>3. /\ held[t] # None => op[t].pc = "idle" /\ (held[t] = buf[pData[t]].narrow \/ dirtied[t])
          /\ op[t].pc = "load" => buf[pData[t]].narrow # None \/ dirtied[t]
          BY DEF StrInv, StrHeld, Str!At, Str!Buf
    <3>4. CASE pData[t] = pData[s]
      <4>1. dirtied'[t] BY <3>4, <2>2, <1>8
      <4>2. QED BY <3>2, <3>3, <4>1
    <3>5. CASE pData[t] # pData[s]
      <4>1. buf'[pData[t]].narrow = buf[pData[t]].narrow BY <3>1, <3>5, <1>5 DEF b0
      <4>2. dirtied'[t] <=> dirtied[t] BY <3>5, <1>8
      <4>3. QED BY <3>2, <3>3, <4>1, <4>2
    <3>6. QED BY <3>4, <3>5
  <2>3. QED BY <2>1, <2>2
<1>16. QED BY <1>9, <1>10, <1>11, <1>12, <1>13, <1>14, <1>15 DEF StrInv

LEMMA StrDirtiesPreserves ==
  ASSUME StrInv, NEW s \in Strings, (\E v \in Texts : Str!BeginWrite(s, v)) \/ Str!EndClear(s)
  PROVE  StrInv'
<1>1. CASE \E v \in Texts : Str!BeginWrite(s, v)
  <2>1. PICK v \in Texts, step \in {"resize", "setAt"} :
           op' = [op EXCEPT ![s] = [pc |-> step, text |-> v, made |-> None]]
        BY <1>1 DEF Str!BeginWrite
  <2>2. [pc |-> step, text |-> v, made |-> None] \in StrOp
        BY DEF StrOp, StrSteps, StrNarrowOrNone, Str!AllTexts
  <2>3. ~Str!At(s, "publish") /\ Str!MakeDirty(s) /\ UNCHANGED <<pData, own>>
        BY <1>1 DEF Str!BeginWrite, Str!At
  <2>4. QED BY <2>1, <2>2, <2>3, StrMakeDirtyPreserves
<1>2. CASE Str!EndClear(s)
  <2>1. Str!Idle \in StrOp /\ Str!Idle.made = None /\ Str!Idle.pc = "idle" BY StrIdle
  <2>2. ~Str!At(s, "publish") /\ Str!MakeDirty(s) /\ UNCHANGED <<pData, own>>
        /\ op' = [op EXCEPT ![s] = Str!Idle]
        BY <1>2 DEF Str!EndClear, Str!At, Str!Return
  <2>3. QED BY <2>1, <2>2, StrMakeDirtyPreserves
<1>3. QED BY <1>1, <1>2

(* Who finds the count at one is the only sharer.                          *)
LEMMA StrCounts ==
  ASSUME StrInv, NEW s \in Strings
  PROVE  LET b == pData[s] IN
         /\ b \in Bufs /\ buf[b] # None /\ buf[b] \in StrBuffer
         /\ IsFiniteSet(StrUsers(b)) /\ s \in StrUsers(b) /\ Cardinality(StrUsers(b)) \in Nat \ {0}
         /\ ~(buf[b].ref > 1) <=> buf[b].ref = 1
         /\ buf[b].ref = 1 => b # Empty /\ \A t \in Strings : pData[t] = b => t = s
<1> DEFINE b == pData[s]
<1>1. b \in Bufs /\ buf[b] # None /\ buf[b] \in StrBuffer
      BY DEF StrInv, StrTypes, StrCounted
<1>2. IsFiniteSet(StrUsers(b)) /\ s \in StrUsers(b)
      BY FS_Subset, StrAssumption DEF StrUsers
<1>3. Cardinality(StrUsers(b)) \in Nat \ {0}
      BY <1>2, FS_CardinalityType, FS_EmptySet
<1>4. buf[b].ref = Cardinality(StrUsers(b)) + IF b = Empty THEN 1 ELSE 0
      BY <1>1 DEF StrInv, StrCounted
<1>5. ASSUME buf[b].ref = 1 PROVE b # Empty /\ \A t \in Strings : pData[t] = b => t = s
  <2>1. b # Empty /\ Cardinality(StrUsers(b)) = 1 BY <1>3, <1>4, <1>5
  <2>2. PICK x : StrUsers(b) = {x} BY <1>2, <2>1, FS_Singleton
  <2>3. QED BY <1>2, <2>1, <2>2 DEF StrUsers
<1>6. ~(buf[b].ref > 1) <=> buf[b].ref = 1 BY <1>3, <1>4
<1>7. QED BY <1>1, <1>2, <1>3, <1>5, <1>6

(* The buffer of s is written in place: alone, or with a trace in mixed.    *)
LEMMA StrInPlacePreserves ==
  ASSUME StrInv, NEW s \in Strings, NEW y \in StrBuffer,
         buf' = [buf EXCEPT ![pData[s]] = y], y.ref = buf[pData[s]].ref,
         own' = [own EXCEPT ![s] = y.text],
         y.narrow \in {None, buf[pData[s]].narrow},
         y.narrow # None => y.mixed,
         buf[pData[s]].ref > 1 => y.mixed /\ y.narrow = buf[pData[s]].narrow,
         NEW n \in StrNarrowOrNone, Str!FreeNarrow(n), n \in {None, buf[pData[s]].narrow},
         n = None \/ y.narrow = None,
         NEW x \in StrOp, op' = [op EXCEPT ![s] = x], x.made = None,
             x.pc \notin {"load", "publish"},
         ~Str!At(s, "publish"), held[s] = None,
         UNCHANGED <<pData, held, dirtied>>
  PROVE  StrInv'
<1> DEFINE b0 == pData[s]
<1>1. /\ b0 \in Bufs /\ buf[b0] # None /\ y # None
      /\ buf[b0].ref > 1 \/ \A t \in Strings : pData[t] = b0 => t = s
      BY StrCounts, StrAssumption DEF StrBuffer, StrNarrowOrNone
<1>2. \A b \in Bufs : buf'[b] = IF b = b0 THEN y ELSE buf[b] BY DEF StrInv, StrTypes
<1>3. /\ narrow' \in [Narrows -> Str!AllTexts \cup {None}]
      /\ \A m \in Narrows : m # n => narrow'[m] = narrow[m]
      BY StrFreed DEF StrInv
<1>4. \A t \in Strings : /\ op'[t] = IF t = s THEN x ELSE op[t]
                         /\ own'[t] = IF t = s THEN y.text ELSE own[t]
      BY DEF StrInv, StrTypes
<1>5. \A t \in Strings : /\ pData[t] \in Bufs /\ buf[pData[t]] # None
                         /\ pData[t] # b0 => buf'[pData[t]] = buf[pData[t]]
                         /\ pData[t] = b0 /\ t # s => buf'[pData[t]] = y /\ y.mixed
                                                      /\ y.narrow = buf[b0].narrow
      BY <1>1, <1>2 DEF StrInv, StrTypes, StrCounted
<1>6. pData[s] = b0 /\ buf'[b0] = y BY <1>1, <1>2
<1> HIDE DEF b0
<1>7. StrTypes'
  <2>1. buf' \in [Bufs -> StrBuffer \cup {None}] BY DEF StrInv, StrTypes
  <2>2. op' \in [Strings -> StrOp] BY DEF StrInv, StrTypes
  <2>3. own' \in [Strings -> Str!AllTexts] BY DEF StrInv, StrTypes, StrBuffer
  <2>4. QED BY <2>1, <2>2, <2>3, <1>3 DEF StrInv, StrTypes
<1>8. StrCounted'
  <2>1. \A b \in Bufs : /\ buf'[b] # None <=> buf[b] # None
                        /\ buf'[b] # None => buf'[b].ref = buf[b].ref
        BY <1>1, <1>2 DEF b0
  <2>2. \A b \in Bufs : StrUsers(b)' = StrUsers(b) BY DEF StrUsers
  <2>3. Empty \in Bufs /\ \A t \in Strings : pData[t] \in Bufs
        BY StrAssumption DEF StrInv, StrTypes
  <2>4. QED BY <2>1, <2>2, <2>3 DEF StrInv, StrCounted
<1>9. StrTexts'
  <2> SUFFICES ASSUME NEW t \in Strings
               PROVE  buf'[pData[t]].text = own'[t] \/ buf'[pData[t]].mixed
      BY DEF StrTexts, Str!Buf
  <2>1. CASE t = s BY <2>1, <1>4, <1>6
  <2>2. CASE t # s /\ pData[t] = b0 BY <2>2, <1>5
  <2>3. CASE t # s /\ pData[t] # b0 BY <2>3, <1>4, <1>5 DEF StrInv, StrTexts, Str!Buf
  <2>4. QED BY <2>1, <2>2, <2>3
<1>10. StrPublished'
  <2> SUFFICES ASSUME NEW b \in Bufs, buf'[b] # None, buf'[b].narrow # None
               PROVE  /\ narrow'[buf'[b].narrow] # None
                      /\ narrow'[buf'[b].narrow] = buf'[b].text \/ buf'[b].mixed
      BY DEF StrPublished
  <2>1. CASE b = b0
    <3>1. buf'[b] = y /\ y.narrow = buf[b0].narrow /\ y.mixed /\ n = None
          BY <2>1, <1>2 DEF b0
    <3>2. y.narrow \in Narrows BY <3>1 DEF StrBuffer, StrNarrowOrNone
    <3>3. narrow[y.narrow] # None BY <3>1, <1>1 DEF StrInv, StrPublished
    <3>4. QED BY <3>1, <3>2, <3>3, <1>3, StrAssumption
  <2>2. CASE b # b0
    <3>1. buf'[b] = buf[b] BY <2>2, <1>2
    <3>2. buf[b].narrow \in Narrows /\ buf[b].narrow # n
          BY <2>2, <3>1, <1>1 DEF StrInv, StrTypes, StrUnshared, StrBuffer, StrNarrowOrNone, b0
    <3>3. QED BY <3>1, <3>2, <1>3 DEF StrInv, StrPublished
  <2>3. QED BY <2>1, <2>2
<1>11. StrMade'
  <2> SUFFICES ASSUME NEW t \in Strings
               PROVE  /\ op'[t].made # None <=> op'[t].pc = "publish"
                      /\ op'[t].made # None =>
                            /\ narrow'[op'[t].made] # None
                            /\ narrow'[op'[t].made] = buf'[pData[t]].text \/ buf'[pData[t]].mixed
      BY DEF StrMade, Str!At, Str!Buf
  <2>1. CASE t = s BY <1>4, <2>1
  <2>2. CASE t # s
    <3>1. op'[t] = op[t] /\ (op[t].made # None <=> op[t].pc = "publish")
          BY <1>4, <2>2 DEF StrInv, StrMade, Str!At
    <3>2. ASSUME op[t].made # None
          PROVE  op[t].made \in Narrows /\ op[t].made # n
          BY <1>1, <3>2 DEF StrInv, StrTypes, StrUnshared, StrOp, StrNarrowOrNone, b0
    <3>3. QED BY <1>3, <1>5, <2>2, <3>1, <3>2 DEF StrInv, StrMade, Str!Buf
  <2>3. QED BY <2>1, <2>2
<1>12. StrUnshared'
  <2>1. \A b \in Bufs : buf'[b] # None /\ buf'[b].narrow # None =>
           buf[b] # None /\ buf[b].narrow = buf'[b].narrow
        BY <1>1, <1>2 DEF b0
  <2>2. QED BY <2>1, <1>4 DEF StrInv, StrUnshared
<1>13. StrHeld'
  <2> SUFFICES ASSUME NEW t \in Strings
               PROVE  /\ held[t] # None => op'[t].pc = "idle"
                                            /\ (held[t] = buf'[pData[t]].narrow \/ dirtied[t])
                      /\ op'[t].pc = "load" => buf'[pData[t]].narrow # None \/ dirtied[t]
      BY DEF StrHeld, Str!At, Str!Buf
  <2>1. CASE t = s BY <2>1, <1>4
  <2>2. CASE t # s
    <3>1. op'[t] = op[t] /\ buf'[pData[t]].narrow = buf[pData[t]].narrow BY <2>2, <1>4, <1>5
    <3>2. QED BY <3>1 DEF StrInv, StrHeld, Str!At, Str!Buf
  <2>3. QED BY <2>1, <2>2
<1>14. QED BY <1>7, <1>8, <1>9, <1>10, <1>11, <1>12, <1>13 DEF StrInv

LEMMA StrWritesPreserve ==
  ASSUME StrInv, NEW s \in Strings, Str!ResizeInPlace(s) \/ Str!SetAt(s)
  PROVE  StrInv'
<1>1. /\ op[s] \in StrOp /\ op[s].text \in Str!AllTexts /\ buf[pData[s]] \in StrBuffer
      /\ buf[pData[s]].narrow \in StrNarrowOrNone /\ held[s] = None /\ ~Str!At(s, "publish")
      /\ ~(buf[pData[s]].ref > 1) <=> buf[pData[s]].ref = 1
      BY StrCounts
         DEF StrInv, StrTypes, StrOp, StrBuffer, StrHeld, Str!ResizeInPlace, Str!SetAt, Str!At
<1>2. CASE Str!ResizeInPlace(s)
  <2> DEFINE y == [buf[pData[s]] EXCEPT !.text = op[s].text, !.narrow = None]
             x == IF op[s].text = NoText THEN [op[s] EXCEPT !.pc = "dirty"] ELSE Str!Idle
  <2>1. /\ y \in StrBuffer /\ y.ref = buf[pData[s]].ref /\ y.text = op[s].text /\ y.narrow = None
        BY <1>1 DEF StrBuffer, StrNarrowOrNone
  <2>2. op[s].made = None BY <1>1 DEF StrInv, StrMade
  <2>3. x \in StrOp /\ x.made = None /\ x.pc \in {"dirty", "idle"}
        BY <1>1, <2>2, StrIdle DEF StrOp, StrSteps
  <2>4. /\ buf' = [buf EXCEPT ![pData[s]] = y] /\ own' = [own EXCEPT ![s] = y.text]
        /\ op' = [op EXCEPT ![s] = x]
        /\ Str!FreeNarrow(buf[pData[s]].narrow) /\ ~(buf[pData[s]].ref > 1)
        /\ UNCHANGED <<pData, held, dirtied>>
        BY <1>2, <2>1 DEF Str!ResizeInPlace, Str!InUseByOthers, Str!Buf, Str!Goto, Str!Return
  <2> HIDE DEF x, y
  <2>5. QED BY <1>1, <2>1, <2>3, <2>4, StrInPlacePreserves
<1>3. CASE Str!SetAt(s)
  <2> DEFINE y == [buf[pData[s]] EXCEPT !.text = op[s].text,
                      !.mixed = @ \/ buf[pData[s]].ref > 1 \/ buf[pData[s]].narrow # None]
  <2>1. /\ y \in StrBuffer /\ y.ref = buf[pData[s]].ref /\ y.text = op[s].text
        /\ y.narrow = buf[pData[s]].narrow
        /\ buf[pData[s]].ref > 1 \/ y.narrow # None => y.mixed
        BY <1>1 DEF StrBuffer, StrNarrowOrNone
  <2>2. /\ buf' = [buf EXCEPT ![pData[s]] = y] /\ own' = [own EXCEPT ![s] = y.text]
        /\ op' = [op EXCEPT ![s] = Str!Idle]
        /\ UNCHANGED <<pData, held, dirtied, narrow>>
        BY <1>3, <2>1 DEF Str!SetAt, Str!InUseByOthers, Str!Buf, Str!Return
  <2>3. Str!FreeNarrow(None) /\ None \in StrNarrowOrNone
        BY <2>2, StrAssumption DEF Str!FreeNarrow, StrNarrowOrNone, StrInv, StrTypes
  <2> HIDE DEF y
  <2>4. QED BY <1>1, <2>1, <2>2, <2>3, StrIdle, StrInPlacePreserves
<1>4. QED BY <1>2, <1>3

LEMMA StrConvertPreserves ==
  ASSUME StrInv, NEW s \in Strings, Str!Convert(s)
  PROVE  StrInv'
<1>1. PICK n \in Narrows :
         /\ narrow[n] = None
         /\ narrow' = [narrow EXCEPT ![n] = Str!Buf(s).text]
         /\ op' = [op EXCEPT ![s].pc = "publish", ![s].made = n]
      BY DEF Str!Convert
<1> DEFINE x == [op[s] EXCEPT !.pc = "publish", !.made = n]
<1>2. /\ op[s].pc = "convert" /\ op[s].made = None /\ held[s] = None
      /\ UNCHANGED <<pData, buf, own, held, dirtied>>
      BY DEF StrInv, StrMade, StrHeld, Str!Convert, Str!At
<1>3. x \in StrOp /\ x.pc = "publish" /\ x.made = n /\ n # None
      BY StrAssumption DEF StrInv, StrTypes, StrOp, StrSteps, StrNarrowOrNone
<1>4. \A t \in Strings : op'[t] = IF t = s THEN x ELSE op[t] BY <1>1 DEF StrInv, StrTypes
<1>5. /\ Str!Buf(s).text \in Str!AllTexts /\ narrow'[n] = Str!Buf(s).text /\ narrow'[n] # None
      /\ \A m \in Narrows : m # n => narrow'[m] = narrow[m]
      BY <1>1, StrCounts, StrAssumption DEF StrInv, StrTypes, StrBuffer, Str!Buf
<1> HIDE DEF x
(* A free narrow text is in no place.                                      *)
<1>6. /\ \A b \in Bufs : buf[b] # None => buf[b].narrow # n
      /\ \A t \in Strings : op[t].made # n
      BY <1>1, <1>3 DEF StrInv, StrPublished, StrMade
<1>7. StrTypes'
  <2>1. op' = [op EXCEPT ![s] = x] BY <1>1 DEF x
  <2>2. op' \in [Strings -> StrOp] BY <1>3, <2>1 DEF StrInv, StrTypes
  <2>3. narrow' \in [Narrows -> Str!AllTexts \cup {None}] BY <1>1, <1>5 DEF StrInv, StrTypes
  <2>4. QED BY <1>2, <2>2, <2>3 DEF StrInv, StrTypes
<1>8. StrCounted' /\ StrTexts' BY <1>2 DEF StrInv, StrCounted, StrUsers, StrTexts, Str!Buf
<1>9. StrPublished'
  <2> SUFFICES ASSUME NEW b \in Bufs, buf[b] # None, buf[b].narrow # None
               PROVE  /\ narrow'[buf[b].narrow] # None
                      /\ narrow'[buf[b].narrow] = buf[b].text \/ buf[b].mixed
      BY <1>2 DEF StrPublished
  <2>1. buf[b].narrow \in Narrows BY DEF StrInv, StrTypes, StrBuffer, StrNarrowOrNone
  <2>2. QED BY <2>1, <1>5, <1>6 DEF StrInv, StrPublished
<1>10. StrMade'
  <2> SUFFICES ASSUME NEW t \in Strings
               PROVE  /\ op'[t].made # None <=> op'[t].pc = "publish"
                      /\ op'[t].made # None =>
                            /\ narrow'[op'[t].made] # None
                            /\ narrow'[op'[t].made] = Str!Buf(t).text \/ Str!Buf(t).mixed
      BY <1>2 DEF StrMade, Str!At, Str!Buf
  <2>1. CASE t = s BY <2>1, <1>3, <1>4, <1>5
  <2>2. CASE t # s
    <3>1. op'[t] = op[t] /\ (op[t].made # None <=> op[t].pc = "publish")
          BY <1>4, <2>2 DEF StrInv, StrMade, Str!At
    <3>2. ASSUME op[t].made # None PROVE op[t].made \in Narrows
          BY <3>2 DEF StrInv, StrTypes, StrOp, StrNarrowOrNone
    <3>3. QED BY <1>5, <1>6, <3>1, <3>2 DEF StrInv, StrMade
  <2>3. QED BY <2>1, <2>2
<1>11. StrUnshared' BY <1>2, <1>3, <1>4, <1>6 DEF StrInv, StrUnshared
<1>12. StrHeld' BY <1>2, <1>3, <1>4 DEF StrInv, StrHeld, Str!At, Str!Buf
<1>13. QED BY <1>7, <1>8, <1>9, <1>10, <1>11, <1>12 DEF StrInv

(* The compare-and-exchange: the text that was made is published, or freed *)
(* because there is one.                                                   *)
LEMMA StrCStrPublishPreserves ==
  ASSUME StrInv, NEW s \in Strings, Str!CStrPublish(s)
  PROVE  StrInv'
<1> DEFINE b0 == pData[s]
           x == [op[s] EXCEPT !.pc = "load", !.made = None]
           made == op[s].made
<1>1. /\ op[s].pc = "publish" /\ made # None /\ made \in Narrows /\ held[s] = None
      /\ narrow[made] # None /\ (narrow[made] = buf[b0].text \/ buf[b0].mixed)
      /\ UNCHANGED <<pData, own, held, dirtied>>
      BY DEF StrInv, StrTypes, StrOp, StrNarrowOrNone, StrMade, StrHeld, Str!CStrPublish, Str!At,
         Str!Buf
<1>2. /\ b0 \in Bufs /\ buf[b0] # None /\ buf[b0] \in StrBuffer BY StrCounts
<1>3. /\ x \in StrOp /\ x.pc = "load" /\ x.made = None
      BY DEF StrInv, StrTypes, StrOp, StrSteps, StrNarrowOrNone
<1>4. op' = [op EXCEPT ![s] = x] BY DEF Str!CStrPublish
<1>5. \A t \in Strings : op'[t] = IF t = s THEN x ELSE op[t] BY <1>4 DEF StrInv, StrTypes
<1> DEFINE n == IF buf[b0].narrow = None THEN made ELSE buf[b0].narrow
           y == [buf[b0] EXCEPT !.narrow = n]
           freed == IF buf[b0].narrow = None THEN None ELSE made
<1>6. buf' = [buf EXCEPT ![b0] = y] /\ Str!FreeNarrow(freed)
      BY <1>2 DEF Str!CStrPublish, Str!Publish, Str!Buf, StrBuffer
<1>7. /\ y \in StrBuffer /\ y.narrow = n /\ y.text = buf[b0].text /\ y.mixed = buf[b0].mixed
      /\ y.ref = buf[b0].ref /\ n \in Narrows /\ n # None /\ freed \in StrNarrowOrNone
      BY <1>1, <1>2 DEF StrBuffer, StrNarrowOrNone
<1>8. \A b \in Bufs : buf'[b] = IF b = b0 THEN y ELSE buf[b] BY <1>6 DEF StrInv, StrTypes
<1>9. /\ narrow' \in [Narrows -> Str!AllTexts \cup {None}]
      /\ \A m \in Narrows : m # freed => narrow'[m] = narrow[m]
      BY <1>6, <1>7, StrFreed DEF StrInv
<1>10. /\ n # freed /\ narrow[n] # None /\ (narrow[n] = buf[b0].text \/ buf[b0].mixed)
       /\ \A b \in Bufs : buf[b] # None /\ b # b0 => buf[b].narrow # n
             /\ (buf[b].narrow # None => buf[b].narrow # freed)
       /\ \A t \in Strings : t # s /\ op[t].made # None => op[t].made # n /\ op[t].made # freed
       /\ buf[b0].narrow # None => n = buf[b0].narrow
       BY <1>1, <1>2 DEF StrInv, StrPublished, StrUnshared
<1>11. y # None BY <1>7, StrAssumption DEF StrBuffer, StrNarrowOrNone
<1>12. \A t \in Strings : /\ pData[t] \in Bufs /\ buf[pData[t]] # None
                          /\ pData[t] # b0 => buf'[pData[t]] = buf[pData[t]]
                          /\ pData[t] = b0 => buf'[pData[t]] = y
       BY <1>8 DEF StrInv, StrTypes, StrCounted
<1> HIDE DEF x, y, n, freed, made
<1>13. StrTypes'
  <2>1. buf' \in [Bufs -> StrBuffer \cup {None}] BY <1>6, <1>7 DEF StrInv, StrTypes
  <2>2. op' \in [Strings -> StrOp] BY <1>3, <1>4 DEF StrInv, StrTypes
  <2>3. QED BY <1>1, <1>9, <2>1, <2>2 DEF StrInv, StrTypes
<1>14. StrCounted'
  <2>1. \A b \in Bufs : /\ buf'[b] # None <=> buf[b] # None
                        /\ buf'[b] # None => buf'[b].ref = buf[b].ref
        BY <1>2, <1>7, <1>8, <1>11
  <2>2. \A b \in Bufs : StrUsers(b)' = StrUsers(b) BY <1>1 DEF StrUsers
  <2>3. Empty \in Bufs /\ \A t \in Strings : pData[t] \in Bufs
        BY StrAssumption DEF StrInv, StrTypes
  <2>4. QED BY <1>1, <2>1, <2>2, <2>3 DEF StrInv, StrCounted
<1>15. StrTexts' BY <1>1, <1>7, <1>12 DEF StrInv, StrTexts, Str!Buf
<1>16. StrPublished'
  <2> SUFFICES ASSUME NEW b \in Bufs, buf'[b] # None, buf'[b].narrow # None
               PROVE  /\ narrow'[buf'[b].narrow] # None
                      /\ narrow'[buf'[b].narrow] = buf'[b].text \/ buf'[b].mixed
      BY DEF StrPublished
  <2>1. CASE b = b0 BY <2>1, <1>7, <1>8, <1>9, <1>10
  <2>2. CASE b # b0
    <3>1. buf'[b] = buf[b] /\ buf[b].narrow \in Narrows /\ buf[b].narrow # freed
          BY <2>2, <1>8, <1>10 DEF StrInv, StrTypes, StrBuffer, StrNarrowOrNone
    <3>2. QED BY <3>1, <1>9 DEF StrInv, StrPublished
  <2>3. QED BY <2>1, <2>2
<1>17. StrMade'
  <2> SUFFICES ASSUME NEW t \in Strings
               PROVE  /\ op'[t].made # None <=> op'[t].pc = "publish"
                      /\ op'[t].made # None =>
                            /\ narrow'[op'[t].made] # None
                            /\ narrow'[op'[t].made] = buf'[pData[t]].text \/ buf'[pData[t]].mixed
      BY <1>1 DEF StrMade, Str!At, Str!Buf
  <2>1. CASE t = s BY <2>1, <1>3, <1>5
  <2>2. CASE t # s
    <3>1. op'[t] = op[t] /\ (op[t].made # None <=> op[t].pc = "publish")
          BY <1>5, <2>2 DEF StrInv, StrMade, Str!At
    <3>2. ASSUME op[t].made # None PROVE op[t].made \in Narrows /\ op[t].made # freed
          BY <3>2, <2>2, <1>10 DEF StrInv, StrTypes, StrOp, StrNarrowOrNone
    <3>3. buf'[pData[t]].text = buf[pData[t]].text /\ buf'[pData[t]].mixed = buf[pData[t]].mixed
          BY <1>7, <1>12
    <3>4. QED BY <1>9, <3>1, <3>2, <3>3 DEF StrInv, StrMade, Str!Buf
  <2>3. QED BY <2>1, <2>2
<1>18. StrUnshared'
  <2>1. \A b \in Bufs : buf'[b] # None => \/ b = b0 /\ buf'[b].narrow = n
                                          \/ b # b0 /\ buf[b] # None
                                                /\ buf'[b].narrow = buf[b].narrow
                                             /\ buf[b].narrow # n
        BY <1>7, <1>8, <1>10
  <2>2. \A t \in Strings : op'[t].made # None =>
           t # s /\ op'[t].made = op[t].made /\ op[t].made # n
        BY <1>3, <1>5, <1>10
  <2>3. QED BY <2>1, <2>2 DEF StrInv, StrUnshared
<1>19. StrHeld'
  <2> SUFFICES ASSUME NEW t \in Strings
               PROVE  /\ held[t] # None => op'[t].pc = "idle"
                                            /\ (held[t] = buf'[pData[t]].narrow \/ dirtied[t])
                      /\ op'[t].pc = "load" => buf'[pData[t]].narrow # None \/ dirtied[t]
      BY <1>1 DEF StrHeld, Str!At, Str!Buf
  <2>1. CASE t = s BY <2>1, <1>1, <1>7, <1>12
  <2>2. CASE t # s
    <3>1. op'[t] = op[t] BY <2>2, <1>5
    <3>2. /\ held[t] # None => op[t].pc = "idle" /\ (held[t] = buf[pData[t]].narrow \/ dirtied[t])
          /\ op[t].pc = "load" => buf[pData[t]].narrow # None \/ dirtied[t]
          BY DEF StrInv, StrHeld, Str!At, Str!Buf
    <3>3. buf'[pData[t]].narrow = buf[pData[t]].narrow \/ (pData[t] = b0 /\ buf[b0].narrow = None)
          BY <1>7, <1>10, <1>12
    <3>4. CASE buf'[pData[t]].narrow = buf[pData[t]].narrow BY <3>1, <3>2, <3>4
    <3>5. CASE pData[t] = b0 /\ buf[b0].narrow = None
          BY <3>1, <3>2, <3>5, <1>7, <1>12
    <3>6. QED BY <3>3, <3>4, <3>5
  <2>3. QED BY <2>1, <2>2
<1>20. QED BY <1>13, <1>14, <1>15, <1>16, <1>17, <1>18, <1>19 DEF StrInv

(* String s leaves its buffer, which dies with its last reference, for the *)
(* buffer b1, which is new or has one reference more.                      *)
LEMMA StrMovePreserves ==
  ASSUME StrInv, NEW s \in Strings, NEW b1 \in Bufs, b1 # pData[s], NEW y \in StrBuffer,
         pData' = [pData EXCEPT ![s] = b1],
         buf' = [Str!AfterRelease(pData[s]) EXCEPT ![b1] = y],
         Str!FreeNarrow(Str!NarrowOfDead(pData[s])),
         \/ buf[b1] = None /\ y.ref = 1 /\ y.narrow = None
         \/ /\ buf[b1] # None /\ y.ref = buf[b1].ref + 1
            /\ y.text = buf[b1].text /\ y.narrow = buf[b1].narrow /\ y.mixed = buf[b1].mixed,
         own' = [own EXCEPT ![s] = y.text],
         NEW x \in StrOp, op' = [op EXCEPT ![s] = x], x.made = None,
             x.pc \notin {"load", "publish"},
         ~Str!At(s, "publish"), held' = [held EXCEPT ![s] = None], UNCHANGED dirtied
  PROVE  StrInv'
<1> DEFINE b0 == pData[s]
           dies == buf[b0].ref = 1
           freed == IF dies THEN buf[b0].narrow ELSE None
<1>1. /\ b0 \in Bufs /\ buf[b0] # None /\ buf[b0] \in StrBuffer /\ y # None
      /\ dies => b0 # Empty /\ \A t \in Strings : pData[t] = b0 => t = s
      BY StrCounts, StrAssumption DEF StrBuffer, StrNarrowOrNone
<1> DEFINE less == [buf[b0] EXCEPT !.ref = @ - 1]
<1>2. ~dies => less \in StrBuffer BY <1>1 DEF StrBuffer
<1>3. buf' = [[buf EXCEPT ![b0] = IF dies THEN None ELSE less] EXCEPT ![b1] = y]
  <2>1. Str!AfterRelease(pData[s]) = [buf EXCEPT ![b0] = IF dies THEN None ELSE less]
        BY DEF Str!AfterRelease, Str!Dies
  <2>2. QED BY <2>1
<1>4. \A b \in Bufs : buf'[b] = IF b = b1 THEN y ELSE IF b # b0 THEN buf[b]
                                ELSE IF dies THEN None ELSE less
      BY <1>3 DEF StrInv, StrTypes
<1>5. /\ less.text = buf[b0].text /\ less.narrow = buf[b0].narrow /\ less.mixed = buf[b0].mixed
      /\ less.ref = buf[b0].ref - 1
      BY <1>1 DEF StrBuffer
<1>6. freed \in StrNarrowOrNone /\ Str!FreeNarrow(freed)
      BY <1>1 DEF Str!NarrowOfDead, Str!Dies, StrBuffer, StrNarrowOrNone
<1>7. /\ narrow' \in [Narrows -> Str!AllTexts \cup {None}]
      /\ \A m \in Narrows : m # freed => narrow'[m] = narrow[m]
      BY <1>6, StrFreed DEF StrInv
<1>8. \A t \in Strings : /\ pData'[t] = IF t = s THEN b1 ELSE pData[t]
                         /\ op'[t] = IF t = s THEN x ELSE op[t]
                         /\ own'[t] = IF t = s THEN y.text ELSE own[t]
                         /\ held'[t] = IF t = s THEN None ELSE held[t]
      BY DEF StrInv, StrTypes
<1>9. ~dies => less # None BY <1>2, StrAssumption DEF StrBuffer, StrNarrowOrNone
<1> HIDE DEF dies, freed, less, b0
(* What is left of a buffer.                                               *)
<1>10. \A b \in Bufs : buf'[b] # None /\ b # b1 =>
          /\ buf[b] # None /\ (b = b0 => ~dies)
          /\ buf'[b].text = buf[b].text /\ buf'[b].narrow = buf[b].narrow
                /\ buf'[b].mixed = buf[b].mixed
       BY <1>1, <1>4, <1>5
<1>11. /\ buf'[b1] = y
       /\ y.narrow # None => buf[b1] # None /\ y.narrow = buf[b1].narrow /\ y.text = buf[b1].text
                             /\ y.mixed = buf[b1].mixed
       BY <1>4
(* The others keep their buffers.                                          *)
<1>12. \A t \in Strings : t # s =>
          /\ pData'[t] = pData[t] /\ pData[t] \in Bufs /\ buf[pData[t]] # None
                /\ buf'[pData[t]] # None
          /\ buf'[pData[t]].text = buf[pData[t]].text /\ buf'[pData[t]].mixed = buf[pData[t]].mixed
          /\ buf'[pData[t]].narrow = buf[pData[t]].narrow
  <2> SUFFICES ASSUME NEW t \in Strings, t # s
               PROVE  /\ pData'[t] = pData[t] /\ pData[t] \in Bufs /\ buf[pData[t]] # None
                      /\ buf'[pData[t]] # None
                      /\ buf'[pData[t]].text = buf[pData[t]].text
                      /\ buf'[pData[t]].mixed = buf[pData[t]].mixed
                      /\ buf'[pData[t]].narrow = buf[pData[t]].narrow
      OBVIOUS
  <2>1. pData'[t] = pData[t] /\ pData[t] \in Bufs /\ buf[pData[t]] # None
        BY <1>8 DEF StrInv, StrTypes, StrCounted
  <2>2. CASE pData[t] = b1 BY <2>1, <2>2, <1>1, <1>4
  <2>3. CASE pData[t] # b1 /\ pData[t] = b0 BY <2>1, <2>3, <1>1, <1>4, <1>5, <1>9
  <2>4. CASE pData[t] # b1 /\ pData[t] # b0 BY <2>1, <2>4, <1>4
  <2>5. QED BY <2>2, <2>3, <2>4, <2>1
<1>13. \A b \in Bufs : b # b1 /\ buf'[b] # None /\ buf[b].narrow # None => buf[b].narrow # freed
       BY <1>1, <1>10 DEF freed, StrInv, StrUnshared
<1>14. buf[b1] # None /\ buf[b1].narrow # None => buf[b1].narrow # freed
       BY <1>1 DEF freed, b0, StrInv, StrUnshared
<1>15. StrTypes'
  <2>1. buf' \in [Bufs -> StrBuffer \cup {None}] BY <1>1, <1>2, <1>3 DEF StrInv, StrTypes
  <2>2. pData' \in [Strings -> Bufs] /\ op' \in [Strings -> StrOp] BY DEF StrInv, StrTypes
  <2>3. own' \in [Strings -> Str!AllTexts] /\ held' \in [Strings -> StrNarrowOrNone \cup {"null"}]
        BY DEF StrInv, StrTypes, StrBuffer, StrNarrowOrNone
  <2>4. QED BY <2>1, <2>2, <2>3, <1>7 DEF StrInv, StrTypes
<1>16. StrCounted'
  <2>1. ASSUME NEW b \in Bufs, buf'[b] # None
        PROVE  buf'[b].ref = Cardinality(StrUsers(b)') + IF b = Empty THEN 1 ELSE 0
    <3>1. CASE b = b1
      <4>1. StrUsers(b)' = StrUsers(b) \cup {s} /\ s \notin StrUsers(b)
            BY <3>1, <1>8 DEF StrUsers
      <4>2. IsFiniteSet(StrUsers(b)) /\ Cardinality(StrUsers(b)) \in Nat
            BY FS_Subset, FS_CardinalityType, StrAssumption DEF StrUsers
      <4>3. Cardinality(StrUsers(b)') = Cardinality(StrUsers(b)) + 1 BY <4>1, <4>2, FS_AddElement
      <4>4. CASE buf[b1] = None
        <5>1. StrUsers(b) = {} /\ b # Empty BY <3>1, <4>4 DEF StrInv, StrCounted, StrUsers
        <5>2. QED BY <5>1, <3>1, <4>3, <4>4, <1>11, FS_EmptySet
      <4>5. CASE buf[b1] # None
        <5>1. buf[b].ref = Cardinality(StrUsers(b)) + IF b = Empty THEN 1 ELSE 0
              BY <3>1, <4>5 DEF StrInv, StrCounted
        <5>2. QED BY <5>1, <3>1, <4>2, <4>3, <4>5, <1>11
      <4>6. QED BY <4>4, <4>5
    <3>2. CASE b = b0 /\ b # b1
      <4>1. StrUsers(b)' = StrUsers(b) \ {s} BY <3>2, <1>8 DEF StrUsers
      <4>2. IsFiniteSet(StrUsers(b)) /\ s \in StrUsers(b) /\ Cardinality(StrUsers(b)) \in Nat \ {0}
            BY <3>2, StrCounts DEF b0
      <4>3. Cardinality(StrUsers(b)') = Cardinality(StrUsers(b)) - 1 BY <4>1, <4>2, FS_RemoveElement
      <4>4. buf[b].ref = Cardinality(StrUsers(b)) + IF b = Empty THEN 1 ELSE 0
            BY <1>1, <3>2 DEF StrInv, StrCounted
      <4>5. buf'[b].ref = buf[b].ref - 1 BY <3>2, <1>4, <1>5, <2>1
      <4>6. QED BY <4>2, <4>3, <4>4, <4>5
    <3>3. CASE b # b0 /\ b # b1
      <4>1. StrUsers(b)' = StrUsers(b) BY <3>3, <1>8 DEF StrUsers, b0
      <4>2. QED BY <3>3, <4>1, <2>1, <1>4 DEF StrInv, StrCounted
    <3>4. QED BY <3>1, <3>2, <3>3
  <2>2. buf'[Empty] # None
        BY <1>1, <1>4, <1>9, StrAssumption DEF StrInv, StrCounted
  <2>3. \A t \in Strings : buf'[pData'[t]] # None BY <1>1, <1>8, <1>11, <1>12
  <2>4. QED BY <2>1, <2>2, <2>3 DEF StrCounted
<1>17. StrTexts'
  <2> SUFFICES ASSUME NEW t \in Strings
               PROVE  buf'[pData'[t]].text = own'[t] \/ buf'[pData'[t]].mixed
      BY DEF StrTexts, Str!Buf
  <2>1. CASE t = s BY <2>1, <1>8, <1>11
  <2>2. CASE t # s BY <2>2, <1>8, <1>12 DEF StrInv, StrTexts, Str!Buf
  <2>3. QED BY <2>1, <2>2
<1>18. StrPublished'
  <2> SUFFICES ASSUME NEW b \in Bufs, buf'[b] # None, buf'[b].narrow # None
               PROVE  /\ narrow'[buf'[b].narrow] # None
                      /\ narrow'[buf'[b].narrow] = buf'[b].text \/ buf'[b].mixed
      BY DEF StrPublished
  <2>1. /\ buf[b] # None /\ buf'[b].narrow = buf[b].narrow /\ buf'[b].text = buf[b].text
        /\ buf'[b].mixed = buf[b].mixed
        BY <1>10, <1>11
  <2>2. buf[b].narrow # freed BY <2>1, <1>13, <1>14
  <2>3. buf[b].narrow \in Narrows BY <2>1 DEF StrInv, StrTypes, StrBuffer, StrNarrowOrNone
  <2>4. QED BY <2>1, <2>2, <2>3, <1>7 DEF StrInv, StrPublished
<1>19. StrMade'
  <2> SUFFICES ASSUME NEW t \in Strings
               PROVE  /\ op'[t].made # None <=> op'[t].pc = "publish"
                      /\ op'[t].made # None =>
                            /\ narrow'[op'[t].made] # None
                            /\ narrow'[op'[t].made] = buf'[pData'[t]].text \/ buf'[pData'[t]].mixed
      BY DEF StrMade, Str!At, Str!Buf
  <2>1. CASE t = s BY <2>1, <1>8
  <2>2. CASE t # s
    <3>1. op'[t] = op[t] /\ (op[t].made # None <=> op[t].pc = "publish")
          BY <1>8, <2>2 DEF StrInv, StrMade, Str!At
    <3>2. ASSUME op[t].made # None PROVE op[t].made \in Narrows /\ op[t].made # freed
          BY <1>1, <3>2 DEF freed, StrInv, StrTypes, StrUnshared, StrOp, StrNarrowOrNone
    <3>3. QED BY <1>7, <1>12, <2>2, <3>1, <3>2 DEF StrInv, StrMade, Str!Buf
  <2>3. QED BY <2>1, <2>2
<1>20. StrUnshared'
  <2>1. \A b \in Bufs : buf'[b] # None /\ buf'[b].narrow # None =>
           buf[b] # None /\ buf'[b].narrow = buf[b].narrow
        BY <1>10, <1>11
  <2>2. QED BY <2>1, <1>8 DEF StrInv, StrUnshared
<1>21. StrHeld'
  <2> SUFFICES ASSUME NEW t \in Strings
               PROVE  /\ held'[t] # None => op'[t].pc = "idle"
                                            /\ (held'[t] = buf'[pData'[t]].narrow \/ dirtied[t])
                      /\ op'[t].pc = "load" => buf'[pData'[t]].narrow # None \/ dirtied[t]
      BY DEF StrHeld, Str!At, Str!Buf
  <2>1. CASE t = s BY <2>1, <1>8
  <2>2. CASE t # s
    <3>1. /\ op'[t] = op[t] /\ held'[t] = held[t] /\ pData'[t] = pData[t]
          /\ buf'[pData[t]].narrow = buf[pData[t]].narrow
          BY <2>2, <1>8, <1>12
    <3>2. QED BY <3>1 DEF StrInv, StrHeld, Str!At, Str!Buf
  <2>3. QED BY <2>1, <2>2
<1>22. QED BY <1>15, <1>16, <1>17, <1>18, <1>19, <1>20, <1>21 DEF StrInv

LEMMA StrDetachPreserves ==
  ASSUME StrInv, NEW s \in Strings, Str!Detach(s)
  PROVE  StrInv'
<1>1. PICK b \in Bufs : /\ buf[b] = None
                        /\ buf' = [Str!AfterRelease(pData[s]) EXCEPT ![b] = Str!Buffer(op[s].text, 1)]
                        /\ pData' = [pData EXCEPT ![s] = b]
      BY DEF Str!Detach
<1> DEFINE y == Str!Buffer(op[s].text, 1)
           x == IF op[s].text = NoText THEN [op[s] EXCEPT !.pc = "dirty"] ELSE Str!Idle
<1>2. op[s] \in StrOp /\ op[s].pc = "detach" /\ op[s].text \in Str!AllTexts
      BY DEF StrInv, StrTypes, StrOp, Str!Detach, Str!At
<1>3. op[s].made = None /\ held[s] = None /\ ~Str!At(s, "publish")
      BY <1>2 DEF StrInv, StrMade, StrHeld, Str!At
<1>4. y \in StrBuffer /\ y.ref = 1 /\ y.narrow = None /\ y.text = op[s].text
      BY <1>2 DEF StrBuffer, StrNarrowOrNone, Str!Buffer
<1>5. x \in StrOp /\ x.made = None /\ x.pc \in {"dirty", "idle"}
      BY <1>2, <1>3, StrIdle DEF StrOp, StrSteps
<1>6. /\ Str!FreeNarrow(Str!NarrowOfDead(pData[s])) /\ own' = [own EXCEPT ![s] = y.text]
      /\ op' = [op EXCEPT ![s] = x] /\ UNCHANGED <<held, dirtied>>
      BY <1>4 DEF Str!Detach, Str!Goto, Str!Return
<1>7. held' = [held EXCEPT ![s] = None] BY <1>3, <1>6 DEF StrInv, StrTypes
<1>8. b # pData[s] BY <1>1, StrCounts
<1> HIDE DEF x, y
<1>9. buf' = [Str!AfterRelease(pData[s]) EXCEPT ![b] = y] BY <1>1 DEF y
<1>10. QED BY <1>1, <1>3, <1>4, <1>5, <1>6, <1>7, <1>8, <1>9, StrMovePreserves

LEMMA StrAssignPreserves ==
  ASSUME StrInv, NEW s \in Strings, NEW b \in Bufs, Str!Assign(s, b)
  PROVE  StrInv'
<1> DEFINE y == [buf[b] EXCEPT !.ref = @ + 1]
<1>1. /\ op[s] \in StrOp /\ op[s].pc = "idle" /\ b # pData[s] /\ pData[s] \in Bufs
      BY DEF StrInv, StrTypes, Str!Assign, Str!At
<1>2. buf[b] # None /\ buf[b] \in StrBuffer
      BY DEF StrInv, StrTypes, StrCounted, Str!Assign
<1>3. /\ y \in StrBuffer /\ y.ref = buf[b].ref + 1 /\ y.text = buf[b].text
      /\ y.narrow = buf[b].narrow /\ y.mixed = buf[b].mixed
      BY <1>2 DEF StrBuffer
<1>4. op[s].made = None /\ ~Str!At(s, "publish") BY <1>1 DEF StrInv, StrMade, Str!At
<1>5. Str!AfterRelease(pData[s])[b] = buf[b]
      BY <1>1 DEF StrInv, StrTypes, Str!AfterRelease
<1>6. /\ pData' = [pData EXCEPT ![s] = b] /\ buf' = [Str!AfterRelease(pData[s]) EXCEPT ![b] = y]
      /\ Str!FreeNarrow(Str!NarrowOfDead(pData[s])) /\ own' = [own EXCEPT ![s] = y.text]
      /\ held' = [held EXCEPT ![s] = None] /\ UNCHANGED <<op, dirtied>>
      BY <1>3, <1>5 DEF Str!Assign
<1>7. op' = [op EXCEPT ![s] = op[s]] BY <1>6 DEF StrInv, StrTypes
<1> HIDE DEF y
<1>8. QED BY <1>1, <1>2, <1>3, <1>4, <1>6, <1>7, StrMovePreserves

LEMMA StrStepPreserves == ASSUME StrInv, [Str!Next]_Str!vars PROVE StrInv'
<1>1. ASSUME NEW s \in Strings, Str!Write(s) PROVE StrInv'
      BY <1>1, StrDirtiesPreserves, StrGoesPreserves, StrWritesPreserve, StrDetachPreserves
         DEF Str!Write
<1>2. ASSUME NEW s \in Strings, Str!CStr(s) PROVE StrInv'
      BY <1>2, StrGoesPreserves, StrConvertPreserves, StrCStrPublishPreserves DEF Str!CStr
<1>3. ASSUME NEW s \in Strings, NEW b \in Bufs, Str!Assign(s, b) PROVE StrInv'
      BY <1>3, StrAssignPreserves
<1>4. CASE UNCHANGED Str!vars
      BY <1>4 DEF Str!vars, StrInv, StrTypes, StrCounted, StrUsers, StrTexts, StrPublished, StrMade,
                  StrUnshared, StrHeld, Str!Buf, Str!At
<1>5. QED BY <1>1, <1>2, <1>3, <1>4 DEF Str!Next

LEMMA StrInitially == Init => StrInv
BY StrInitHolds DEF Init

LEMMA StrPreserved == StrInv /\ [Next]_vars => StrInv'
<1>1. [Next]_vars => [Str!Next]_Str!vars
      BY DEF Next, CgiStep, RpcStep, EventStep, LooperStep, StrStep, NetStep, LinkStep,
             vars, strVars, Str!vars
<1>2. QED BY <1>1, StrStepPreserves

(* A String keeps its text, in a buffer that is not freed, whatever threads *)
(* with Strings that shared the buffer do at the same time.                *)
THEOREM TextTheorem == Spec => []TextIsOwn
<1>1. StrInv => TextIsOwn
      BY DEF StrInv, StrCounted, StrTexts, TextIsOwn, Str!TextIsOwn, Str!Buf
<1>2. QED BY <1>1, StrInitially, StrPreserved, PTL DEF Spec

(* The narrow text that c_str() returned stays published and is the text   *)
(* of the String, however many sharers call c_str() and leave.             *)
THEOREM NarrowTheorem == Spec => []NarrowIsValid
<1>1. StrInv => NarrowIsValid
  <2> SUFFICES ASSUME StrInv, NEW s \in Strings, held[s] # None, ~dirtied[s], ~Str!Buf(s).mixed
               PROVE  held[s] # "null" /\ narrow[held[s]] = own[s] /\ Str!Buf(s).narrow = held[s]
      BY DEF NarrowIsValid, Str!NarrowIsValid
  <2>1. held[s] = Str!Buf(s).narrow BY DEF StrInv, StrHeld
  <2>2. /\ Str!Buf(s) # None /\ Str!Buf(s) \in StrBuffer /\ Str!Buf(s) = buf[pData[s]]
        BY StrCounts DEF Str!Buf
  <2>3. Str!Buf(s).text = own[s] BY DEF StrInv, StrTexts
  <2>4. narrow[held[s]] = Str!Buf(s).text
        BY <2>1, <2>2, StrCounts DEF StrInv, StrPublished
  <2>5. held[s] # "null" BY <2>1, <2>2, StrAssumption DEF StrBuffer, StrNarrowOrNone
  <2>6. QED BY <2>1, <2>3, <2>4, <2>5
<1>2. QED BY <1>1, StrInitially, StrPreserved, PTL DEF Spec

-----------------------------------------------------------------------------
(* Event: the event that is emulated with pthreads.                        *)

(* Who has timed out has asked for a timeout, and who is not in lock() has *)
(* none.                                                                   *)
EventTimedOnly ==
    /\ \A t \in Threads : waiter[t] = "timedOut" => timed[t]
    /\ \A t \in Threads : waiter[t] = "idle" => ~timed[t]

EventInv == Event!TypeOK /\ EventTimedOnly

(* The wake-ups change who is blocked and nothing else.                    *)
LEMMA EventWakingOnlyUnblocks ==
  ASSUME Event!TypeOK, Event!WakeAll \/ Event!WakeOne
  PROVE  /\ waiter' \in [Threads -> {"idle", "called", "blocked", "woken", "timedOut"}]
         /\ \A t \in Threads : waiter'[t] = waiter[t]
               \/ (waiter[t] = "blocked" /\ waiter'[t] = "woken")
BY DEF Event!TypeOK, Event!WakeAll, Event!WakeOne, Event!Blocked

(* A step of lock() keeps the invariant.                                   *)
LEMMA EventLockPreserves ==
  ASSUME EventInv, NEW t \in Threads, Event!Lock(t)
  PROVE  EventInv'
<1> USE DEF EventInv, Event!TypeOK, EventTimedOnly
<1>1. CASE Event!Call(t) BY <1>1 DEF Event!Call
<1>2. CASE Event!TestSignaled(t) BY <1>2 DEF Event!TestSignaled
<1>3. CASE Event!WakeSpuriously(t) BY <1>3 DEF Event!WakeSpuriously
<1>4. CASE Event!TimeOut(t) BY <1>4 DEF Event!TimeOut
<1>5. CASE Event!ReturnFalse(t) BY <1>5 DEF Event!ReturnFalse
<1>6. QED BY <1>1, <1>2, <1>3, <1>4, <1>5 DEF Event!Lock

LEMMA EventStepPreserves == EventInv /\ [Event!Next]_Event!vars => EventInv'
<1> SUFFICES ASSUME EventInv, [Event!Next]_Event!vars PROVE EventInv'
    OBVIOUS
<1>1. CASE Event!Set
      BY <1>1, EventWakingOnlyUnblocks DEF Event!Set, EventInv, Event!TypeOK, EventTimedOnly
<1>2. CASE Event!Reset BY <1>2 DEF Event!Reset, EventInv, Event!TypeOK, EventTimedOnly
<1>3. CASE \E t \in Threads : Event!Lock(t) BY <1>3, EventLockPreserves
<1>4. CASE UNCHANGED Event!vars BY <1>4 DEF Event!vars, EventInv, Event!TypeOK, EventTimedOnly
<1>5. QED BY <1>1, <1>2, <1>3, <1>4 DEF Event!Next

(* A step of lock() is a wait that begins, a pass, a wait that is given up, *)
(* or nothing that the abstract event shows.                               *)
LEMMA EventLockImplements ==
  ASSUME EventInv, NEW t \in Threads, Event!Lock(t)
  PROVE  [Event!Abstract!Next]_Event!Abstract!vars
<1> USE DEF EventInv, Event!TypeOK, EventTimedOnly, Event!Abstract!Next, Event!Abstract!vars
<1>1. CASE Event!Call(t)
  <2>1. Event!Abstract!Wait(t) BY <1>1 DEF Event!Call, Event!Abstract!Wait
  <2>2. QED BY <2>1
<1>2. CASE Event!TestSignaled(t)
  <2>1. CASE signaled
    <3>1. Event!Abstract!Pass(t) BY <1>2, <2>1 DEF Event!TestSignaled, Event!Abstract!Pass
    <3>2. QED BY <3>1
  <2>2. CASE ~signaled BY <1>2, <2>2 DEF Event!TestSignaled
  <2>3. QED BY <2>1, <2>2
<1>3. CASE Event!WakeSpuriously(t) BY <1>3 DEF Event!WakeSpuriously
<1>4. CASE Event!TimeOut(t) BY <1>4 DEF Event!TimeOut
<1>5. CASE Event!ReturnFalse(t)
  <2>1. Event!Abstract!GiveUp(t) BY <1>5 DEF Event!ReturnFalse, Event!Abstract!GiveUp
  <2>2. QED BY <2>1
<1>6. QED BY <1>1, <1>2, <1>3, <1>4, <1>5 DEF Event!Lock

LEMMA EventStepImplements ==
  EventInv /\ [Event!Next]_Event!vars => [Event!Abstract!Next]_Event!Abstract!vars
<1> SUFFICES ASSUME EventInv, [Event!Next]_Event!vars
    PROVE [Event!Abstract!Next]_Event!Abstract!vars
    OBVIOUS
<1>1. CASE Event!Set
  <2>1. Event!Abstract!Set
        BY <1>1, EventWakingOnlyUnblocks DEF Event!Set, Event!Abstract!Set, EventInv, Event!TypeOK
  <2>2. QED BY <2>1 DEF Event!Abstract!Next
<1>2. CASE Event!Reset
  <2>1. Event!Abstract!Reset BY <1>2 DEF Event!Reset, Event!Abstract!Reset
  <2>2. QED BY <2>1 DEF Event!Abstract!Next
<1>3. CASE \E t \in Threads : Event!Lock(t) BY <1>3, EventLockImplements
<1>4. CASE UNCHANGED Event!vars BY <1>4 DEF Event!vars, Event!Abstract!vars
<1>5. QED BY <1>1, <1>2, <1>3, <1>4 DEF Event!Next

LEMMA EventInitially == Init => EventInv /\ Event!Abstract!Init
<1>1. Event!Init => EventInv BY DEF Event!Init, EventInv, Event!TypeOK, EventTimedOnly
<1>2. Event!Init => Event!Abstract!Init BY DEF Event!Init, Event!Abstract!Init
<1>3. QED BY <1>1, <1>2 DEF Init

LEMMA EventPreserved ==
  EventInv /\ [Next]_vars => EventInv' /\ [Event!Abstract!Next]_Event!Abstract!vars
<1>1. [Next]_vars => [Event!Next]_Event!vars
      BY DEF Next, CgiStep, RpcStep, EventStep, LooperStep, StrStep, NetStep, LinkStep,
             vars, eventVars, Event!vars
<1>2. QED BY <1>1, EventStepPreserves, EventStepImplements

(* The emulation does only what an event may do: nobody passes unless it is *)
(* signaled, one thread passes for one Set() of an event that is not       *)
(* manual, and only a call with a timeout returns without.                 *)
THEOREM EmulatesEvent == Spec => Event!Abstract!Init /\ [][Event!Abstract!Next]_Event!Abstract!vars
<1>1. QED BY EventInitially, EventPreserved, PTL DEF Spec

-----------------------------------------------------------------------------
(* The types of all components.                                            *)

(* A reference count is at most the number of Strings, and one more for    *)
(* the buffer of the empty String.                                         *)
LEMMA StrInvTypes == StrInv => Str!TypeOK
<1> SUFFICES ASSUME StrInv PROVE Str!TypeOK
    OBVIOUS
<1> USE DEF StrInv, StrTypes
<1>1. ASSUME NEW b \in Bufs, buf[b] # None
      PROVE  /\ buf[b].ref = Str!Cardinality({s \in Strings : pData[s] = b}) +
               IF b = Empty THEN 1 ELSE 0
             /\ buf[b] \in [ref : 1..(Str!Cardinality(Strings) + 1), text : Str!AllTexts,
                           narrow : Narrows \cup {None}, mixed : BOOLEAN]
  <2>1. buf[b] \in StrBuffer BY <1>1
  <2>2. buf[b].ref = Cardinality(StrUsers(b)) + IF b = Empty THEN 1 ELSE 0
        BY <1>1 DEF StrCounted
  <2>3. StrUsers(b) \subseteq Strings BY DEF StrUsers
  <2>4. /\ Cardinality(StrUsers(b)) \in Nat /\ Cardinality(Strings) \in Nat
        /\ Cardinality(StrUsers(b)) <= Cardinality(Strings)
        BY <2>3, StrAssumption, FS_Subset, FS_CardinalityType
  <2>5. buf[b].ref \in 1..(Cardinality(Strings) + 1)
    <3>1. buf[b].ref \in Nat \ {0} BY <2>1 DEF StrBuffer
    <3>2. QED BY <3>1, <2>2, <2>4
  <2>6. buf[b] \in [ref : 1..(Cardinality(Strings) + 1), text : Str!AllTexts,
                    narrow : Narrows \cup {None}, mixed : BOOLEAN]
        BY <2>1, <2>5 DEF StrBuffer, StrNarrowOrNone
  <2>7. QED BY <2>2, <2>6, StrCardinality DEF StrUsers
<1>2. held \in [Strings -> Narrows \cup {None, "null"}] BY DEF StrNarrowOrNone
<1>3. op \in [Strings -> [pc : {"idle", "resize", "detach", "dirty", "setAt", "convert",
                                "publish", "load"},
                          text : Str!AllTexts, made : Narrows \cup {None}]]
      BY DEF StrOp, StrSteps, StrNarrowOrNone
<1>4. QED BY <1>1, <1>2, <1>3 DEF Str!TypeOK

(* What a link has received lies in the stream of its peer.                *)
LEMMA LinkInvTypes == LinkInv => Link!TypeOK
<1> SUFFICES ASSUME LinkInv PROVE Link!TypeOK
    OBVIOUS
<1> USE DEF LinkInv
<1>1. /\ begin \in Link!Streams /\ peer \in [sent : Nat, closed : BOOLEAN]
      /\ peer.sent <= begin[MaxMessages + 1]
      /\ delivered \in Seq(Nat \X Nat) /\ Len(delivered) <= MaxMessages
      /\ \A i \in DOMAIN delivered : delivered[i] = <<begin[i], begin[i + 1]>>
      BY DEF LinkReceived, Link!MessagesAreWhole
<1>2. ASSUME NEW i \in 1..(MaxMessages + 1) PROVE begin[i] \in 0..begin[MaxMessages + 1]
  <2>1. MaxMessages + 1 \in 1..(MaxMessages + 1) BY LinkAssumption
  <2>2. begin[i] \in Nat /\ begin[MaxMessages + 1] \in Nat BY <1>1, <2>1, LinkPlaces
  <2>3. i = MaxMessages + 1 \/ begin[i] + Header <= begin[MaxMessages + 1]
        BY <1>1, <2>1, LinkPlaces, LinkAssumption
  <2>4. QED BY <2>2, <2>3, LinkAssumption
<1>3. delivered \in Seq((0..Link!StreamSize) \X (0..Link!StreamSize))
  <2>1. /\ Len(delivered) \in Nat /\ DOMAIN delivered = 1..Len(delivered)
        /\ delivered = [i \in 1..Len(delivered) |-> delivered[i]]
        BY <1>1
  <2>2. ASSUME NEW i \in 1..Len(delivered)
        PROVE  delivered[i] \in (0..Link!StreamSize) \X (0..Link!StreamSize)
    <3>1. i \in 1..(MaxMessages + 1) /\ i + 1 \in 1..(MaxMessages + 1)
          BY <1>1, <2>1, LinkAssumption, SMTT(40)
    <3>2. delivered[i] = <<begin[i], begin[i + 1]>> BY <1>1, <2>1
    <3>3. QED BY <1>2, <3>1, <3>2 DEF Link!StreamSize
  <2>3. QED BY <2>1, <2>2, SeqDef
<1>4. peer \in [sent : 0..Link!StreamSize, closed : BOOLEAN]
  <2>1. begin[MaxMessages + 1] \in Nat BY <1>1, LinkPlaces, LinkAssumption
  <2>2. QED BY <1>1, <2>1 DEF Link!StreamSize
<1>5. QED BY <1>1, <1>3, <1>4 DEF LinkReceived, LinkSending, LinkControl, Link!TypeOK

(* TypeOK: the component at work keeps the types of its variables.         *)
THEOREM TypeTheorem == Spec => []TypeOK
<1> DEFINE Inv == CgiInv /\ RpcInv /\ EventInv /\ LooperInv /\ StrInv /\ NetInv
    /\ NetLimitsInv /\ LinkInv
<1>1. Init => Inv
      BY CgiInitially, RpcInitially, EventInitially, LooperInitially, StrInitially, NetInitially,
         LinkInitially DEF Init
<1>2. Inv /\ [Next]_vars => Inv'
      BY CgiPreserved, RpcPreserved, EventPreserved, LooperPreserved, StrPreserved, NetPreserved,
         LinkPreserved
<1>3. Inv => TypeOK
      BY StrInvTypes, LinkInvTypes DEF CgiInv, CgiTypes, RpcInv, EventInv, LooperInv, NetInv, TypeOK
<1>4. QED BY <1>1, <1>2, <1>3, PTL DEF Spec
=============================================================================
