-------------------------- MODULE LibraryLinkProofs --------------------------
(***************************************************************************)
(* Proofs about the peer-to-peer links of Library, for any subnets, limits *)
(* and number of links, and about the two streams of one link, for any     *)
(* messages and any way that the streams are cut.                          *)
(***************************************************************************)
EXTENDS Library, FiniteSetTheorems, SequenceTheorems, WellFoundedInduction, TLAPS

-----------------------------------------------------------------------------
(* Net: the links, the list and the groups.                                *)

NetSteps == {"magic", "moving", "found", "connecting", "loop", "closed", "ended"}
NetLinkState == [pc : NetSteps, incoming : BOOLEAN, subnet : Subnets, owner : Net!Groups]

(* join_all() empties the set it waits for.                                *)
NetJoiningIsLocal == \A g \in Net!Groups : joining[g] # {} => phase[g] = "joining"

(* A link that runs belongs to a group or is between the two.              *)
NetHeld ==
    \A l \in Net!LinkIds : Net!Running(l) =>
        Net!At(l, "moving") \/ \E g \in Net!Groups : Net!InHandsOf(l, g)

(* The group that told a link to stop has it before it begins to join and  *)
(* waits for it afterwards.                                                *)
NetToldIsHeld ==
    \A l \in Net!LinkIds : Net!Running(l) /\ l \in keep =>
        \E g \in Net!Groups : \/ phase[g] = "interrupted" /\ l \in members[g]
                              \/ phase[g] = "joining" /\ l \in joining[g]

NetInv == Net!TypeOK /\ NetJoiningIsLocal /\ NetHeld /\ NetToldIsHeld

LEMMA NetInitHolds == ASSUME Net!Init PROVE NetInv
<1> USE NetAssumption DEF Net!Init, Net!LinkIds
<1>1. Net!TypeOK
  <2>1. link \in Seq([pc : NetSteps, incoming : BOOLEAN, subnet : Subnets, owner : Net!Groups]) /\ Len(link) = 0
        OBVIOUS
  <2>2. Len(link) <= MaxCreated BY <2>1
  <2>3. /\ listed \subseteq {l \in Net!LinkIds : Net!At(l, "loop")} /\ keep \subseteq Net!LinkIds
        /\ members \in [Net!Groups -> SUBSET Net!LinkIds]
              /\ joining \in [Net!Groups -> SUBSET Net!LinkIds]
        OBVIOUS
  <2>4. /\ phase \in [Net!Groups -> {"up", "interrupted", "joining", "joined"}]
        /\ listener \in {"accepts", "admits", "ended"} /\ overlap \in BOOLEAN
        OBVIOUS
  <2>5. QED BY <2>1, <2>2, <2>3, <2>4 DEF Net!TypeOK, NetSteps
<1>2. NetJoiningIsLocal /\ NetHeld /\ NetToldIsHeld BY DEF NetJoiningIsLocal, NetHeld, NetToldIsHeld
<1>3. QED BY <1>1, <1>2 DEF NetInv

-----------------------------------------------------------------------------
(* Sequences of links.                                                     *)

LEMMA NetNewLinkType ==
  ASSUME NEW incoming \in BOOLEAN, NEW n \in Subnets
  PROVE  Net!NewLink(incoming, n) \in NetLinkState
BY DEF Net!NewLink, NetLinkState, NetSteps, Net!Groups

LEMMA NetFunctionIsSeq ==
  ASSUME NEW S, NEW n \in Nat, NEW f \in [1..n -> S]
  PROVE  f \in Seq(S)
OBVIOUS

LEMMA NetOneIsSeq ==
  ASSUME NEW S, NEW x \in S
  PROVE  <<x>> \in Seq(S)
OBVIOUS

LEMMA NetOneAppended ==
  ASSUME NEW S, NEW s \in Seq(S), NEW x \in S
  PROVE  /\ s \o <<x>> = Append(s, x)
         /\ Len(Append(s, x)) = Len(s) + 1 /\ Append(s, x)[Len(s) + 1] = x
         /\ \A k \in 1..Len(s) : Append(s, x)[k] = s[k]
OBVIOUS

(* The links that were there keep their places.                            *)
LEMMA NetAppended ==
  ASSUME NEW s \in Seq(NetLinkState), NEW new \in Seq(NetLinkState)
  PROVE  /\ s \o new \in Seq(NetLinkState)
         /\ Len(s \o new) = Len(s) + Len(new)
         /\ DOMAIN (s \o new) = 1..(Len(s) + Len(new))
         /\ DOMAIN s = 1..Len(s)
         /\ Len(s) \in Nat /\ Len(new) \in Nat
         /\ \A i \in DOMAIN s : i \in DOMAIN (s \o new) /\ (s \o new)[i] = s[i]
<1>1. s \o new \in Seq(NetLinkState) /\ Len(s \o new) = Len(s) + Len(new) OBVIOUS
<1>2. Len(s) \in Nat /\ Len(new) \in Nat /\ DOMAIN s = 1..Len(s) OBVIOUS
<1>3. DOMAIN (s \o new) = 1..(Len(s) + Len(new)) BY <1>1
<1>4. \A i \in 1..Len(s) : (s \o new)[i] = s[i] OBVIOUS
<1>5. QED BY <1>1, <1>2, <1>3, <1>4

(* A link that changes stays in its place.                                 *)
LEMMA NetReplaced ==
  ASSUME NEW s \in Seq(NetLinkState), NEW l \in DOMAIN s, NEW x \in NetLinkState
  PROVE  LET t == [s EXCEPT ![l] = x] IN
         /\ t \in Seq(NetLinkState) /\ Len(t) = Len(s) /\ DOMAIN t = DOMAIN s
         /\ t[l] = x
         /\ \A k \in DOMAIN s : k # l => t[k] = s[k]
OBVIOUS

LEMMA NetTypedLinks ==
  ASSUME NetInv
  PROVE  /\ link \in Seq(NetLinkState) /\ Net!LinkIds = 1..Len(link) /\ Len(link) \in Nat
         /\ members \in [Net!Groups -> SUBSET Net!LinkIds]
               /\ joining \in [Net!Groups -> SUBSET Net!LinkIds]
         /\ keep \subseteq Net!LinkIds /\ Len(link) <= MaxCreated
BY DEF NetInv, Net!TypeOK, NetLinkState, NetSteps, Net!LinkIds

-----------------------------------------------------------------------------
(* New links.                                                              *)

LEMMA NetCreatePreserves ==
  ASSUME NetInv, NEW new \in Seq(NetLinkState), NEW g \in Net!Groups, Net!Create(new, g),
         UNCHANGED listed,
         listener' \in {"accepts", "admits", "ended"}, overlap' \in BOOLEAN
  PROVE  NetInv'
<1>1. /\ link' \in Seq(NetLinkState) /\ Len(link') = Len(link) + Len(new)
      /\ Net!LinkIds' = 1..(Len(link) + Len(new)) /\ Net!LinkIds = 1..Len(link)
      /\ Len(link) \in Nat /\ Len(new) \in Nat
      /\ \A l \in Net!LinkIds : l \in Net!LinkIds' /\ link'[l] = link[l]
      BY NetTypedLinks, NetAppended DEF Net!Create, Net!LinkIds
<1>2. members' = [members EXCEPT ![g] = @ \cup (Len(link) + 1)..(Len(link) + Len(new))]
      /\ UNCHANGED <<joining, phase, keep>>
      BY DEF Net!Create, Net!Join
<1>3. \A l \in Net!LinkIds' : l \in Net!LinkIds \/ l \in (Len(link) + 1)..(Len(link) + Len(new))
      BY <1>1
<1>4. \A h \in Net!Groups : members[h] \subseteq members'[h]
      BY <1>2, NetTypedLinks
<1>5. members' \in [Net!Groups -> SUBSET Net!LinkIds']
  <2>1. (Len(link) + 1)..(Len(link) + Len(new)) \subseteq Net!LinkIds' BY <1>1
  <2>2. QED BY <2>1, <1>1, <1>2, NetTypedLinks
<1>6. Net!TypeOK'
  <2>1. Len(link') <= MaxCreated BY <1>1, NetAssumption DEF Net!Create, Net!Bound
  <2>2. listed' \subseteq {l \in Net!LinkIds' : Net!At(l, "loop")'}
        BY <1>1 DEF NetInv, Net!TypeOK, Net!At
  <2>3. joining' \in [Net!Groups -> SUBSET Net!LinkIds'] /\ keep' \subseteq Net!LinkIds'
        BY <1>1, <1>2, NetTypedLinks
  <2>4. phase' \in [Net!Groups -> {"up", "interrupted", "joining", "joined"}]
        BY <1>2 DEF NetInv, Net!TypeOK
  <2>5. QED BY <1>1, <1>5, <2>1, <2>2, <2>3, <2>4 DEF Net!TypeOK, NetLinkState, NetSteps
<1>7. NetJoiningIsLocal' BY <1>2 DEF NetInv, NetJoiningIsLocal
<1>8. NetHeld'
  <2> SUFFICES ASSUME NEW l \in Net!LinkIds', Net!Running(l)', ~Net!At(l, "moving")'
               PROVE  \E h \in Net!Groups : Net!InHandsOf(l, h)'
      BY DEF NetHeld
  <2>1. CASE l \in Net!LinkIds
        BY <2>1, <1>1, <1>2, <1>4 DEF NetInv, NetHeld, Net!Running, Net!At, Net!InHandsOf
  <2>2. CASE l \in (Len(link) + 1)..(Len(link) + Len(new))
    <3>1. l \in members'[g] BY <2>2, <1>2, NetTypedLinks
    <3>2. QED BY <3>1 DEF Net!InHandsOf
  <2>3. QED BY <2>1, <2>2, <1>3
<1>9. NetToldIsHeld'
      BY <1>1, <1>2, <1>4, NetTypedLinks, SMTT(40) DEF NetInv, NetToldIsHeld, Net!Running, Net!At
<1>10. QED BY <1>6, <1>7, <1>8, <1>9 DEF NetInv

LEMMA NetAdmitPreserves == ASSUME NetInv, Net!Admit PROVE NetInv'
<1>1. PICK n \in Subnets : Net!Create(<<Net!NewLink(TRUE, n)>>, "listener") BY DEF Net!Admit
<1>2. <<Net!NewLink(TRUE, n)>> \in Seq(NetLinkState)
  <2>1. Net!NewLink(TRUE, n) \in NetLinkState BY NetNewLinkType
  <2>2. QED BY <2>1, NetOneIsSeq
<1>3. UNCHANGED <<listed, overlap>> /\ listener' = "accepts" /\ overlap \in BOOLEAN
      BY DEF Net!Admit, NetInv, Net!TypeOK
<1>4. QED BY <1>1, <1>2, <1>3, NetCreatePreserves DEF Net!Groups

LEMMA NetOnPeriodicPreserves == ASSUME NetInv, Net!OnPeriodic PROVE NetInv'
<1>1. PICK n \in 1..(MaxOutboundConnections - Net!CountOutgoing) :
      \E subnet \in [1..n -> Subnets \ {link[l].subnet : l \in listed}] :
         Net!Create([i \in 1..n |-> Net!NewLink(FALSE, subnet[i])], "net")
      BY DEF Net!OnPeriodic
<1>2. PICK subnet \in [1..n -> Subnets \ {link[l].subnet : l \in listed}] :
         Net!Create([i \in 1..n |-> Net!NewLink(FALSE, subnet[i])], "net")
      BY <1>1
<1>3. n \in Nat OBVIOUS
<1>4. [i \in 1..n |-> Net!NewLink(FALSE, subnet[i])] \in [1..n -> NetLinkState] BY NetNewLinkType
<1>5. [i \in 1..n |-> Net!NewLink(FALSE, subnet[i])] \in Seq(NetLinkState)
      BY <1>3, <1>4, NetFunctionIsSeq
<1>6. /\ UNCHANGED <<listed, listener>>
      /\ overlap' \in BOOLEAN /\ listener \in {"accepts", "admits", "ended"}
      BY DEF Net!OnPeriodic, NetInv, Net!TypeOK, Net!OnTheWay
<1>7. QED BY <1>2, <1>5, <1>6, NetCreatePreserves DEF Net!Groups

-----------------------------------------------------------------------------
(* One link goes on.                                                       *)

(* What a step of link l leaves alone, and what is asked of the places of  *)
(* the others.                                                             *)
LEMMA NetLinkStepPreserves ==
  ASSUME NetInv, NEW l \in Net!LinkIds, NEW x \in NetLinkState,
         link' = [link EXCEPT ![l] = x],
         UNCHANGED <<joining, phase, keep, listener, overlap>>,
         members' \in [Net!Groups -> SUBSET Net!LinkIds],
         \A g \in Net!Groups, k \in Net!LinkIds : (k # l \/ k \in keep) /\ k \in members[g] =>
             k \in members'[g],
         listed' \subseteq listed \cup {l}, l \in listed' => x.pc = "loop",
         x.pc # "ended" => /\ ~Net!At(l, "ended")
                           /\ x.pc = "moving" \/ \E g \in Net!Groups : l \in members'[g] \cup joining[g]
  PROVE  NetInv'
<1>1. /\ link' \in Seq(NetLinkState) /\ Len(link') = Len(link) /\ Net!LinkIds' = Net!LinkIds
      /\ link'[l] = x /\ \A k \in Net!LinkIds : k # l => link'[k] = link[k]
      BY NetTypedLinks, NetReplaced DEF Net!LinkIds
<1>2. Net!TypeOK'
  <2>1. listed' \subseteq {k \in Net!LinkIds' : Net!At(k, "loop")'}
        BY <1>1 DEF NetInv, Net!TypeOK, Net!At
  <2>2. /\ Len(link') <= MaxCreated
        /\ members' \in [Net!Groups -> SUBSET Net!LinkIds']
              /\ joining' \in [Net!Groups -> SUBSET Net!LinkIds']
        /\ keep' \subseteq Net!LinkIds'
        BY <1>1, NetTypedLinks
  <2>3. /\ phase' \in [Net!Groups -> {"up", "interrupted", "joining", "joined"}]
        /\ listener' \in {"accepts", "admits", "ended"} /\ overlap' \in BOOLEAN
        BY DEF NetInv, Net!TypeOK
  <2>4. QED BY <1>1, <2>1, <2>2, <2>3 DEF Net!TypeOK, NetLinkState, NetSteps
<1>3. NetJoiningIsLocal' BY DEF NetInv, NetJoiningIsLocal
<1>4. NetHeld'
  <2> SUFFICES ASSUME NEW k \in Net!LinkIds, Net!Running(k)', ~Net!At(k, "moving")'
               PROVE  \E g \in Net!Groups : Net!InHandsOf(k, g)'
      BY <1>1 DEF NetHeld
  <2>1. CASE k = l BY <2>1, <1>1 DEF Net!Running, Net!At, Net!InHandsOf
  <2>2. CASE k # l
    <3>1. Net!Running(k) /\ ~Net!At(k, "moving") BY <2>2, <1>1 DEF Net!Running, Net!At
    <3>2. PICK g \in Net!Groups : Net!InHandsOf(k, g) BY <3>1 DEF NetInv, NetHeld
    <3>3. QED BY <3>2, <2>2 DEF Net!InHandsOf
  <2>3. QED BY <2>1, <2>2
<1>5. NetToldIsHeld'
  <2> SUFFICES ASSUME NEW k \in Net!LinkIds, Net!Running(k)', k \in keep
               PROVE  \E g \in Net!Groups : \/ phase[g] = "interrupted" /\ k \in members'[g]
                                            \/ phase[g] = "joining" /\ k \in joining[g]
      BY <1>1 DEF NetToldIsHeld
  <2>1. Net!Running(k) BY <1>1 DEF Net!Running, Net!At
  <2>2. QED BY <2>1 DEF NetInv, NetToldIsHeld
<1>6. QED BY <1>2, <1>3, <1>4, <1>5 DEF NetInv

LEMMA NetAnyLinkState ==
  ASSUME NetInv, NEW l \in Net!LinkIds, NEW step \in NetSteps
  PROVE  /\ link[l] \in NetLinkState
         /\ [link[l] EXCEPT !.pc = step] \in NetLinkState /\ [link[l] EXCEPT !.pc = step].pc = step
<1>1. link[l] \in NetLinkState BY NetTypedLinks
<1>2. QED BY <1>1 DEF NetLinkState

LEMMA NetEachLinkStepPreserves ==
  ASSUME NetInv, NEW l \in Net!LinkIds, Net!LinkStep(l)
  PROVE  NetInv'
<1>1. CASE Net!LeaveListener(l)
  <2> DEFINE x == [link[l] EXCEPT !.pc = "moving"]
  <2>1. x \in NetLinkState /\ x.pc = "moving" BY NetAnyLinkState DEF NetSteps
  <2>2. link' = [link EXCEPT ![l] = x] /\ ~Net!At(l, "ended") /\ ~Net!At(l, "loop")
        BY <1>1, NetTypedLinks DEF Net!LeaveListener, Net!Goto, Net!At
  <2>3. members' = [members EXCEPT !["listener"] = @ \ ({l} \ keep)]
        /\ UNCHANGED <<joining, phase, keep, listener, overlap, listed>>
        BY <1>1 DEF Net!LeaveListener, Net!Leave
  <2>4. /\ members' \in [Net!Groups -> SUBSET Net!LinkIds]
        /\ \A g \in Net!Groups, k \in Net!LinkIds : (k # l \/ k \in keep) /\ k \in members[g] =>
              k \in members'[g]
        BY <2>3, NetTypedLinks
  <2>5. l \notin listed' BY <2>2, <2>3 DEF NetInv, Net!TypeOK
  <2> HIDE DEF x
  <2>6. QED BY <2>1, <2>2, <2>3, <2>4, <2>5, NetLinkStepPreserves
<1>2. CASE Net!JoinNet(l)
  <2> DEFINE x == [link[l] EXCEPT !.pc = "found", !.owner = "net"]
  <2>1. x \in NetLinkState /\ x.pc = "found"
    <3>1. link[l] \in NetLinkState BY NetTypedLinks
    <3>2. QED BY <3>1 DEF NetSteps, NetLinkState, Net!Groups
  <2>2. link' = [link EXCEPT ![l] = x] /\ ~Net!At(l, "ended") /\ ~Net!At(l, "loop")
        BY <1>2, NetTypedLinks DEF Net!JoinNet, Net!At
  <2>3. members' = [members EXCEPT !["net"] = @ \cup {l}]
        /\ UNCHANGED <<joining, phase, keep, listener, overlap, listed>>
        BY <1>2 DEF Net!JoinNet, Net!Join
  <2>4. /\ members' \in [Net!Groups -> SUBSET Net!LinkIds] /\ l \in members'["net"]
        /\ \A g \in Net!Groups, k \in Net!LinkIds : k \in members[g] => k \in members'[g]
        BY <2>3, NetTypedLinks DEF Net!Groups
  <2>5. l \notin listed' BY <2>2, <2>3 DEF NetInv, Net!TypeOK
  <2> HIDE DEF x
  <2>6. QED BY <2>1, <2>2, <2>3, <2>4, <2>5, NetLinkStepPreserves DEF Net!Groups
<1>3. CASE Net!AddLink(l)
  <2> DEFINE x == [link[l] EXCEPT !.pc = "loop"]
  <2>1. x \in NetLinkState /\ x.pc = "loop" BY NetAnyLinkState DEF NetSteps
  <2>2. link' = [link EXCEPT ![l] = x] /\ link[l].pc \in {"found", "connecting"}
        BY <1>3, NetTypedLinks DEF Net!AddLink, Net!Goto, Net!At
  <2>3. listed' = listed \cup {l} /\ UNCHANGED <<members, joining, phase, keep, listener, overlap>>
        BY <1>3 DEF Net!AddLink, Net!groups
  <2>4. ~Net!At(l, "ended") /\ \E g \in Net!Groups : Net!InHandsOf(l, g)
        BY <2>2 DEF NetInv, NetHeld, Net!Running, Net!At
  <2> HIDE DEF x
  <2>5. QED BY <2>1, <2>2, <2>3, <2>4, NetTypedLinks, NetLinkStepPreserves DEF Net!InHandsOf
<1>4. CASE Net!CloseLink(l)
  <2> DEFINE x == [link[l] EXCEPT !.pc = "closed"]
  <2>1. x \in NetLinkState /\ x.pc = "closed" BY NetAnyLinkState DEF NetSteps
  <2>2. link' = [link EXCEPT ![l] = x] /\ link[l].pc \in {"magic", "found", "connecting", "loop"}
        BY <1>4, NetTypedLinks DEF Net!CloseLink
  <2>3. listed' = listed \ {l} /\ UNCHANGED <<members, joining, phase, keep, listener, overlap>>
        BY <1>4 DEF Net!CloseLink, Net!groups
  <2>4. ~Net!At(l, "ended") /\ \E g \in Net!Groups : Net!InHandsOf(l, g)
        BY <2>2 DEF NetInv, NetHeld, Net!Running, Net!At
  <2> HIDE DEF x
  <2>5. QED BY <2>1, <2>2, <2>3, <2>4, NetTypedLinks, NetLinkStepPreserves DEF Net!InHandsOf
<1>5. CASE Net!EndThread(l)
  <2> DEFINE x == [Net!NewLink(FALSE, Net!AnySubnet) EXCEPT !.pc = "ended"]
  <2>1. x \in NetLinkState /\ x.pc = "ended"
    <3>1. Net!AnySubnet \in Subnets BY NetAssumption DEF Net!AnySubnet
    <3>2. Net!NewLink(FALSE, Net!AnySubnet) \in NetLinkState BY <3>1, NetNewLinkType
    <3>3. QED BY <3>2 DEF NetLinkState, NetSteps
  <2>2. link' = [link EXCEPT ![l] = x] /\ ~Net!At(l, "loop")
        BY <1>5, NetTypedLinks DEF Net!EndThread, Net!At
  <2>3. PICK h : /\ members' = [members EXCEPT ![h] = @ \ ({l} \ keep)]
                 /\ UNCHANGED <<joining, phase, keep, listener, overlap, listed>>
        BY <1>5 DEF Net!EndThread, Net!Leave
  <2>4. /\ members' \in [Net!Groups -> SUBSET Net!LinkIds]
        /\ \A g \in Net!Groups, k \in Net!LinkIds : (k # l \/ k \in keep) /\ k \in members[g] =>
              k \in members'[g]
        BY <2>3, NetTypedLinks
  <2>5. l \notin listed' BY <2>2, <2>3 DEF NetInv, Net!TypeOK
  <2> HIDE DEF x
  <2>6. QED BY <2>1, <2>2, <2>3, <2>4, <2>5, NetLinkStepPreserves
<1>6. QED BY <1>1, <1>2, <1>3, <1>4, <1>5 DEF Net!LinkStep

-----------------------------------------------------------------------------
(* The groups are stopped.                                                 *)

LEMMA NetInterruptAllPreserves ==
  ASSUME NetInv, NEW g \in Net!Groups, Net!InterruptAll(g)
  PROVE  NetInv'
<1>1. /\ phase[g] = "up" /\ phase' = [phase EXCEPT ![g] = "interrupted"]
      /\ keep' = keep \cup members[g]
      /\ UNCHANGED <<link, listed, members, joining, listener, overlap>>
      BY DEF Net!InterruptAll
<1>2. phase \in [Net!Groups -> {"up", "interrupted", "joining", "joined"}] BY DEF NetInv, Net!TypeOK
<1>3. phase' \in [Net!Groups -> {"up", "interrupted", "joining", "joined"}]
      /\ keep' \subseteq Net!LinkIds
      BY <1>1, <1>2, NetTypedLinks
<1>4. Net!TypeOK' BY <1>1, <1>3 DEF NetInv, Net!TypeOK, Net!LinkIds, Net!At
<1>5. NetJoiningIsLocal' BY <1>1, <1>2 DEF NetInv, NetJoiningIsLocal
<1>6. NetHeld' BY <1>1 DEF NetInv, NetHeld, Net!Running, Net!At, Net!InHandsOf, Net!LinkIds
<1>7. NetToldIsHeld'
  <2> SUFFICES ASSUME NEW l \in Net!LinkIds, Net!Running(l), l \in keep'
               PROVE  \E h \in Net!Groups : \/ phase'[h] = "interrupted" /\ l \in members[h]
                                            \/ phase'[h] = "joining" /\ l \in joining[h]
      BY <1>1 DEF NetToldIsHeld, Net!Running, Net!At, Net!LinkIds
  <2>1. CASE l \in members[g] BY <2>1, <1>1, <1>2
  <2>2. CASE l \in keep BY <2>2, <1>1, <1>2 DEF NetInv, NetToldIsHeld
  <2>3. QED BY <2>1, <2>2, <1>1
<1>8. QED BY <1>4, <1>5, <1>6, <1>7 DEF NetInv

LEMMA NetJoinAllBeginsPreserves ==
  ASSUME NetInv, NEW g \in Net!Groups, Net!JoinAllBegins(g)
  PROVE  NetInv'
<1>1. /\ phase[g] = "interrupted" /\ phase' = [phase EXCEPT ![g] = "joining"]
      /\ joining' = [joining EXCEPT ![g] = members[g]] /\ members' = [members EXCEPT ![g] = {}]
      /\ UNCHANGED <<link, listed, keep, listener, overlap>>
      BY DEF Net!JoinAllBegins
<1>2. phase \in [Net!Groups -> {"up", "interrupted", "joining", "joined"}] BY DEF NetInv, Net!TypeOK
<1>3. /\ phase' \in [Net!Groups -> {"up", "interrupted", "joining", "joined"}]
      /\ members' \in [Net!Groups -> SUBSET Net!LinkIds]
            /\ joining' \in [Net!Groups -> SUBSET Net!LinkIds]
      BY <1>1, <1>2, NetTypedLinks
<1>4. \A h \in Net!Groups : h # g => phase'[h] = phase[h] /\ members'[h] = members[h]
      /\ joining'[h] = joining[h]
      BY <1>1, <1>2, NetTypedLinks
<1>5. phase'[g] = "joining" /\ joining'[g] = members[g] /\ joining[g] = {}
      BY <1>1, <1>2, NetTypedLinks DEF NetInv, NetJoiningIsLocal
<1>6. Net!TypeOK' BY <1>1, <1>3 DEF NetInv, Net!TypeOK, Net!LinkIds, Net!At
<1>7. NetJoiningIsLocal' BY <1>4, <1>5 DEF NetInv, NetJoiningIsLocal
<1>8. NetHeld'
  <2> SUFFICES ASSUME NEW l \in Net!LinkIds, Net!Running(l), ~Net!At(l, "moving")
               PROVE  \E h \in Net!Groups : l \in members'[h] \cup joining'[h]
      BY <1>1 DEF NetHeld, Net!Running, Net!At, Net!LinkIds, Net!InHandsOf
  <2>1. PICK h \in Net!Groups : l \in members[h] \cup joining[h]
        BY DEF NetInv, NetHeld, Net!InHandsOf
  <2>2. QED BY <2>1, <1>4, <1>5
<1>9. NetToldIsHeld'
  <2> SUFFICES ASSUME NEW l \in Net!LinkIds, Net!Running(l), l \in keep
               PROVE  \E h \in Net!Groups : \/ phase'[h] = "interrupted" /\ l \in members'[h]
                                            \/ phase'[h] = "joining" /\ l \in joining'[h]
      BY <1>1 DEF NetToldIsHeld, Net!Running, Net!At, Net!LinkIds
  <2>1. PICK h \in Net!Groups : \/ phase[h] = "interrupted" /\ l \in members[h]
                                \/ phase[h] = "joining" /\ l \in joining[h]
        BY DEF NetInv, NetToldIsHeld
  <2>2. QED BY <2>1, <1>1, <1>4, <1>5
<1>10. QED BY <1>6, <1>7, <1>8, <1>9 DEF NetInv

LEMMA NetJoinAllEndsPreserves ==
  ASSUME NetInv, NEW g \in Net!Groups, Net!JoinAllEnds(g)
  PROVE  NetInv'
<1>1. /\ phase[g] = "joining" /\ phase' = [phase EXCEPT ![g] = "joined"]
      /\ joining' = [joining EXCEPT ![g] = {}]
      /\ \A l \in joining[g] : ~Net!Running(l)
      /\ UNCHANGED <<link, listed, members, keep, listener, overlap>>
      BY DEF Net!JoinAllEnds
<1>2. phase \in [Net!Groups -> {"up", "interrupted", "joining", "joined"}] BY DEF NetInv, Net!TypeOK
<1>3. /\ phase' \in [Net!Groups -> {"up", "interrupted", "joining", "joined"}]
      /\ joining' \in [Net!Groups -> SUBSET Net!LinkIds]
      BY <1>1, <1>2, NetTypedLinks
<1>4. \A h \in Net!Groups : h # g => phase'[h] = phase[h] /\ joining'[h] = joining[h]
      BY <1>1, <1>2, NetTypedLinks
<1>5. Net!TypeOK' BY <1>1, <1>3 DEF NetInv, Net!TypeOK, Net!LinkIds, Net!At
<1>6. NetJoiningIsLocal' BY <1>1, <1>4, NetTypedLinks DEF NetInv, NetJoiningIsLocal
<1>7. NetHeld'
  <2> SUFFICES ASSUME NEW l \in Net!LinkIds, Net!Running(l), ~Net!At(l, "moving")
               PROVE  \E h \in Net!Groups : l \in members[h] \cup joining'[h]
      BY <1>1 DEF NetHeld, Net!Running, Net!At, Net!LinkIds, Net!InHandsOf
  <2>1. PICK h \in Net!Groups : l \in members[h] \cup joining[h]
        BY DEF NetInv, NetHeld, Net!InHandsOf
  <2>2. QED BY <2>1, <1>1, <1>4
<1>8. NetToldIsHeld'
  <2> SUFFICES ASSUME NEW l \in Net!LinkIds, Net!Running(l), l \in keep
               PROVE  \E h \in Net!Groups : \/ phase'[h] = "interrupted" /\ l \in members[h]
                                            \/ phase'[h] = "joining" /\ l \in joining'[h]
      BY <1>1 DEF NetToldIsHeld, Net!Running, Net!At, Net!LinkIds
  <2>1. PICK h \in Net!Groups : \/ phase[h] = "interrupted" /\ l \in members[h]
                                \/ phase[h] = "joining" /\ l \in joining[h]
        BY DEF NetInv, NetToldIsHeld
  <2>2. QED BY <2>1, <1>1, <1>4
<1>9. QED BY <1>5, <1>6, <1>7, <1>8 DEF NetInv

-----------------------------------------------------------------------------
(* The listener sees connections, and the whole.                           *)

LEMMA NetListenerPreserves == ASSUME NetInv, Net!Accept \/ Net!ListenerEnds PROVE NetInv'
<1>1. /\ UNCHANGED <<link, listed, members, joining, phase, keep>>
      /\ listener' \in {"accepts", "admits", "ended"} /\ overlap' \in BOOLEAN
      BY DEF Net!Accept, Net!ListenerEnds, Net!groups, NetInv, Net!TypeOK, Net!OnTheWay
<1>2. Net!TypeOK' BY <1>1 DEF NetInv, Net!TypeOK, Net!LinkIds, Net!At
<1>3. NetJoiningIsLocal' BY <1>1 DEF NetInv, NetJoiningIsLocal
<1>4. NetHeld' /\ NetToldIsHeld'
      BY <1>1 DEF NetInv, NetHeld, NetToldIsHeld, Net!Running, Net!At, Net!InHandsOf, Net!LinkIds
<1>5. QED BY <1>2, <1>3, <1>4 DEF NetInv

LEMMA NetStepPreserves == ASSUME NetInv, [Net!Next]_Net!vars PROVE NetInv'
<1>1. CASE Net!Accept \/ Net!ListenerEnds BY <1>1, NetListenerPreserves
<1>2. CASE Net!Admit BY <1>2, NetAdmitPreserves
<1>3. CASE Net!OnPeriodic BY <1>3, NetOnPeriodicPreserves
<1>4. CASE \E l \in Net!LinkIds : Net!LinkStep(l) BY <1>4, NetEachLinkStepPreserves
<1>5. CASE \E g \in Net!Groups : Net!InterruptAll(g) \/ Net!JoinAllBegins(g) \/ Net!JoinAllEnds(g)
      BY <1>5, NetInterruptAllPreserves, NetJoinAllBeginsPreserves, NetJoinAllEndsPreserves
<1>6. CASE UNCHANGED Net!vars
  <2>1. UNCHANGED <<link, listed, members, joining, phase, keep, listener, overlap>>
        BY <1>6 DEF Net!vars, Net!groups
  <2>2. Net!TypeOK' BY <2>1 DEF NetInv, Net!TypeOK, Net!LinkIds, Net!At
  <2>3. NetJoiningIsLocal' /\ NetHeld' /\ NetToldIsHeld'
        BY <2>1 DEF NetInv, NetJoiningIsLocal, NetHeld, NetToldIsHeld, Net!Running, Net!At,
           Net!InHandsOf, Net!LinkIds
  <2>4. QED BY <2>2, <2>3 DEF NetInv
<1>7. QED BY <1>1, <1>2, <1>3, <1>4, <1>5, <1>6 DEF Net!Next

-----------------------------------------------------------------------------
(* The limits, while they are not tested with a link on its way.           *)

NetPending(l) == link[l].pc \in {"magic", "moving", "found", "connecting"}

(* The links that are listed or will be.                                   *)
NetCounted == {l \in Net!LinkIds : NetPending(l) \/ Net!At(l, "loop")}

(* A link in its loop is listed.                                           *)
NetListed == \A l \in Net!LinkIds : Net!At(l, "loop") => l \in listed

(* The listener admits a connection only if no other link is on its way,   *)
(* so that there is still the place it found.                              *)
NetLimits ==
    /\ Cardinality(NetCounted) < MaxLinks + MaxOutboundConnections
    /\ Cardinality(Net!Outgoing) <= MaxOutboundConnections
    /\ \A l, k \in Net!Outgoing : link[l].subnet = link[k].subnet => l = k
    /\ listener = "admits" =>
          (\A l \in Net!LinkIds : ~NetPending(l)) /\ Cardinality(listed) < MaxLinks

NetLimitsInv == NetListed /\ (~overlap => NetLimits)

(* Links counts with its own instance of FiniteSets.                       *)
LEMMA NetCardinality == \A S : Net!Cardinality(S) = Cardinality(S)
BY DEF Net!Cardinality, Cardinality

LEMMA NetFinite ==
  ASSUME NetInv
  PROVE  \A S \in SUBSET Net!LinkIds : IsFiniteSet(S) /\ Cardinality(S) \in Nat
<1>1. IsFiniteSet(Net!LinkIds) BY NetTypedLinks, FS_Interval
<1>2. QED BY <1>1, FS_Subset, FS_CardinalityType

(* What a step adds only to the groups or to the history keeps the limits. *)
LEMMA NetLimitsStay ==
  ASSUME NetLimitsInv, UNCHANGED <<link, listed, listener, overlap>>
  PROVE  NetLimitsInv'
BY DEF NetLimitsInv, NetListed, NetLimits, NetCounted, NetPending, Net!Outgoing, Net!At, Net!LinkIds

LEMMA NetAcceptKeepsLimits ==
  ASSUME NetInv, NetLimitsInv, Net!Accept
  PROVE  NetLimitsInv'
<1> USE DEF Net!Accept, Net!groups
<1>1. NetListed' BY DEF NetLimitsInv, NetListed, Net!At, Net!LinkIds
<1>2. ASSUME ~overlap' PROVE NetLimits'
  <2>1. NetLimits /\ ~Net!OnTheWay
        BY <1>2 DEF NetLimitsInv, NetInv, Net!TypeOK, Net!OnTheWay
  <2>2. \A l \in Net!LinkIds : ~NetPending(l) BY <2>1 DEF Net!OnTheWay, NetPending
  <2>3. /\ NetCounted' = NetCounted /\ Net!Outgoing' = Net!Outgoing /\ Net!LinkIds' = Net!LinkIds
        /\ \A l \in Net!LinkIds : ~NetPending(l)'
        BY <2>2 DEF NetCounted, NetPending, Net!Outgoing, Net!At, Net!LinkIds
  <2>4. UNCHANGED <<link, listed>> /\ Cardinality(listed) < MaxLinks BY NetCardinality
  <2>5. QED BY ONLY <2>1, <2>3, <2>4 DEF NetLimits
<1>3. QED BY <1>1, <1>2 DEF NetLimitsInv

LEMMA NetListenerEndsKeepsLimits ==
  ASSUME NetLimitsInv, Net!ListenerEnds
  PROVE  NetLimitsInv'
BY DEF Net!ListenerEnds, Net!groups, NetLimitsInv, NetListed, NetLimits, NetCounted, NetPending,
       Net!Outgoing, Net!At, Net!LinkIds

LEMMA NetUnion ==
  ASSUME NEW S, NEW T, IsFiniteSet(S), IsFiniteSet(T)
  PROVE  /\ IsFiniteSet(S \cup T) /\ Cardinality(S \cup T) \in Nat
         /\ Cardinality(S \cup T) <= Cardinality(S) + Cardinality(T)
<1>1. /\ IsFiniteSet(S \cup T) /\ IsFiniteSet(S \cap T)
      /\ Cardinality(S \cup T) = Cardinality(S) + Cardinality(T) - Cardinality(S \cap T)
      BY FS_Union, FS_Intersection
<1>2. /\ Cardinality(S) \in Nat /\ Cardinality(T) \in Nat
      /\ Cardinality(S \cup T) \in Nat /\ Cardinality(S \cap T) \in Nat
      BY <1>1, FS_CardinalityType
<1>3. QED BY <1>1, <1>2

(* A link that goes on is not added to what counts.                        *)
LEMMA NetGoingOnKeepsLimits ==
  ASSUME NetInv, NetLimitsInv, NEW l \in Net!LinkIds, NEW x \in NetLinkState,
         link' = [link EXCEPT ![l] = x], UNCHANGED <<listener, overlap>>,
         x.pc # "connecting", x.pc \in {"magic", "moving", "found", "loop"} =>
             /\ NetPending(l)
             /\ ~x.incoming /\ x.pc = "loop" =>
                  ~link[l].incoming /\ Net!At(l, "connecting") /\ x.subnet = link[l].subnet,
         listed' = IF x.pc = "loop" THEN listed \cup {l} ELSE listed \ {l}
  PROVE  NetLimitsInv'
<1>1. /\ Net!LinkIds' = Net!LinkIds /\ link'[l] = x
      /\ \A k \in Net!LinkIds : k # l => link'[k] = link[k]
      BY NetTypedLinks, NetReplaced DEF Net!LinkIds
<1>2. NetListed' BY <1>1 DEF NetLimitsInv, NetListed, Net!At
<1>3. ASSUME ~overlap' PROVE NetLimits'
  <2>1. NetLimits BY <1>3 DEF NetLimitsInv
  <2>2. NetCounted' \subseteq NetCounted
        BY <1>1 DEF NetCounted, NetPending, Net!At
  <2>3. Net!Outgoing' \subseteq Net!Outgoing
        /\ \A k \in Net!Outgoing' : link'[k].subnet = link[k].subnet
        BY <1>1 DEF Net!Outgoing, Net!At
  <2>4. Cardinality(NetCounted') <= Cardinality(NetCounted)
        /\ Cardinality(Net!Outgoing') <= Cardinality(Net!Outgoing)
    <3>1. IsFiniteSet(NetCounted) /\ IsFiniteSet(Net!Outgoing)
          BY NetFinite DEF NetCounted, Net!Outgoing
    <3>2. QED BY <3>1, <2>2, <2>3, FS_Subset
  <2>5. /\ Cardinality(NetCounted) \in Nat /\ Cardinality(NetCounted') \in Nat
        /\ Cardinality(Net!Outgoing) \in Nat /\ Cardinality(Net!Outgoing') \in Nat
        BY <1>1, NetFinite DEF NetCounted, Net!Outgoing
  <2>6. ASSUME listener' = "admits"
        PROVE  (\A k \in Net!LinkIds' : ~NetPending(k)') /\ Cardinality(listed') < MaxLinks
    <3>1. (\A k \in Net!LinkIds : ~NetPending(k)) /\ Cardinality(listed) < MaxLinks
          BY <2>1, <2>6 DEF NetLimits
    <3>2. \A k \in Net!LinkIds' : ~NetPending(k)' BY <3>1, <1>1 DEF NetPending
    <3>3. listed' \subseteq listed BY <3>1
    <3>4. /\ IsFiniteSet(listed) /\ Cardinality(listed) \in Nat /\ Cardinality(listed') \in Nat
          BY <3>3, NetFinite DEF NetInv, Net!TypeOK
    <3>5. Cardinality(listed') <= Cardinality(listed) BY <3>3, <3>4, FS_Subset
    <3>6. QED BY <3>1, <3>2, <3>4, <3>5, NetAssumption
  <2>7. QED BY <2>1, <2>3, <2>4, <2>5, <2>6, NetAssumption DEF NetLimits
<1>4. QED BY <1>2, <1>3 DEF NetLimitsInv

LEMMA NetLinkStepKeepsLimits ==
  ASSUME NetInv, NetLimitsInv, NEW l \in Net!LinkIds, Net!LinkStep(l)
  PROVE  NetLimitsInv'
<1>1. link[l] \in NetLinkState /\ (l \in listed => Net!At(l, "loop"))
      BY NetTypedLinks DEF NetInv, Net!TypeOK
<1>2. CASE Net!LeaveListener(l)
  <2> DEFINE x == [link[l] EXCEPT !.pc = "moving"]
  <2>1. x \in NetLinkState /\ x.pc = "moving" BY <1>1 DEF NetLinkState, NetSteps
  <2>2. link' = [link EXCEPT ![l] = x] /\ NetPending(l) /\ ~Net!At(l, "loop")
        BY <1>2, NetTypedLinks DEF Net!LeaveListener, Net!Goto, Net!At, NetPending
  <2>3. listed' = listed \ {l} /\ UNCHANGED <<listener, overlap>>
        BY <1>1, <1>2, <2>2 DEF Net!LeaveListener
  <2> HIDE DEF x
  <2>4. QED BY <2>1, <2>2, <2>3, NetGoingOnKeepsLimits
<1>3. CASE Net!JoinNet(l)
  <2> DEFINE x == [link[l] EXCEPT !.pc = "found", !.owner = "net"]
  <2>1. x \in NetLinkState /\ x.pc = "found" BY <1>1 DEF NetLinkState, NetSteps, Net!Groups
  <2>2. link' = [link EXCEPT ![l] = x] /\ NetPending(l) /\ ~Net!At(l, "loop")
        BY <1>3, NetTypedLinks DEF Net!JoinNet, Net!At, NetPending
  <2>3. listed' = listed \ {l} /\ UNCHANGED <<listener, overlap>>
        BY <1>1, <1>3, <2>2 DEF Net!JoinNet
  <2> HIDE DEF x
  <2>4. QED BY <2>1, <2>2, <2>3, NetGoingOnKeepsLimits
<1>4. CASE Net!AddLink(l)
  <2> DEFINE x == [link[l] EXCEPT !.pc = "loop"]
  <2>1. /\ x \in NetLinkState /\ x.pc = "loop"
        /\ x.incoming = link[l].incoming /\ x.subnet = link[l].subnet
        BY <1>1 DEF NetLinkState, NetSteps
  <2>2. /\ link' = [link EXCEPT ![l] = x] /\ NetPending(l)
        /\ ~link[l].incoming => Net!At(l, "connecting")
        BY <1>4, NetTypedLinks DEF Net!AddLink, Net!Goto, Net!At, NetPending
  <2>3. listed' = listed \cup {l} /\ UNCHANGED <<listener, overlap>>
        BY <1>4 DEF Net!AddLink
  <2> HIDE DEF x
  <2>4. QED BY <2>1, <2>2, <2>3, NetGoingOnKeepsLimits
<1>5. CASE Net!CloseLink(l)
  <2> DEFINE x == [link[l] EXCEPT !.pc = "closed"]
  <2>1. x \in NetLinkState /\ x.pc = "closed" BY <1>1 DEF NetLinkState, NetSteps
  <2>2. /\ link' = [link EXCEPT ![l] = x] /\ listed' = listed \ {l}
        /\ UNCHANGED <<listener, overlap>>
        BY <1>5, NetTypedLinks DEF Net!CloseLink
  <2> HIDE DEF x
  <2>3. QED BY <2>1, <2>2, NetGoingOnKeepsLimits
<1>6. CASE Net!EndThread(l)
  <2> DEFINE x == [Net!NewLink(FALSE, Net!AnySubnet) EXCEPT !.pc = "ended"]
  <2>1. x \in NetLinkState /\ x.pc = "ended"
    <3>1. Net!AnySubnet \in Subnets BY NetAssumption DEF Net!AnySubnet
    <3>2. Net!NewLink(FALSE, Net!AnySubnet) \in NetLinkState BY <3>1, NetNewLinkType
    <3>3. QED BY <3>2 DEF NetLinkState, NetSteps
  <2>2. link' = [link EXCEPT ![l] = x] /\ ~Net!At(l, "loop")
        BY <1>6, NetTypedLinks DEF Net!EndThread, Net!At
  <2>3. listed' = listed \ {l} /\ UNCHANGED <<listener, overlap>>
        BY <1>1, <1>6, <2>2 DEF Net!EndThread
  <2> HIDE DEF x
  <2>4. QED BY <2>1, <2>2, <2>3, NetGoingOnKeepsLimits
<1>7. QED BY <1>2, <1>3, <1>4, <1>5, <1>6 DEF Net!LinkStep

(* A connection that is admitted takes the place that Accept() found.      *)
LEMMA NetAdmitKeepsLimits ==
  ASSUME NetInv, NetLimitsInv, Net!Admit
  PROVE  NetLimitsInv'
<1>1. PICK n \in Subnets : Net!Create(<<Net!NewLink(TRUE, n)>>, "listener") BY DEF Net!Admit
<1> DEFINE new == <<Net!NewLink(TRUE, n)>>
           l == Len(link) + 1
<1>2. /\ listener = "admits" /\ listener' = "accepts" /\ UNCHANGED <<listed, overlap>>
      /\ link' = link \o new
      BY <1>1 DEF Net!Admit, Net!Create
<1>3. Net!NewLink(TRUE, n) \in NetLinkState BY NetNewLinkType
<1>4. link' = Append(link, Net!NewLink(TRUE, n)) /\ link \in Seq(NetLinkState)
  <2>1. link \in Seq(NetLinkState) BY NetTypedLinks
  <2>2. link \o new = Append(link, Net!NewLink(TRUE, n)) BY <2>1, <1>3, NetOneAppended
  <2>3. QED BY <2>1, <2>2, <1>2
<1>5. /\ Net!LinkIds' = Net!LinkIds \cup {l} /\ l \notin Net!LinkIds
      /\ link'[l] = Net!NewLink(TRUE, n) /\ \A k \in Net!LinkIds : link'[k] = link[k]
  <2>1. Net!LinkIds' = 1..l /\ l = Len(link) + 1 /\ Len(link) \in Nat BY <1>3, <1>4 DEF Net!LinkIds
  <2>2. Net!LinkIds = 1..Len(link) BY NetTypedLinks
  <2>3. link'[l] = Net!NewLink(TRUE, n) /\ \A k \in 1..Len(link) : link'[k] = link[k]
        BY <1>3, <1>4, NetOneAppended
  <2>4. QED BY <2>1, <2>2, <2>3
<1>6. link'[l].pc = "magic" /\ link'[l].incoming BY <1>5 DEF Net!NewLink
<1>7. NetListed' BY <1>2, <1>5, <1>6 DEF NetLimitsInv, NetListed, Net!At
<1>8. ASSUME ~overlap' PROVE NetLimits'
  <2>1. NetLimits BY <1>2, <1>8 DEF NetLimitsInv
  <2>2. Net!Outgoing' = Net!Outgoing BY <1>5, <1>6 DEF Net!Outgoing, Net!At
  <2>3. NetCounted' \subseteq listed \cup {l}
        BY <1>2, <1>5, <2>1 DEF NetLimits, NetLimitsInv, NetListed, NetCounted, NetPending, Net!At
  <2>4. IsFiniteSet(listed) /\ Cardinality(listed) \in Nat /\ Cardinality(listed) < MaxLinks
        BY <1>2, <2>1, NetFinite DEF NetInv, Net!TypeOK, NetLimits
  <2>5. /\ IsFiniteSet(listed \cup {l}) /\ Cardinality(listed \cup {l}) \in Nat
        /\ Cardinality(listed \cup {l}) <= MaxLinks
    <3>1. IsFiniteSet(listed \cup {l}) BY <2>4, FS_AddElement
    <3>2. Cardinality(listed \cup {l}) = Cardinality(listed)
          \/ Cardinality(listed \cup {l}) = Cardinality(listed) + 1
          BY <2>4, FS_AddElement
    <3>3. QED BY <3>1, <3>2, <2>4, NetAssumption
  <2>6. Cardinality(NetCounted') <= MaxLinks /\ Cardinality(NetCounted') \in Nat
        BY <2>3, <2>5, FS_Subset, FS_CardinalityType, NetAssumption
  <2>7. \A k \in Net!Outgoing : k \in Net!LinkIds BY DEF Net!Outgoing
  <2>8. Cardinality(NetCounted') < MaxLinks + MaxOutboundConnections BY <2>6, NetAssumption
  <2>9. \A k, m \in Net!Outgoing : link'[k].subnet = link'[m].subnet => k = m
        BY <1>5, <2>1, <2>7 DEF NetLimits
  <2>10. QED BY <1>2, <2>1, <2>2, <2>8, <2>9 DEF NetLimits
<1>9. QED BY <1>7, <1>8 DEF NetLimitsInv

(* OnPeriodic() opens as many links as the list lacks, to subnets that no  *)
(* link of the list has.                                                   *)
LEMMA NetOnPeriodicKeepsLimits ==
  ASSUME NetInv, NetLimitsInv, Net!OnPeriodic
  PROVE  NetLimitsInv'
<1>1. PICK n \in 1..(MaxOutboundConnections - Net!CountOutgoing) :
      \E subnet \in [1..n -> Subnets \ {link[l].subnet : l \in listed}] :
         /\ \A i, j \in 1..n : subnet[i] = subnet[j] => i = j
         /\ Net!Create([i \in 1..n |-> Net!NewLink(FALSE, subnet[i])], "net")
      BY DEF Net!OnPeriodic
<1>2. PICK subnet \in [1..n -> Subnets \ {link[l].subnet : l \in listed}] :
         /\ \A i, j \in 1..n : subnet[i] = subnet[j] => i = j
         /\ Net!Create([i \in 1..n |-> Net!NewLink(FALSE, subnet[i])], "net")
      BY <1>1
<1> DEFINE new == [i \in 1..n |-> Net!NewLink(FALSE, subnet[i])]
           added == (Len(link) + 1)..(Len(link) + n)
<1>3. n \in Nat OBVIOUS
<1>4. new \in Seq(NetLinkState) /\ Len(new) = n
  <2>1. new \in [1..n -> NetLinkState] BY NetNewLinkType
  <2> HIDE DEF new
  <2>2. new \in Seq(NetLinkState) BY <2>1, <1>3, NetFunctionIsSeq
  <2>3. DOMAIN new = 1..n BY <2>1
  <2>4. QED BY <2>2, <2>3, <1>3
<1>5. /\ UNCHANGED <<listed, listener>> /\ Cardinality(listed) < MaxLinks
      /\ overlap' = (overlap \/ Net!OnTheWay) /\ link' = link \o new
      BY <1>2, NetCardinality DEF Net!OnPeriodic, Net!Create
<1>6. /\ Net!LinkIds' = Net!LinkIds \cup added
      /\ \A k \in Net!LinkIds : link'[k] = link[k] /\ k \notin added
      /\ \A i \in 1..n : link'[Len(link) + i] = new[i]
  <2>1. link \in Seq(NetLinkState) /\ Net!LinkIds = 1..Len(link) /\ Len(link) \in Nat
        BY NetTypedLinks
  <2> HIDE DEF new
  <2>2. \A i \in 1..Len(new) : (link \o new)[Len(link) + i] = new[i] BY <2>1, <1>4
  <2>3. /\ Net!LinkIds' = 1..(Len(link) + n)
        /\ \A k \in Net!LinkIds : link'[k] = link[k]
        BY <2>1, <1>4, <1>5, NetAppended DEF Net!LinkIds
  <2>4. QED BY <2>1, <2>2, <2>3, <1>3, <1>4, <1>5
<1>7. \A k \in added : /\ k - Len(link) \in 1..n
                       /\ link'[k].pc = "connecting" /\ ~link'[k].incoming
                       /\ link'[k].subnet = subnet[k - Len(link)]
  <2> SUFFICES ASSUME NEW k \in added
               PROVE  /\ k - Len(link) \in 1..n
                      /\ link'[k].pc = "connecting" /\ ~link'[k].incoming
                      /\ link'[k].subnet = subnet[k - Len(link)]
      OBVIOUS
  <2>1. k - Len(link) \in 1..n /\ k = Len(link) + (k - Len(link)) BY NetTypedLinks, <1>3
  <2>2. link'[k] = Net!NewLink(FALSE, subnet[k - Len(link)]) BY <2>1, <1>6
  <2>3. QED BY <2>1, <2>2 DEF Net!NewLink
<1> HIDE DEF new, added
<1>8. NetListed' BY <1>5, <1>6, <1>7 DEF NetLimitsInv, NetListed, Net!At
<1>9. ASSUME ~overlap' PROVE NetLimits'
  <2>1. NetLimits /\ ~Net!OnTheWay BY <1>5, <1>9 DEF NetLimitsInv, NetInv, Net!TypeOK, Net!OnTheWay
  <2>2. listener # "admits" /\ \A l \in Net!LinkIds : ~NetPending(l)
        BY <2>1 DEF Net!OnTheWay, NetPending
  <2>3. IsFiniteSet(added) /\ Cardinality(added) = n
    <3>1. Len(link) + 1 \in Int /\ Len(link) + n \in Int BY <1>3, NetTypedLinks
    <3>2. LET lo == Len(link) + 1
              hi == Len(link) + n
          IN  IsFiniteSet(lo..hi) /\ Cardinality(lo..hi) = IF lo > hi THEN 0 ELSE hi - lo + 1
          BY <3>1, FS_Interval
    <3>3. QED BY <3>2, <1>3, NetTypedLinks DEF added
  <2>4. NetCounted' \subseteq listed \cup added
        BY <1>6, <2>2 DEF NetLimitsInv, NetListed, NetCounted, NetPending, Net!At
  <2>5. IsFiniteSet(listed) /\ Cardinality(listed) \in Nat
        BY NetFinite DEF NetInv, Net!TypeOK
  <2>6. /\ IsFiniteSet(listed \cup added) /\ Cardinality(listed \cup added) \in Nat
        /\ Cardinality(listed \cup added) <= Cardinality(listed) + n
        BY <2>3, <2>5, NetUnion
  <2>7. Cardinality(NetCounted') \in Nat /\ Cardinality(NetCounted') <= Cardinality(listed) + n
        BY <2>4, <2>5, <2>6, <1>3, FS_Subset, FS_CardinalityType
  <2> DEFINE old == {l \in listed : ~link[l].incoming}
  <2>8. Net!CountOutgoing = Cardinality(old) BY NetCardinality DEF Net!CountOutgoing
  <2>9. IsFiniteSet(old) /\ Cardinality(old) \in Nat BY NetFinite DEF NetInv, Net!TypeOK
  <2>10. n <= MaxOutboundConnections - Cardinality(old) BY <2>8, <2>9, NetAssumption
  <2>11. Cardinality(NetCounted') < MaxLinks + MaxOutboundConnections
         BY <2>5, <2>7, <2>9, <2>10, <1>3, <1>5, NetAssumption
  <2>12. Net!Outgoing' \subseteq old \cup added /\ Net!Outgoing = old
         BY <1>6, <2>2
            DEF NetInv, Net!TypeOK, NetLimitsInv, NetListed, Net!Outgoing, NetPending, Net!At
  <2>13. Cardinality(Net!Outgoing') <= MaxOutboundConnections
    <3>1. /\ IsFiniteSet(old \cup added) /\ Cardinality(old \cup added) \in Nat
          /\ Cardinality(old \cup added) <= Cardinality(old) + n
          BY <2>3, <2>9, NetUnion
    <3>2. Cardinality(Net!Outgoing') \in Nat
          /\ Cardinality(Net!Outgoing') <= Cardinality(old \cup added)
          BY <2>12, <3>1, FS_Subset, FS_CardinalityType
    <3>3. QED BY <3>1, <3>2, <2>9, <2>10, <1>3, NetAssumption
  <2>14. \A l, k \in Net!Outgoing' : link'[l].subnet = link'[k].subnet => l = k
    <3>1. \A l \in added, k \in old : link'[l].subnet # link'[k].subnet
      <4> SUFFICES ASSUME NEW l \in added, NEW k \in old PROVE link'[l].subnet # link'[k].subnet
          OBVIOUS
      <4>1. link'[k] = link[k] /\ k \in listed BY <1>6 DEF NetInv, Net!TypeOK
      <4>2. subnet[l - Len(link)] \in Subnets \ {link[m].subnet : m \in listed} BY <1>7
      <4>3. QED BY <4>1, <4>2, <1>7
    <3>2. \A l, k \in added : link'[l].subnet = link'[k].subnet => l = k
      <4> SUFFICES ASSUME NEW l \in added, NEW k \in added, link'[l].subnet = link'[k].subnet
                   PROVE  l = k
          OBVIOUS
      <4>1. l - Len(link) = k - Len(link) BY <1>2, <1>7
      <4>2. QED BY <4>1, <1>3, NetTypedLinks DEF added
    <3>3. \A l, k \in old : link'[l].subnet = link'[k].subnet => l = k
          BY <1>6, <2>1, <2>12 DEF NetLimits, NetInv, Net!TypeOK
    <3> HIDE DEF old
    <3>4. QED BY <2>12, <3>1, <3>2, <3>3
  <2>15. listener' # "admits" BY <1>5, <2>2
  <2>16. QED BY <2>11, <2>13, <2>14, <2>15 DEF NetLimits
<1>10. QED BY <1>8, <1>9 DEF NetLimitsInv

LEMMA NetStepKeepsLimits == ASSUME NetInv, NetLimitsInv, [Net!Next]_Net!vars PROVE NetLimitsInv'
<1>1. CASE Net!Accept \/ Net!ListenerEnds
      BY <1>1, NetAcceptKeepsLimits, NetListenerEndsKeepsLimits
<1>2. CASE Net!Admit BY <1>2, NetAdmitKeepsLimits
<1>3. CASE Net!OnPeriodic BY <1>3, NetOnPeriodicKeepsLimits
<1>4. CASE \E l \in Net!LinkIds : Net!LinkStep(l) BY <1>4, NetLinkStepKeepsLimits
<1>5. CASE \E g \in Net!Groups : Net!InterruptAll(g) \/ Net!JoinAllBegins(g) \/ Net!JoinAllEnds(g)
      BY <1>5, NetLimitsStay DEF Net!InterruptAll, Net!JoinAllBegins, Net!JoinAllEnds
<1>6. CASE UNCHANGED Net!vars BY <1>6, NetLimitsStay DEF Net!vars
<1>7. QED BY <1>1, <1>2, <1>3, <1>4, <1>5, <1>6 DEF Net!Next

-----------------------------------------------------------------------------
(* The net in the library.                                                 *)

LEMMA NetInitially == Init => NetInv /\ NetLimitsInv
<1> SUFFICES ASSUME Init PROVE NetInv /\ NetLimitsInv OBVIOUS
<1>1. Net!Init /\ NetInv BY NetInitHolds DEF Init
<1>2. Net!LinkIds = {} /\ listener = "accepts" BY <1>1 DEF Net!Init, Net!LinkIds
<1>3. NetCounted = {} /\ Net!Outgoing = {} BY <1>2 DEF NetCounted, Net!Outgoing
<1>4. NetLimitsInv BY <1>2, <1>3, FS_EmptySet, NetAssumption DEF NetLimitsInv, NetListed, NetLimits
<1>5. QED BY <1>1, <1>4

LEMMA NetPreserved == NetInv /\ NetLimitsInv /\ [Next]_vars => (NetInv /\ NetLimitsInv)'
<1>1. [Next]_vars => [Net!Next]_Net!vars
      BY DEF Next, CgiStep, RpcStep, EventStep, LooperStep, StrStep, NetStep, LinkStep,
             vars, netVars, Net!vars, Net!groups
<1>2. QED BY <1>1, NetStepPreserves, NetStepKeepsLimits

(* StopChilds() returns only after the links that it told to stop have     *)
(* ended, although they change the group while they are told.              *)
THEOREM StopTheorem == Spec => []StopWaitsForLinks
<1>1. NetInv => StopWaitsForLinks
      BY DEF NetInv, NetHeld, NetToldIsHeld, StopWaitsForLinks, Net!StopWaitsForLinks, Net!InHandsOf
<1>2. QED BY <1>1, NetInitially, NetPreserved, PTL DEF Spec

(* The limits on outgoing links, on links of one subnet and on the list    *)
(* are exceeded only if IsTooManyLinks() or OnPeriodic() counted the list  *)
(* while a link was on its way to it.                                      *)
THEOREM LimitsTheorem == Spec => []LimitsHoldUnlessOverlapped
<1>1. NetInv /\ NetLimitsInv => LimitsHoldUnlessOverlapped
  <2> SUFFICES ASSUME NetInv, NetLimitsInv, ~overlap
               PROVE  /\ Cardinality(Net!Outgoing) <= MaxOutboundConnections
                      /\ \A l, k \in Net!Outgoing : link[l].subnet = link[k].subnet => l = k
                      /\ Cardinality(listed) < MaxLinks + MaxOutboundConnections
      BY NetCardinality DEF LimitsHoldUnlessOverlapped, Net!LimitsHoldUnlessOverlapped
  <2>1. NetLimits BY DEF NetLimitsInv
  <2>2. listed \subseteq NetCounted /\ NetCounted \subseteq Net!LinkIds
        BY DEF NetInv, Net!TypeOK, NetCounted
  <2>3. /\ IsFiniteSet(NetCounted) /\ Cardinality(listed) \in Nat /\ Cardinality(NetCounted) \in Nat
        BY <2>2, NetFinite
  <2>4. Cardinality(listed) <= Cardinality(NetCounted) BY <2>2, <2>3, FS_Subset
  <2>5. QED BY <2>1, <2>3, <2>4, NetAssumption DEF NetLimits
<1>2. QED BY <1>1, NetInitially, NetPreserved, PTL DEF Spec

-----------------------------------------------------------------------------
(* LinkLoop: the places of the messages.                                   *)

(* A set of numbers that has one has a least one.                          *)
LEMMA LeastNumber ==
  ASSUME NEW S \in SUBSET Nat, S # {}
  PROVE  \E m \in S : \A n \in S : m <= n
<1> DEFINE R == OpToRel(<, Nat)
<1>1. IsWellFoundedOn(R, Nat) BY NatLessThanWellFounded
<1>2. \A x, y \in Nat : <<x, y>> \in R <=> x < y BY DEF OpToRel
<1> HIDE DEF R
<1>3. PICK m \in S : \A n \in S : ~(<<n, m>> \in R) BY <1>1, WFMin
<1>4. ASSUME NEW n \in S PROVE m <= n
  <2>1. ~(n < m) BY <1>2, <1>3
  <2>2. m \in Nat /\ n \in Nat OBVIOUS
  <2>3. QED BY <2>1, <2>2
<1>5. QED BY <1>4

(* The remainder of Replace(), whose size is kept in a byte.               *)
LEMMA Remainder ==
  ASSUME NEW a \in Nat, NEW m \in Nat \ {0}
  PROVE  a % m \in 0..a /\ (a < m => a % m = a)
OBVIOUS

(* Messages are not empty, so no two begin at the same place.              *)
LEMMA LinkPlaces ==
  ASSUME begin \in Link!Streams
  PROVE  /\ begin \in [1..(MaxMessages + 1) -> Nat] /\ begin[1] = 0
         /\ \A i \in 1..MaxMessages :
               /\ begin[i + 1] - begin[i] - Header \in 0..MaxPayload
               /\ begin[i] + Header <= begin[i + 1]
         /\ \A i, j \in 1..(MaxMessages + 1) : i < j => begin[i] + Header <= begin[j]
<1> USE LinkAssumption
<1>1. /\ \A i \in 1..(MaxMessages + 1) : begin[i] \in Nat
      /\ begin[1] = 0 /\ begin = [i \in 1..(MaxMessages + 1) |-> begin[i]]
      /\ \A i \in 1..MaxMessages : begin[i + 1] - begin[i] - Header \in 0..MaxPayload
      BY DEF Link!Streams, Link!Payloads
<1>2. ASSUME NEW i \in 1..MaxMessages PROVE begin[i] + Header <= begin[i + 1]
  <2>1. i \in 1..(MaxMessages + 1) /\ i + 1 \in 1..(MaxMessages + 1) OBVIOUS
  <2>2. begin[i] \in Nat /\ begin[i + 1] \in Nat BY <2>1, <1>1
  <2>3. begin[i + 1] - begin[i] - Header \in 0..MaxPayload BY <1>1
  <2>4. QED BY <2>2, <2>3
<1>3. ASSUME NEW i \in 1..(MaxMessages + 1)
      PROVE  \A j \in 1..(MaxMessages + 1) : i < j => begin[i] + Header <= begin[j]
  <2> DEFINE Wrong == {j \in 1..(MaxMessages + 1) : i < j /\ ~(begin[i] + Header <= begin[j])}
  <2>1. SUFFICES ASSUME Wrong # {} PROVE FALSE OBVIOUS
  <2>2. Wrong \in SUBSET Nat OBVIOUS
  <2>3. PICK m \in Wrong : \A n \in Wrong : m <= n
    <3> HIDE DEF Wrong
    <3>1. QED BY <2>1, <2>2, LeastNumber
  <2>4. m \in 2..(MaxMessages + 1) /\ i < m /\ m - 1 \in 1..MaxMessages /\ (m - 1) + 1 = m
        OBVIOUS
  <2>5. begin[m - 1] + Header <= begin[m] BY <2>4, <1>2
  <2>6. begin[i] \in Nat /\ begin[m] \in Nat /\ begin[m - 1] \in Nat BY <2>4, <1>1
  <2>7. CASE m - 1 = i BY <2>5, <2>6, <2>7
  <2>8. CASE m - 1 # i
    <3>1. i < m - 1 /\ m - 1 \in 1..(MaxMessages + 1) /\ ~(m <= m - 1) BY <2>4, <2>8
    <3>2. m - 1 \notin Wrong BY <3>1, <2>3
    <3>3. begin[i] + Header <= begin[m - 1] BY <3>1, <3>2
    <3>4. QED BY <3>3, <2>5, <2>6
  <2>9. QED BY <2>7, <2>8
<1>4. QED BY <1>1, <1>2, <1>3

-----------------------------------------------------------------------------
(* LinkLoop: what is received.  The buffer of Execute() begins where a     *)
(* message begins, and has the size of the header, or of the message when  *)
(* its header has been read.                                               *)

LinkReceived ==
    /\ begin \in Link!Streams
    /\ peer \in [sent : Nat, closed : BOOLEAN] /\ peer.sent <= begin[MaxMessages + 1]
    /\ read \in 0..peer.sent /\ size \in Nat /\ have \in 0..size /\ inPayload \in BOOLEAN
    /\ delivered \in Seq(Nat \X Nat) /\ Len(delivered) <= MaxMessages
    /\ read - have = begin[Len(delivered) + 1]
    /\ ~inPayload => size = Header
    /\ inPayload => Len(delivered) < MaxMessages
                    /\ size = begin[Len(delivered) + 2] - begin[Len(delivered) + 1]
    /\ pc = "magic" => read = 0 /\ have = 0 /\ ~inPayload
    /\ Link!MessagesAreWhole

LEMMA LinkReceivedInit ==
  ASSUME Link!Init
  PROVE  LinkReceived
<1> USE LinkAssumption
<1>1. /\ begin \in Link!Streams /\ read \in {0, 1} /\ peer = [sent |-> read, closed |-> FALSE]
      /\ have = read /\ size = Header /\ inPayload = FALSE /\ delivered = <<>>
      /\ pc = "magic" => read = 0
      BY DEF Link!Init
<1>2. begin[1] = 0 /\ 1 <= begin[MaxMessages + 1]
  <2>1. 1 \in 1..(MaxMessages + 1) /\ MaxMessages + 1 \in 1..(MaxMessages + 1)
        /\ 1 < MaxMessages + 1
        OBVIOUS
  <2>2. begin[1] = 0 /\ begin[1] + Header <= begin[MaxMessages + 1]
        /\ begin[MaxMessages + 1] \in Nat
        BY <2>1, <1>1, LinkPlaces
  <2>3. QED BY <2>2
<1>3. Len(delivered) = 0 /\ delivered \in Seq(Nat \X Nat) /\ DOMAIN delivered = {} BY <1>1
<1>4. Link!MessagesAreWhole BY <1>3 DEF Link!MessagesAreWhole
<1>5. peer.sent = read /\ peer \in [sent : Nat, closed : BOOLEAN] BY <1>1
<1>6. /\ peer.sent <= begin[MaxMessages + 1] /\ read \in 0..peer.sent
      /\ size \in Nat /\ have \in 0..size /\ Len(delivered) <= MaxMessages
      /\ read - have = begin[Len(delivered) + 1]
  <2>1. read \in Nat /\ read <= 1 /\ read - have = 0 /\ Len(delivered) + 1 = 1 BY <1>1, <1>3
  <2>2. begin[MaxMessages + 1] \in Nat BY <1>1, LinkPlaces
  <2>3. QED BY <2>1, <2>2, <1>1, <1>2, <1>3, <1>5
<1>7. QED BY <1>1, <1>3, <1>4, <1>5, <1>6 DEF LinkReceived

(* Steps that do not receive; the magic number is the first of the header. *)
LEMMA LinkOthersKeepReceived ==
  ASSUME LinkReceived, UNCHANGED <<begin, read, have, size, inPayload, delivered>>,
         pc' # "magic" \/ pc = "magic",
         \/ UNCHANGED peer
         \/ Link!PeerSends
         \/ Link!PeerCloses
  PROVE  LinkReceived'
<1>1. peer' \in [sent : Nat, closed : BOOLEAN] /\ peer'.sent <= begin[MaxMessages + 1]
      /\ peer.sent <= peer'.sent
  <2>1. MaxMessages + 1 \in 1..(MaxMessages + 1) /\ begin[MaxMessages + 1] \in Nat
        BY LinkAssumption, LinkPlaces DEF LinkReceived
  <2>2. peer \in [sent : Nat, closed : BOOLEAN] /\ peer.sent <= begin[MaxMessages + 1]
        BY DEF LinkReceived
  <2>3. CASE UNCHANGED peer BY <2>2, <2>3
  <2>4. CASE Link!PeerSends BY <2>1, <2>2, <2>4 DEF Link!PeerSends, Link!StreamSize
  <2>5. CASE Link!PeerCloses
    <3>1. peer' = [peer EXCEPT !.closed = TRUE] BY <2>5 DEF Link!PeerCloses
    <3>2. peer'.sent = peer.sent /\ peer' \in [sent : Nat, closed : BOOLEAN] /\ peer.sent \in Nat
          BY <3>1, <2>2
    <3>3. QED BY <3>2, <2>2
  <2>6. QED BY <2>3, <2>4, <2>5
<1>2. read' \in 0..peer'.sent BY <1>1 DEF LinkReceived
<1>3. Link!MessagesAreWhole' BY DEF LinkReceived, Link!MessagesAreWhole
<1>4. QED BY <1>1, <1>2, <1>3 DEF LinkReceived

LEMMA LinkMagicKeepsReceived ==
  ASSUME LinkReceived, Link!ReadMagic
  PROVE  LinkReceived'
<1> USE LinkAssumption
<1>1. /\ read = 0 /\ have = 0 /\ ~inPayload /\ size = Header /\ peer.sent \in Nat
      /\ read' = Magic /\ have' = Magic /\ peer.sent >= Magic /\ pc' = "test"
      /\ UNCHANGED <<begin, peer, size, inPayload, delivered>>
      BY DEF LinkReceived, Link!ReadMagic, Link!Goto
<1>2. read' \in 0..peer'.sent /\ have' \in 0..size' /\ read' - have' = read - have BY <1>1
<1>3. Link!MessagesAreWhole' BY <1>1 DEF LinkReceived, Link!MessagesAreWhole
<1>4. QED BY <1>1, <1>2, <1>3 DEF LinkReceived

(* The header at the beginning of the buffer tells its own payload.        *)
LEMMA LinkPayloadAt ==
  ASSUME begin \in Link!Streams, NEW i \in 1..MaxMessages
  PROVE  Link!PayloadAt(begin[i] + Header) = {begin[i + 1] - (begin[i] + Header)}
<1> USE LinkAssumption
<1>1. \A j \in 1..MaxMessages : begin[j] = (begin[i] + Header) - Header => j = i
  <2>1. \A j \in 1..MaxMessages : j \in 1..(MaxMessages + 1) /\ begin[j] \in Nat BY LinkPlaces
  <2>2. ASSUME NEW j \in 1..MaxMessages, begin[j] = (begin[i] + Header) - Header PROVE j = i
    <3>1. begin[j] = begin[i] BY <2>1, <2>2
    <3>2. /\ j < i => begin[j] + Header <= begin[i]
          /\ i < j => begin[i] + Header <= begin[j]
          BY <2>1, LinkPlaces
    <3>3. begin[i] \in Nat /\ begin[j] \in Nat BY <2>1
    <3>4. QED BY <3>1, <3>2, <3>3
  <2>3. QED BY <2>2
<1>2. (begin[i] + Header) - Header = begin[i] BY LinkPlaces
<1>3. {j \in 1..MaxMessages : begin[j] = (begin[i] + Header) - Header} = {i} BY <1>1, <1>2
<1> DEFINE to == begin[i] + Header
       J == {j \in 1..MaxMessages : begin[j] = to - Header}
<1>4. Link!PayloadAt(to) = IF J = {} THEN Link!Payloads ELSE {begin[j + 1] - to : j \in J}
      BY DEF Link!PayloadAt
<1> HIDE DEF to, J
<1>5. J = {i}
  <2>1. to - Header = (begin[i] + Header) - Header BY DEF to
  <2>2. QED BY <2>1, <1>3 DEF J
<1>6. {begin[j + 1] - to : j \in J} = {begin[i + 1] - to} BY <1>5
<1>7. QED BY <1>4, <1>5, <1>6 DEF to

(* Receive() fills the buffer, which is then the header, the message, or   *)
(* both.                                                                   *)
LEMMA LinkReceiveKeepsReceived ==
  ASSUME LinkReceived, Link!Receive
  PROVE  LinkReceived'
<1> USE LinkAssumption
<1> DEFINE i == Len(delivered) + 1
<1>1. PICK n \in 1..(peer.sent - read) :
          /\ n <= size - have
          /\ read' = read + n
          /\ \/ /\ have + n < size
                /\ have' = have + n
                /\ UNCHANGED <<size, inPayload, delivered, lastLive>>
             \/ /\ have + n = size /\ ~inPayload
                /\ \E p \in Link!PayloadAt(read + n) \ {0} :
                      size' = size + p /\ have' = size /\ inPayload' = TRUE
                /\ UNCHANGED <<delivered, lastLive>>
             \/ /\ have + n = size
                /\ inPayload \/ 0 \in Link!PayloadAt(read + n)
                /\ Link!Delivered(read + n)
      BY DEF Link!Receive
<1>2. UNCHANGED <<begin, peer, pc>> /\ pc = "read" BY DEF Link!Receive
<1>3. /\ peer.sent \in Nat /\ read \in Nat /\ have \in Nat /\ size \in Nat /\ n \in Nat
      /\ read + n \in 0..peer.sent /\ peer.sent <= begin[MaxMessages + 1]
      /\ Len(delivered) \in Nat /\ i \in 1..(MaxMessages + 1) /\ read - have = begin[i]
      /\ begin[i] \in Nat /\ begin[MaxMessages + 1] \in Nat
  <2>1. /\ peer.sent \in Nat /\ read \in 0..peer.sent /\ have \in 0..size /\ size \in Nat
        /\ peer.sent <= begin[MaxMessages + 1] /\ read - have = begin[i]
        /\ Len(delivered) \in Nat /\ Len(delivered) <= MaxMessages /\ begin \in Link!Streams
        BY DEF LinkReceived
  <2>2. i \in 1..(MaxMessages + 1) /\ MaxMessages + 1 \in 1..(MaxMessages + 1) BY <2>1
  <2> HIDE DEF i
  <2>3. begin[i] \in Nat /\ begin[MaxMessages + 1] \in Nat BY <2>1, <2>2, LinkPlaces
  <2>4. read + n \in 0..peer.sent BY <2>1
  <2>5. QED BY <2>1, <2>2, <2>3, <2>4
<1> HIDE DEF i
<1>4. CASE have + n < size /\ have' = have + n /\ UNCHANGED <<size, inPayload, delivered, lastLive>>
  <2>1. read' \in 0..peer'.sent /\ have' \in 0..size' /\ read' - have' = read - have
        BY <1>1, <1>2, <1>3, <1>4
  <2>2. Link!MessagesAreWhole' BY <1>2, <1>4 DEF LinkReceived, Link!MessagesAreWhole
  <2>3. QED BY <2>1, <2>2, <1>2, <1>4 DEF LinkReceived
(* The header is full.                                                     *)
<1>5. ASSUME have + n = size, ~inPayload
      PROVE  /\ i \in 1..MaxMessages /\ size = Header /\ read + n = begin[i] + Header
             /\ Link!PayloadAt(read + n) = {begin[i + 1] - (read + n)}
             /\ begin[i + 1] \in Nat /\ begin[i] + Header <= begin[i + 1]
  <2>0. size = Header BY <1>5 DEF LinkReceived
  <2>1. size = Header /\ read + n = begin[i] + Header BY <2>0, <1>3, <1>5
  <2>2. i # MaxMessages + 1 BY <2>1, <1>3
  <2>3. i \in 1..MaxMessages /\ i + 1 \in 1..(MaxMessages + 1) BY <2>2, <1>3
  <2>4. Link!PayloadAt(read + n) = {begin[i + 1] - (read + n)}
        BY <2>1, <2>3, LinkPayloadAt DEF LinkReceived
  <2>5. QED BY <2>1, <2>3, <2>4, LinkPlaces DEF LinkReceived
<1>6. CASE /\ have + n = size /\ ~inPayload
           /\ \E p \in Link!PayloadAt(read + n) \ {0} :
                 size' = size + p /\ have' = size /\ inPayload' = TRUE
           /\ UNCHANGED <<delivered, lastLive>>
  <2>1. PICK p \in Link!PayloadAt(read + n) \ {0} : size' = size + p /\ have' = size BY <1>6
  <2>2. p = begin[i + 1] - (read + n) BY <2>1, <1>5, <1>6
  <2>3. size' = begin[i + 1] - begin[i] /\ size' \in Nat /\ have' \in 0..size'
        /\ read' - have' = read - have
    <3>1. size' = Header + (begin[i + 1] - (begin[i] + Header)) BY <2>1, <2>2, <1>5, <1>6
    <3>2. have' = have + n /\ read' = read + n /\ have' = Header BY <2>1, <1>1, <1>5, <1>6
    <3>3. begin[i + 1] \in Nat /\ begin[i] + Header <= begin[i + 1] BY <1>5, <1>6
    <3>4. size' = begin[i + 1] - begin[i] BY <3>1, <3>3, <1>3, SMTT(40)
    <3>5. size' \in Nat /\ Header <= size'
      <4>1. begin[i] \in Nat /\ Header \in Nat BY <1>3
      <4>2. QED BY <4>1, <3>3, <3>4
    <3>6. have' \in 0..size' BY <3>2, <3>5
    <3>7. read' - have' = read - have BY <3>2, <1>3
    <3>8. QED BY <3>4, <3>5, <3>6, <3>7
  <2>4. /\ Len(delivered) < MaxMessages /\ Len(delivered) + 2 = i + 1 /\ Len(delivered) + 1 = i
        BY <1>3, <1>5, <1>6 DEF i
  <2>5. Link!MessagesAreWhole' BY <1>2, <1>6 DEF LinkReceived, Link!MessagesAreWhole
  <2>6. QED BY <2>3, <2>4, <2>5, <1>1, <1>2, <1>3, <1>6 DEF LinkReceived
(* The message is full, and the buffer begins where the next begins.       *)
<1>7. CASE /\ have + n = size
           /\ inPayload \/ 0 \in Link!PayloadAt(read + n)
           /\ Link!Delivered(read + n)
  <2> DEFINE to == read + n
  <2>1. i \in 1..MaxMessages /\ begin[i + 1] = to /\ to - size = begin[i]
    <3>1. CASE inPayload
      <4>1. Len(delivered) + 2 = i + 1 /\ Len(delivered) + 1 = i BY <1>3 DEF i
      <4>2. i \in 1..MaxMessages /\ size = begin[i + 1] - begin[i]
            BY <3>1, <4>1, <1>3 DEF LinkReceived
      <4>3. begin[i + 1] \in Nat BY <4>2, LinkPlaces DEF LinkReceived
      <4>4. read + n - size = begin[i] BY <1>3, <1>7
      <4>5. to \in Nat /\ to - size = begin[i] BY <4>4, <1>3
      <4> HIDE DEF to
      <4>6. to = begin[i] + size BY <4>5, <1>3
      <4>7. begin[i + 1] = begin[i] + size BY <4>2, <4>3, <1>3, SMTT(40)
      <4>8. QED BY <4>2, <4>5, <4>6, <4>7
    <3>2. CASE ~inPayload
      <4>1. 0 \in {begin[i + 1] - to} BY <3>2, <1>5, <1>7
      <4>2. begin[i + 1] = to BY <4>1, <3>2, <1>3, <1>5, <1>7
      <4>3. to - size = begin[i] BY <1>3, <1>7
      <4>4. QED BY <4>2, <4>3, <3>2, <1>5, <1>7
    <3>3. QED BY <3>1, <3>2 DEF LinkReceived
  <2>2. /\ delivered' = Append(delivered, <<to - size, to>>)
        /\ size' = Header /\ have' = 0 /\ inPayload' = FALSE
        BY <1>7 DEF Link!Delivered
  <2> HIDE DEF to
  <2>3. <<to - size, to>> \in Nat \X Nat BY <2>1, <1>3, LinkPlaces DEF to
  <2>4. /\ delivered' \in Seq(Nat \X Nat) /\ Len(delivered') = i
        /\ \A k \in 1..Len(delivered) : delivered'[k] = delivered[k]
        /\ delivered'[i] = <<begin[i], begin[i + 1]>>
        BY <2>1, <2>2, <2>3, AppendProperties, SMTT(40) DEF LinkReceived, i
  <2>5. Link!MessagesAreWhole'
    <3>1. DOMAIN delivered' = 1..i /\ DOMAIN delivered = 1..Len(delivered) BY <2>4 DEF LinkReceived
    <3>2. \A k \in 1..i : k = i \/ k \in 1..Len(delivered) BY <1>3 DEF i
    <3>3. \A k \in 1..Len(delivered) : delivered[k] = <<begin[k], begin[k + 1]>>
          BY <3>1 DEF LinkReceived, Link!MessagesAreWhole
    <3>4. \A k \in 1..i : delivered'[k] = <<begin[k], begin[k + 1]>> BY <3>2, <3>3, <2>4
    <3>5. QED BY <3>1, <3>4, <1>2 DEF Link!MessagesAreWhole
  <2>6. read' - have' = begin[i + 1] BY <2>1, <2>2, <1>1, <1>3 DEF to
  <2>7. read' \in 0..peer'.sent /\ have' \in 0..size' BY <2>2, <1>1, <1>2, <1>3
  <2>8. begin[Len(delivered') + 1] = begin[i + 1] /\ Len(delivered') <= MaxMessages BY <2>1, <2>4
  <2>9. /\ begin \in Link!Streams /\ peer \in [sent : Nat, closed : BOOLEAN]
        /\ peer.sent <= begin[MaxMessages + 1]
        BY DEF LinkReceived
  <2>10. QED BY <2>2, <2>4, <2>5, <2>6, <2>7, <2>8, <2>9, <1>2 DEF LinkReceived
<1>8. QED BY <1>1, <1>4, <1>6, <1>7

-----------------------------------------------------------------------------
(* LinkLoop: what is sent.  What the socket has taken and what waits in    *)
(* the buffer are together what was queued, until Replace() cuts it.       *)

LinkSending ==
    /\ queued \in 0..MaxQueued /\ truncated \in BOOLEAN
    /\ data \in Seq(1..queued) /\ sent \in Seq(1..queued)
    /\ Link!SentInOrder

(* The places of the first n bytes.                                        *)
LinkPlacesTo(n) == [i \in 1..n |-> i]

LEMMA LinkPlacesToAppend ==
  ASSUME NEW q \in Nat, NEW n \in Nat
  PROVE  /\ LinkPlacesTo(q) \in Seq(1..(q + n)) /\ [i \in 1..n |-> q + i] \in Seq(1..(q + n))
         /\ LinkPlacesTo(q) \o [i \in 1..n |-> q + i] = LinkPlacesTo(q + n)
<1> DEFINE S == 1..(q + n)
           new == [i \in 1..n |-> q + i]
<1>1. new \in [1..n -> S] /\ LinkPlacesTo(q) \in [1..q -> S]
      /\ LinkPlacesTo(q + n) \in [1..(q + n) -> S]
      BY DEF LinkPlacesTo
<1>2. /\ new \in Seq(S) /\ Len(new) = n
      /\ LinkPlacesTo(q) \in Seq(S) /\ Len(LinkPlacesTo(q)) = q
      /\ LinkPlacesTo(q + n) \in Seq(S) /\ Len(LinkPlacesTo(q + n)) = q + n
      BY <1>1, ElementOfSeq, q + n \in Nat DEF LinkPlacesTo
<1>3. /\ LinkPlacesTo(q) \o new \in Seq(S) /\ Len(LinkPlacesTo(q) \o new) = q + n
      /\ \A i \in 1..(q + n) : (LinkPlacesTo(q) \o new)[i] =
                              IF i <= q THEN LinkPlacesTo(q)[i] ELSE new[i - q]
  <2> HIDE DEF S, new, LinkPlacesTo
  <2>1. LET s == LinkPlacesTo(q)
        IN  /\ s \o new \in Seq(S) /\ Len(s \o new) = Len(s) + Len(new)
            /\ \A i \in 1..(Len(s) + Len(new)) :
                  (s \o new)[i] = IF i <= Len(s) THEN s[i] ELSE new[i - Len(s)]
        BY <1>2, ConcatProperties
  <2>2. QED BY <2>1, <1>2
<1>4. ASSUME NEW i \in 1..(q + n) PROVE (LinkPlacesTo(q) \o new)[i] = LinkPlacesTo(q + n)[i]
  <2>1. CASE i <= q BY <2>1, <1>3 DEF LinkPlacesTo
  <2>2. CASE ~(i <= q)
    <3>1. i - q \in 1..n /\ q + (i - q) = i BY <2>2
    <3>2. QED BY <3>1, <2>2, <1>3 DEF LinkPlacesTo
  <2>3. QED BY <2>1, <2>2
<1>5. LinkPlacesTo(q) \o new = LinkPlacesTo(q + n) BY <1>2, <1>3, <1>4, SeqEqual
<1>6. QED BY <1>2, <1>5

(* One Send(): the socket takes the first k bytes of a buffer, and the     *)
(* rest stays unless it is as long as a byte cannot tell.                  *)
LEMMA LinkSendPartCuts ==
  ASSUME NEW q \in Nat, NEW b \in Seq(1..q), NEW k \in 1..Len(b)
  PROVE  /\ Link!Replaced(b, k) \in Seq(1..q) /\ SubSeq(b, 1, k) \in Seq(1..q)
         /\ Len(b) - k < Modulus => SubSeq(b, 1, k) \o Link!Replaced(b, k) = b
<1> DEFINE left == Len(b) - k
           rest == left % Modulus
<1>1. left \in Nat /\ Len(b) \in Nat /\ k \in Nat OBVIOUS
<1>2. Link!Replaced(b, k) = SubSeq(b, k + 1, k + rest) BY DEF Link!Replaced
<1> HIDE DEF left
<1>3. rest \in 0..left /\ (left < Modulus => rest = left) BY <1>1, Remainder, LinkAssumption
<1> HIDE DEF rest
<1>4. k + rest \in Nat /\ k + rest <= Len(b) BY <1>1, <1>3 DEF left
<1>5. SubSeq(b, k + 1, k + rest) \in Seq(1..q)
  <2>1. \A i \in (k + 1)..(k + rest) : b[i] \in 1..q BY <1>1, <1>4
  <2>2. QED BY <2>1, <1>1, <1>4, k + 1 \in Int, k + rest \in Int, SubSeqProperties
<1>6. SubSeq(b, 1, k) \in Seq(1..q)
  <2>1. \A i \in 1..k : b[i] \in 1..q BY <1>1
  <2>2. QED BY <2>1, <1>1, 1 \in Int, SubSeqProperties
<1>7. ASSUME left < Modulus PROVE SubSeq(b, 1, k) \o SubSeq(b, k + 1, k + rest) = b
  <2>1. k + rest = Len(b) BY <1>7, <1>1, <1>3 DEF left
  <2>2. SubSeq(b, 1, k) \o SubSeq(b, k + 1, Len(b)) = SubSeq(b, 1, Len(b))
        BY <1>1, ConcatAdjacentSubSeq
  <2>3. SubSeq(b, 1, Len(b)) = b BY SubSeqFull
  <2>4. QED BY <2>1, <2>2, <2>3
<1>8. QED BY <1>2, <1>5, <1>6, <1>7 DEF left

(* The same of what was sent before and what is left.                      *)
LEMMA LinkSendPartKeepsOrder ==
  ASSUME NEW q \in Nat, NEW b \in Seq(1..q), sent \in Seq(1..q), truncated \in BOOLEAN,
         truncated \/ sent \o b = LinkPlacesTo(q), NEW k \in 1..Len(b), Link!SendPart(b, k)
  PROVE  /\ data' \in Seq(1..q) /\ sent' \in Seq(1..q) /\ truncated' \in BOOLEAN
         /\ truncated' \/ sent' \o data' = LinkPlacesTo(q)
<1> DEFINE first == SubSeq(b, 1, k)
           rest == Link!Replaced(b, k)
<1>1. /\ data' = rest /\ sent' = sent \o first
      /\ truncated' = (truncated \/ Len(b) - k >= Modulus)
      BY DEF Link!SendPart
<1>2. /\ rest \in Seq(1..q) /\ first \in Seq(1..q) /\ sent \in Seq(1..q)
      /\ Len(b) - k < Modulus => first \o rest = b
      BY LinkSendPartCuts
<1> HIDE DEF first, rest
<1>3. sent' \in Seq(1..q) BY <1>1, <1>2, ConcatProperties
<1>4. sent' \o data' = sent \o (first \o rest)
  <2> DEFINE S == 1..q
  <2> HIDE DEF S
  <2>1. (sent \o first) \o rest = sent \o (first \o rest)
    <3>1. rest \in Seq(S) /\ first \in Seq(S) /\ sent \in Seq(S) BY <1>2 DEF S
    <3>2. QED BY <3>1, ConcatAssociative, SMTT(40)
  <2>2. QED BY <2>1, <1>1
<1>5. truncated' \/ (~truncated /\ Len(b) - k < Modulus)
  <2>1. Len(b) - k \in Int /\ Modulus \in Int BY LinkAssumption
  <2>2. Len(b) - k >= Modulus \/ Len(b) - k < Modulus BY <2>1
  <2>3. QED BY <2>2, <1>1, Zenon
<1>6. truncated' \in BOOLEAN BY <1>1
<1>7. QED BY <1>1, <1>2, <1>3, <1>4, <1>5, <1>6

LEMMA LinkSeqGrows ==
  ASSUME NEW q \in Nat, NEW n \in Nat, NEW b \in Seq(1..q)
  PROVE  b \in Seq(1..(q + n))
<1>1. 1..q \subseteq 1..(q + n) OBVIOUS
<1>2. QED BY <1>1, SeqMonotonic

(* SendBinary() of any thread.                                             *)
LEMMA LinkSendBinaryKeepsSending ==
  ASSUME LinkSending, Link!SendBinary
  PROVE  LinkSending'
<1>1. PICK n \in 1..(MaxQueued - queued) :
          /\ queued' = queued + n
          /\ \/ /\ data' = data \o [i \in 1..n |-> queued + i]
                /\ UNCHANGED <<sent, truncated>>
             \/ /\ data = <<>>
                /\ \E k \in 1..n : Link!SendPart([i \in 1..n |-> queued + i], k)
      BY DEF Link!SendBinary
<1> DEFINE new == [i \in 1..n |-> queued + i]
           q == queued + n
<1>2. /\ queued \in Nat /\ n \in Nat /\ q \in 0..MaxQueued /\ q \in Nat /\ queued' = q
      /\ truncated \in BOOLEAN
      BY <1>1, LinkAssumption DEF LinkSending
<1>3. /\ new \in Seq(1..q) /\ data \in Seq(1..q) /\ sent \in Seq(1..q)
      /\ LinkPlacesTo(queued) \in Seq(1..q) /\ LinkPlacesTo(queued) \o new = LinkPlacesTo(q)
      BY <1>2, LinkPlacesToAppend, LinkSeqGrows DEF LinkSending
<1>4. Len(new) = n
  <2>1. DOMAIN new = 1..n BY DEF new
  <2> HIDE DEF new, q
  <2>2. QED BY <2>1, <1>2, <1>3, LenProperties
<1>5. truncated \/ sent \o data = LinkPlacesTo(queued)
      BY DEF LinkSending, Link!SentInOrder, LinkPlacesTo
<1> HIDE DEF new, q
<1>6. truncated \/ sent \o (data \o new) = LinkPlacesTo(q)
  <2>1. (sent \o data) \o new = sent \o (data \o new) BY <1>3, ConcatAssociative, SMTT(40)
  <2>2. QED BY <2>1, <1>3, <1>5
<1>7. /\ data' \in Seq(1..q) /\ sent' \in Seq(1..q) /\ truncated' \in BOOLEAN
      /\ truncated' \/ sent' \o data' = LinkPlacesTo(q)
  <2>1. CASE data' = data \o new /\ UNCHANGED <<sent, truncated>>
    <3>1. data \o new \in Seq(1..q) BY <1>3, ConcatProperties
    <3>2. QED BY <3>1, <2>1, <1>2, <1>3, <1>6
  <2>2. CASE data = <<>> /\ \E k \in 1..n : Link!SendPart(new, k)
    <3>1. PICK k \in 1..Len(new) : Link!SendPart(new, k) BY <2>2, <1>4
    <3>2. data \o new = new BY <2>2, <1>3, ConcatEmptySeq
    <3>3. truncated \/ sent \o new = LinkPlacesTo(q) BY <3>2, <1>6
    <3>4. QED BY <3>1, <3>3, <1>2, <1>3, LinkSendPartKeepsOrder
  <2>3. QED BY <2>1, <2>2, <1>1 DEF new
<1>8. QED BY <1>2, <1>7 DEF LinkSending, Link!SentInOrder, LinkPlacesTo

(* A Send() of the loop.                                                   *)
LEMMA LinkDrainKeepsSending ==
  ASSUME LinkSending, Link!DrainPart
  PROVE  LinkSending'
<1>1. /\ queued \in Nat /\ truncated \in BOOLEAN /\ data \in Seq(1..queued)
      /\ sent \in Seq(1..queued)
      /\ truncated \/ sent \o data = LinkPlacesTo(queued)
      BY LinkAssumption DEF LinkSending, Link!SentInOrder, LinkPlacesTo
<1>2. PICK n \in 1..Len(data) : Link!SendPart(data, n) BY DEF Link!DrainPart
<1>3. /\ data' \in Seq(1..queued) /\ sent' \in Seq(1..queued) /\ truncated' \in BOOLEAN
      /\ truncated' \/ sent' \o data' = LinkPlacesTo(queued)
      BY <1>1, <1>2, LinkSendPartKeepsOrder
<1>4. queued' = queued BY DEF Link!DrainPart
<1>5. QED BY <1>3, <1>4 DEF LinkSending, Link!SentInOrder, LinkPlacesTo

LEMMA LinkIdleKeepsSending ==
  ASSUME LinkSending, UNCHANGED <<data, queued, sent, truncated>>
  PROVE  LinkSending'
BY DEF LinkSending, Link!SentInOrder

(* The rest of what TypeOK says of the link.                               *)
LinkControl ==
    /\ pc \in {"magic", "test", "select", "read", "drain", "check", "ended"}
    /\ size - Header \in {0} \cup Link!Payloads
    /\ lastLive \in {"never", "recent", "old"}
    /\ stop \in BOOLEAN /\ hasToSend \in BOOLEAN

LinkInv == LinkReceived /\ LinkSending /\ LinkControl

LEMMA LinkInitially ==
  ASSUME Link!Init
  PROVE  LinkInv
<1>1. LinkReceived BY LinkReceivedInit
<1>2. LinkSending
  <2>1. queued = 0 /\ data = <<>> /\ sent = <<>> /\ truncated = FALSE BY DEF Link!Init
  <2>2. data \in Seq(1..queued) /\ sent \in Seq(1..queued) BY <2>1
  <2>3. sent \o data = <<>> BY <2>1
  <2>4. [i \in 1..queued |-> i] = <<>> BY <2>1
  <2>5. queued \in 0..MaxQueued /\ truncated \in BOOLEAN
    <3>1. 0 \in 0..MaxQueued BY LinkAssumption
    <3>2. QED BY <3>1, <2>1
  <2>6. Link!SentInOrder BY <2>3, <2>4 DEF Link!SentInOrder
  <2>7. QED BY <2>2, <2>5, <2>6 DEF LinkSending
<1>3. LinkControl
  <2>1. pc \in {"magic", "test"} /\ size = Header /\ stop = FALSE /\ hasToSend = FALSE
        BY DEF Link!Init
  <2>2. lastLive \in {"never", "recent"} BY DEF Link!Init
  <2>3. size - Header = 0 BY <2>1, LinkAssumption
  <2>4. QED BY <2>1, <2>2, <2>3 DEF LinkControl
<1>4. QED BY <1>1, <1>2, <1>3 DEF LinkInv

LEMMA LinkControlPreserved ==
  ASSUME LinkInv, Link!Next
  PROVE  LinkControl'
<1> USE LinkAssumption DEF LinkControl
<1>1. LinkControl BY DEF LinkInv
<1>2. CASE Link!PeerSends \/ Link!PeerCloses \/ Link!TimePasses \/ Link!Stop \/ Link!SendBinary
      BY <1>1, <1>2
      DEF Link!PeerSends, Link!PeerCloses, Link!TimePasses, Link!Stop, Link!SendBinary, Link!in,
          Link!out
<1>3. CASE Link!ReadMagic \/ Link!NoMagic \/ Link!TestStop \/ Link!Select
      BY <1>1, <1>3
      DEF Link!ReadMagic, Link!NoMagic, Link!TestStop, Link!Select, Link!Goto, Link!OnlyGoes,
          Link!in, Link!out
<1>4. CASE Link!ReadStops \/ Link!ReceiveNothing \/ Link!ReceiveBad \/ Link!DrainEnds
      \/ Link!CheckLive
      BY <1>1, <1>4
      DEF Link!ReadStops, Link!ReceiveNothing, Link!ReceiveBad, Link!DrainEnds, Link!CheckLive,
          Link!Goto, Link!OnlyGoes, Link!in, Link!out
<1>5. CASE Link!DrainPart BY <1>1, <1>5 DEF Link!DrainPart, Link!in
<1>6. CASE Link!Receive
  <2>1. /\ UNCHANGED <<pc, stop, hasToSend>> /\ lastLive' \in {lastLive, "recent"}
        BY <1>6 DEF Link!Receive, Link!Delivered
  <2>2. size' - Header \in {0} \cup Link!Payloads
    <3>1. CASE size' = size BY <3>1, <1>1
    <3>2. CASE size' = Header BY <3>2
    <3>3. CASE size' # size /\ size' # Header
      <4>1. inPayload' = TRUE BY <3>3, <1>6 DEF Link!Receive, Link!Delivered
      <4>2. LinkReceived' BY <1>6, LinkReceiveKeepsReceived DEF LinkInv
      <4>3. /\ Len(delivered') < MaxMessages /\ begin' \in Link!Streams /\ Len(delivered') \in Nat
            /\ size' = begin'[Len(delivered') + 2] - begin'[Len(delivered') + 1] /\ begin' = begin
            BY <4>1, <4>2, <1>6 DEF LinkReceived, Link!Receive
      <4> DEFINE i == Len(delivered') + 1
      <4>4. i \in 1..MaxMessages /\ i + 1 = Len(delivered') + 2 BY <4>3
      <4> HIDE DEF i
      <4>5. begin[i + 1] - begin[i] - Header \in 0..MaxPayload BY <4>3, <4>4, LinkPlaces
      <4>6. size' = begin[i + 1] - begin[i] BY <4>3, <4>4 DEF i
      <4>7. QED BY <4>5, <4>6 DEF Link!Payloads
    <3>4. QED BY <3>1, <3>2, <3>3
  <2>3. QED BY <2>1, <2>2, <1>1
<1>7. QED BY <1>2, <1>3, <1>4, <1>5, <1>6 DEF Link!Next, Link!Loop

LEMMA LinkStepPreserves ==
  ASSUME LinkInv, Link!Next
  PROVE  LinkInv'
<1> USE DEF LinkInv
<1>1. LinkControl' BY LinkControlPreserved
<1>2. ASSUME UNCHANGED <<begin, read, have, size, inPayload, delivered, data, queued, sent, truncated>>,
             pc' # "magic" \/ pc = "magic", UNCHANGED peer \/ Link!PeerSends \/ Link!PeerCloses
      PROVE  LinkReceived' /\ LinkSending'
      BY <1>2, LinkOthersKeepReceived, LinkIdleKeepsSending
<1>3. CASE Link!PeerSends \/ Link!PeerCloses
      BY <1>1, <1>2, <1>3 DEF Link!PeerSends, Link!PeerCloses, Link!in, Link!out
<1>4. CASE Link!TimePasses \/ Link!Stop
      BY <1>1, <1>2, <1>4 DEF Link!TimePasses, Link!Stop, Link!in, Link!out
<1>5. CASE Link!NoMagic \/ Link!TestStop \/ Link!Select \/ Link!ReadStops
      BY <1>1, <1>2, <1>5
      DEF Link!NoMagic, Link!TestStop, Link!Select, Link!ReadStops, Link!Goto, Link!OnlyGoes,
          Link!in, Link!out
<1>6. CASE Link!ReceiveNothing \/ Link!ReceiveBad \/ Link!DrainEnds \/ Link!CheckLive
      BY <1>1, <1>2, <1>6
      DEF Link!ReceiveNothing, Link!ReceiveBad, Link!DrainEnds, Link!CheckLive, Link!Goto,
          Link!OnlyGoes, Link!in, Link!out
<1>7. CASE Link!ReadMagic
  <2>1. LinkReceived' BY <1>7, LinkMagicKeepsReceived
  <2>2. LinkSending' BY <1>7, LinkIdleKeepsSending DEF Link!ReadMagic, Link!out
  <2>3. QED BY <2>1, <2>2, <1>1
<1>8. CASE Link!SendBinary
  <2>1. LinkReceived' BY <1>8, LinkOthersKeepReceived DEF Link!SendBinary, Link!in
  <2>2. QED BY <2>1, <1>1, <1>8, LinkSendBinaryKeepsSending
<1>9. CASE Link!Receive
  <2>1. LinkSending' BY <1>9, LinkIdleKeepsSending DEF Link!Receive, Link!out
  <2>2. QED BY <2>1, <1>1, <1>9, LinkReceiveKeepsReceived
<1>10. CASE Link!DrainPart
  <2>1. LinkReceived' BY <1>10, LinkOthersKeepReceived DEF Link!DrainPart, Link!in
  <2>2. QED BY <2>1, <1>1, <1>10, LinkDrainKeepsSending
<1>11. QED BY <1>3, <1>4, <1>5, <1>6, <1>7, <1>8, <1>9, <1>10 DEF Link!Next, Link!Loop

LEMMA LinkPreserved ==
  ASSUME LinkInv, [Next]_vars
  PROVE  LinkInv'
<1>1. CASE LinkStep(Link!Next) BY <1>1, LinkStepPreserves DEF LinkStep
<1>2. CASE UNCHANGED linkVars
  <2>1. UNCHANGED <<begin, peer, pc, read, have, size, inPayload, delivered, lastLive, stop,
                    data, hasToSend, queued, sent, truncated>>
        BY <1>2 DEF linkVars
  <2>2. LinkReceived' BY <2>1, LinkOthersKeepReceived DEF LinkInv
  <2>3. LinkSending' BY <2>1, LinkIdleKeepsSending DEF LinkInv
  <2>4. LinkControl' BY <2>1 DEF LinkInv, LinkControl
  <2>5. QED BY <2>2, <2>3, <2>4 DEF LinkInv
<1>3. QED
      BY <1>1, <1>2
      DEF Next, CgiStep, RpcStep, EventStep, LooperStep, StrStep, NetStep, LinkStep, vars

(* The messages that a link processes are the messages of its peer,        *)
(* however the stream is cut, and its peer gets the bytes that any thread  *)
(* gave to SendBinary() once and in order, until Replace() cuts them.      *)
THEOREM StreamsTheorem == Spec => []StreamsAreWhole
<1>1. Init => LinkInv BY LinkInitially DEF Init
<1>2. LinkInv => StreamsAreWhole
      BY DEF LinkInv, LinkReceived, LinkSending, StreamsAreWhole, Link!StreamsAreWhole
<1>3. QED BY <1>1, <1>2, LinkPreserved, PTL DEF Spec
=============================================================================
