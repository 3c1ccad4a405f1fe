-------------------------------- MODULE Links --------------------------------
(***************************************************************************)
(* The links of one net and the listener (inet/p2p-net.cpp, p2p-peers.cpp): *)
(* the listener accepts a connection unless there are too many links; the  *)
(* incoming link reads the magic number, leaves the listener's thread      *)
(* group, joins the net's group and is listed; the periodic thread opens   *)
(* outgoing links; the application stops the groups.                       *)
(*                                                                         *)
(* What a link does while it is listed is LinkLoop; how a thread starts    *)
(* and ends in a group is ThreadGroup.  A step is a section under MtxPeers, *)
(* MtxNets or the lock of a group, or a call that waits.  Of an address    *)
(* only the subnet counts.  A link may end at any time, so Stop(), which   *)
(* OnPeriodic() calls for silent links, adds no behaviour.                 *)
(***************************************************************************)
EXTENDS Integers, FiniteSets, Sequences

CONSTANTS
    Subnets,                  \* GetGroup() of the peers
    MaxLinks,
    MaxOutboundConnections,
    MaxCreated,               \* bound: Link objects that are created
    MaxStopped                \* bound: likewise, when a group is stopped

VARIABLES
    link,        \* the links in the order of their creation: step, incoming,
                 \* subnet, owner (the group in m_owner)
    listed,      \* PeerManager::Links
    members,     \* m_threads of the two groups
    joining,     \* the threads that join_all() of each group waits for
    phase,       \* how far StopChilds() of each group is
    keep,        \* links whose m_bAutoDelete is FALSE
    listener,    \* ListeningThread: waits in Accept(), or admits a connection
    overlap      \* history: a limit was tested while a link was on its way to the list

groups == <<members, joining, phase, keep>>
vars == <<link, listed, groups, listener, overlap>>

Groups == {"listener", "net"}
LinkIds == DOMAIN link
At(l, pc) == link[l].pc = pc
Running(l) == ~At(l, "ended")
Goto(l, from, to) == At(l, from) /\ link' = [link EXCEPT ![l].pc = to]
OnTheWay == listener = "admits"
            \/ \E l \in LinkIds : link[l].pc \in {"magic", "moving", "found", "connecting"}

AnySubnet == CHOOSE n \in Subnets : TRUE
NewLink(incoming, subnet) ==
    [pc |-> IF incoming THEN "magic" ELSE "connecting", incoming |-> incoming,
     subnet |-> subnet, owner |-> IF incoming THEN "listener" ELSE "net"]

Init ==
    /\ link = <<>>
    /\ listed = {}
    /\ members = [g \in Groups |-> {}]
    /\ joining = [g \in Groups |-> {}]
    /\ phase = [g \in Groups |-> "up"]
    /\ keep = {}
    /\ listener = "accepts"
    /\ overlap = FALSE

(* add_thread(): the group does not ask whether it is being stopped.       *)
Join(ls, g) ==
    /\ members' = [members EXCEPT ![g] = @ \cup ls]
    /\ UNCHANGED <<joining, phase, keep>>

Bound == IF \A g \in Groups : phase[g] = "up" THEN MaxCreated ELSE MaxStopped

(* CreateLink() and Start() of links in a group.                           *)
Create(new, g) ==
    /\ Len(link) + Len(new) <= Bound
    /\ link' = link \o new
    /\ Join((Len(link) + 1)..(Len(link) + Len(new)), g)

-----------------------------------------------------------------------------
(* The listener.                                                           *)

(* Accept(), and IsTooManyLinks() for one net, which waits for MtxNets.     *)
Accept ==
    /\ listener = "accepts"
    /\ \A l \in LinkIds : ~At(l, "moving")
    /\ Cardinality(listed) < MaxLinks
    /\ listener' = "admits"
    /\ overlap' = (overlap \/ OnTheWay)
    /\ UNCHANGED <<link, listed, groups>>

Admit ==
    /\ listener = "admits"
    /\ listener' = "accepts"
    /\ \E n \in Subnets : Create(<<NewLink(TRUE, n)>>, "listener")
    /\ UNCHANGED <<listed, overlap>>

ListenerEnds ==
    /\ listener = "accepts" /\ phase["listener"] # "up"
    /\ listener' = "ended"
    /\ UNCHANGED <<link, listed, groups, overlap>>

-----------------------------------------------------------------------------
(* Link::Execute() up to the list, and its end.                            *)

(* Mutant of Leave: the flag that the stopping thread sets is not asked.   *)
LeaveAlways(l, g) == members' = [members EXCEPT ![g] = @ \ {l}]

(* ThreadBase::Delete() and thread_group::remove_thread().                 *)
Leave(l, g) == members' = [members EXCEPT ![g] = @ \ ({l} \ keep)]

(* The magic of the net is received.                                       *)
LeaveListener(l) ==
    /\ Goto(l, "magic", "moving")
    /\ Leave(l, "listener")
    /\ UNCHANGED <<listed, joining, phase, keep, listener, overlap>>

JoinNet(l) ==
    /\ At(l, "moving")
    /\ link' = [link EXCEPT ![l].pc = "found", ![l].owner = "net"]
    /\ Join({l}, "net")
    /\ UNCHANGED <<listed, listener, overlap>>

(* AddLink(): the incoming link has its net, the outgoing is connected.    *)
AddLink(l) ==
    /\ Goto(l, IF link[l].incoming THEN "found" ELSE "connecting", "loop")
    /\ listed' = listed \cup {l}
    /\ UNCHANGED <<groups, listener, overlap>>

(* LAB_EOF and OnCloseLink(): the loop has ended, or the link did not come *)
(* to it.  With an unknown magic the link returns and is not listed either. *)
CloseLink(l) ==
    /\ link[l].pc \in {"magic", "found", "connecting", "loop"}
    /\ link' = [link EXCEPT ![l].pc = "closed"]
    /\ listed' = listed \ {l}
    /\ UNCHANGED <<groups, listener, overlap>>

(* Of the object that ends only the place in m_threads is left.            *)
EndThread(l) ==
    /\ At(l, "closed")
    /\ link' = [link EXCEPT ![l] = [NewLink(FALSE, AnySubnet) EXCEPT !.pc = "ended"]]
    /\ Leave(l, link[l].owner)
    /\ UNCHANGED <<listed, joining, phase, keep, listener, overlap>>

-----------------------------------------------------------------------------
(* PeerManager::OnPeriodic(): the part under MtxPeers.                     *)

(* Mutant of CountOutgoing: the incoming links are counted.                *)
CountIncoming == Cardinality({l \in listed : link[l].incoming})

CountOutgoing == Cardinality({l \in listed : ~link[l].incoming})

(* A full list: no link is opened.  Otherwise Select() finds peers, and    *)
(* those of a subnet that is not connected yet get a link.                 *)
OnPeriodic ==
    /\ Cardinality(listed) < MaxLinks
    /\ \E n \in 1..(MaxOutboundConnections - CountOutgoing) :
       \E subnet \in [1..n -> Subnets \ {link[l].subnet : l \in listed}] :
          /\ \A i, j \in 1..n : subnet[i] = subnet[j] => i = j
          /\ Create([i \in 1..n |-> NewLink(FALSE, subnet[i])], "net")
    /\ overlap' = (overlap \/ OnTheWay)
    /\ UNCHANGED <<listed, listener>>

-----------------------------------------------------------------------------
(* The application stops the groups, in either order (external).           *)

(* interrupt_all()                                                         *)
InterruptAll(g) ==
    /\ phase[g] = "up" /\ Len(link) <= MaxStopped
    /\ phase' = [phase EXCEPT ![g] = "interrupted"]
    /\ keep' = keep \cup members[g]
    /\ UNCHANGED <<link, listed, members, joining, listener, overlap>>

(* join_all() takes the threads that are there by now, and waits for them  *)
(* and, in the listener's group, for the listener.                         *)
JoinAllBegins(g) ==
    /\ phase[g] = "interrupted"
    /\ phase' = [phase EXCEPT ![g] = "joining"]
    /\ joining' = [joining EXCEPT ![g] = members[g]]
    /\ members' = [members EXCEPT ![g] = {}]
    /\ UNCHANGED <<link, listed, keep, listener, overlap>>

JoinAllEnds(g) ==
    /\ phase[g] = "joining"
    /\ \A l \in joining[g] : ~Running(l)
    /\ g = "listener" => listener = "ended"
    /\ phase' = [phase EXCEPT ![g] = "joined"]
    /\ joining' = [joining EXCEPT ![g] = {}]
    /\ UNCHANGED <<link, listed, members, keep, listener, overlap>>

LinkStep(l) == LeaveListener(l) \/ JoinNet(l) \/ AddLink(l) \/ CloseLink(l) \/ EndThread(l)

Next ==
    \/ Accept \/ Admit \/ ListenerEnds
    \/ \E l \in LinkIds : LinkStep(l)
    \/ OnPeriodic
    \/ \E g \in Groups : InterruptAll(g) \/ JoinAllBegins(g) \/ JoinAllEnds(g)

Spec == Init /\ [][Next]_vars

-----------------------------------------------------------------------------
(* Type correctness of the links, the list and the groups.                 *)
TypeOK ==
    /\ link \in Seq([pc : {"magic", "moving", "found", "connecting", "loop", "closed", "ended"},
                     incoming : BOOLEAN, subnet : Subnets, owner : Groups])
    /\ Len(link) <= MaxCreated
    /\ listed \subseteq {l \in LinkIds : At(l, "loop")}
    /\ members \in [Groups -> SUBSET LinkIds] /\ joining \in [Groups -> SUBSET LinkIds]
    /\ phase \in [Groups -> {"up", "interrupted", "joining", "joined"}]
    /\ keep \subseteq LinkIds
    /\ listener \in {"accepts", "admits", "ended"}
    /\ overlap \in BOOLEAN

Outgoing == {l \in LinkIds : ~link[l].incoming /\ link[l].pc \in {"connecting", "loop"}}

(* As long as neither IsTooManyLinks() nor OnPeriodic() looks at the list   *)
(* while a link is connecting or being admitted, their limits hold: the    *)
(* outgoing links, of one subnet each, and the list, which OnPeriodic()    *)
(* may overfill when it finds one place.                                   *)
LimitsHoldUnlessOverlapped ==
    overlap \/
    /\ Cardinality(Outgoing) <= MaxOutboundConnections
    /\ \A l, k \in Outgoing : link[l].subnet = link[k].subnet => l = k
    /\ Cardinality(listed) < MaxLinks + MaxOutboundConnections

InHandsOf(l, g) == l \in members[g] \cup joining[g]

(* A link that runs belongs to a group, which waits for it if StopChilds() *)
(* is called, except while it is between the groups; and a link that was   *)
(* told to stop is waited for by a StopChilds() that has not returned,     *)
(* although it may have gone on to the other group.                        *)
StopWaitsForLinks ==
    \A l \in LinkIds : Running(l) =>
        /\ At(l, "moving") \/ \E g \in Groups : InHandsOf(l, g)
        /\ l \in keep => \E g \in Groups : phase[g] \in {"interrupted", "joining"} /\ InHandsOf(l, g)
=============================================================================
