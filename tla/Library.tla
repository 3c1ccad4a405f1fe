------------------------------- MODULE Library -------------------------------
(* The components of the library that do not share state, one beside the   *)
(* other: part says which one is at work, and the others stay as they      *)
(* begin.                                                                  *)
EXTENDS Integers, Sequences, FiniteSets

CONSTANTS
    None,
    Ids, Reqs, MaxInput, MaxWire,                       \* FastCgi
    Clients, MaxSize, MaxRequests, MaxStream,           \* JsonRpc
    Threads,                                            \* PthreadEvent
    MaxSent, Room,                                      \* SocketLooper
    Strings, Bufs, Narrows, Empty, Texts, NoText,       \* StringBuf
    Subnets, MaxLinks, MaxOutboundConnections, MaxCreated, MaxStopped,          \* Links
    Header, Magic, MaxPayload, MaxMessages, MaxQueued, Modulus                    \* LinkLoop

VARIABLES
    part,
    web, wire, shut, conn, requests, cgi,
    nextId, reqs, client, toServer, toClient, matched,
    manual, signaled, waiter, timed,
    party, inbound, outbound, socket, keeper, looperPc, ready, at,
    pData, buf, narrow, op, own, held, dirtied,
    link, listed, members, joining, phase, keep, listener, overlap,
    begin, peer, pc, read, have, size, inPayload, delivered, lastLive, stop,
    data, hasToSend, queued, sent, truncated

Cgi == INSTANCE FastCgi
Rpc == INSTANCE JsonRpc WITH NoId <- None
Event == INSTANCE PthreadEvent WITH pc <- waiter
Looper == INSTANCE SocketLooper WITH peer <- party, pc <- looperPc
Str == INSTANCE StringBuf
Net == INSTANCE Links
Link == INSTANCE LinkLoop

(* None stands for no object: it is no request, buffer or text.            *)
ASSUME CgiAssumption == MaxInput \in Nat /\ None \notin Cgi!RequestStates
ASSUME RpcAssumption == MaxSize \in Nat \ {0, 1} /\ MaxRequests \in Nat
ASSUME LooperAssumption == MaxSent \in Nat /\ Room \in Nat
ASSUME StrAssumption ==
    /\ IsFiniteSet(Strings) /\ Empty \in Bufs
    /\ None \notin Str!AllTexts \cup Narrows /\ "null" \notin Narrows \cup {None}
    /\ None \notin [ref : Nat, text : Str!AllTexts, narrow : Narrows \cup {None}, mixed : BOOLEAN]
ASSUME NetAssumption ==
    /\ Subnets # {} /\ MaxLinks \in Nat /\ MaxOutboundConnections \in Nat \ {0}
    /\ MaxCreated \in Nat /\ MaxStopped \in Nat /\ MaxStopped <= MaxCreated
ASSUME LinkAssumption ==
    /\ Header \in Nat \ {0} /\ Magic \in 0..Header /\ MaxPayload \in Nat
    /\ MaxMessages \in Nat \ {0} /\ MaxQueued \in Nat /\ Modulus \in Nat \ {0}

Init ==
    /\ part \in {"cgi", "rpc", "event", "looper", "string", "links", "link"}
    /\ Cgi!Init /\ Rpc!Init /\ Event!Init /\ Looper!Init /\ Str!Init /\ Net!Init /\ Link!Init
    /\ part # "event" => ~manual /\ ~signaled
    /\ part # "link" => pc = "magic" /\ begin = CHOOSE b \in Link!Streams : TRUE

cgiVars == <<web, wire, shut, conn, requests, cgi>>
rpcVars == <<nextId, reqs, client, toServer, toClient, matched>>
eventVars == <<manual, signaled, waiter, timed>>
looperVars == <<party, inbound, outbound, socket, keeper, looperPc, ready, at>>
strVars == <<pData, buf, narrow, op, own, held, dirtied>>
netVars == <<link, listed, members, joining, phase, keep, listener, overlap>>
linkVars == <<begin, peer, pc, read, have, size, inPayload, delivered, lastLive, stop,
              data, hasToSend, queued, sent, truncated>>
vars == <<part, cgiVars, rpcVars, eventVars, looperVars, strVars, netVars, linkVars>>

CgiStep(A) == part = "cgi" /\ A /\ UNCHANGED <<part, rpcVars, eventVars, looperVars, strVars, netVars, linkVars>>
RpcStep(A) == part = "rpc" /\ A /\ UNCHANGED <<part, cgiVars, eventVars, looperVars, strVars, netVars, linkVars>>
EventStep(A) == part = "event" /\ A /\ UNCHANGED <<part, cgiVars, rpcVars, looperVars, strVars, netVars, linkVars>>
LooperStep(A) == part = "looper" /\ A /\ UNCHANGED <<part, cgiVars, rpcVars, eventVars, strVars, netVars, linkVars>>
StrStep(A) == part = "string" /\ A /\ UNCHANGED <<part, cgiVars, rpcVars, eventVars, looperVars, netVars, linkVars>>
NetStep(A) == part = "links" /\ A /\ UNCHANGED <<part, cgiVars, rpcVars, eventVars, looperVars, strVars, linkVars>>
LinkStep(A) == part = "link" /\ A /\ UNCHANGED <<part, cgiVars, rpcVars, eventVars, looperVars, strVars, netVars>>

Next ==
    \/ CgiStep(Cgi!Next)
    \/ RpcStep(Rpc!Next)
    \/ EventStep(Event!Next)
    \/ LooperStep(Looper!Next)
    \/ StrStep(Str!Next)
    \/ NetStep(Net!Next)
    \/ LinkStep(Link!Next)

(* The fairness of the components that state some.                         *)
Spec ==
    /\ Init /\ [][Next]_vars
    /\ \A t \in Threads :
          WF_vars(EventStep(Event!TestSignaled(t))) /\ WF_vars(EventStep(Event!ReturnFalse(t)))
    /\ WF_vars(LinkStep(Link!Loop))

(* Type correctness of the component at work; the others stay as Init has  *)
(* them.                                                                   *)
TypeOK ==
    /\ part = "cgi" => Cgi!TypeOK
    /\ part = "rpc" => Rpc!TypeOK
    /\ part = "event" => Event!TypeOK
    /\ part = "looper" => Looper!TypeOK
    /\ part = "string" => Str!TypeOK
    /\ part = "links" => Net!TypeOK
    /\ part = "link" => Link!TypeOK

(* The properties, each stated in the module of its component.             *)
InputWakesReader == part = "cgi" => Cgi!InputWakesReader
EntryLostOnlyByReuse == part = "cgi" => Cgi!EntryLostOnlyByReuse
EndMeansAllForwarded == part = "looper" => Looper!EndMeansAllForwarded
TextIsOwn == part = "string" => Str!TextIsOwn
NarrowIsValid == part = "string" => Str!NarrowIsValid
LimitsHoldUnlessOverlapped == part = "links" => Net!LimitsHoldUnlessOverlapped
StopWaitsForLinks == part = "links" => Net!StopWaitsForLinks
StreamsAreWhole == part = "link" => Link!StreamsAreWhole
ImplementsRequestTable == Rpc!ImplementsRequestTable
ImplementsEvent == Event!ImplementsEvent
StoppedLinkEnds == Link!StoppedLinkEnds
=============================================================================
