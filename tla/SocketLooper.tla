---------------------------- MODULE SocketLooper ----------------------------
(***************************************************************************)
(* CSocketLooper::Loop() of libext/sockets.cpp: one thread forwards what   *)
(* two peers send each other, selects on both sockets and hands a          *)
(* half-close on, as m_bDoShutdown asks by default.                        *)
(*                                                                         *)
(* A step is one system call.  Data is a count of pieces: Receive() takes  *)
(* one, NetworkStream::Write() sends one and blocks while the way to the   *)
(* peer is full.                                                           *)
(***************************************************************************)
EXTENDS Naturals

CONSTANTS
    MaxSent,     \* bound: pieces a peer sends
    Room         \* pieces that fit into the buffers of one direction

VARIABLES
    peer,        \* what each peer did: sent, got, finished (sends no more),
                 \* sawEnd (read the end of the stream), reset (is gone)
    inbound,     \* pieces of each peer the looper has not received
    outbound,    \* pieces for each peer it has not read
    socket,      \* Shutdown() of each peer's socket: readEnd, writeEnd
    keeper,      \* CLoopKeeper of each peer's socket: live, accepts
    pc,          \* step of Loop(): "test", "process", "send", "done"
    ready,       \* sockets that select() reported and that are not processed
    at           \* the socket that is processed

vars == <<peer, inbound, outbound, socket, keeper, pc, ready, at>>
looper == <<keeper, pc, ready, at>>

Peers == {"S", "D"}
Other(p) == IF p = "S" THEN "D" ELSE "S"

Init ==
    /\ peer = [p \in Peers |-> [sent |-> 0, got |-> 0, finished |-> FALSE,
                                sawEnd |-> FALSE, reset |-> FALSE]]
    /\ inbound = [p \in Peers |-> 0]
    /\ outbound = [p \in Peers |-> 0]
    /\ socket = [p \in Peers |-> [readEnd |-> FALSE, writeEnd |-> FALSE]]
    /\ keeper = [p \in Peers |-> [live |-> TRUE, accepts |-> TRUE]]
    /\ pc = "test"
    /\ ready = {}
    /\ at = "S"

-----------------------------------------------------------------------------
(* The peers.                                                              *)

PeerSends(p) ==
    /\ ~peer[p].finished /\ ~peer[p].reset
    /\ peer[p].sent < MaxSent /\ inbound[p] < Room
    /\ peer' = [peer EXCEPT ![p].sent = @ + 1]
    /\ inbound' = [inbound EXCEPT ![p] = @ + 1]
    /\ UNCHANGED <<outbound, socket, looper>>

PeerFinishes(p) ==
    /\ ~peer[p].finished
    /\ peer' = [peer EXCEPT ![p].finished = TRUE]
    /\ UNCHANGED <<inbound, outbound, socket, looper>>

PeerReads(p) ==
    /\ ~peer[p].reset
    /\ IF outbound[p] > 0
       THEN peer' = [peer EXCEPT ![p].got = @ + 1]
       ELSE socket[p].writeEnd /\ ~peer[p].sawEnd
            /\ peer' = [peer EXCEPT ![p].sawEnd = TRUE]
    /\ outbound' = [outbound EXCEPT ![p] = IF @ > 0 THEN @ - 1 ELSE 0]
    /\ UNCHANGED <<inbound, socket, looper>>

(* The connection breaks: what was on its way is lost.                     *)
PeerResets(p) ==
    /\ ~peer[p].reset
    /\ peer' = [peer EXCEPT ![p].reset = TRUE]
    /\ inbound' = [inbound EXCEPT ![p] = 0]
    /\ outbound' = [outbound EXCEPT ![p] = 0]
    /\ UNCHANGED <<socket, looper>>

-----------------------------------------------------------------------------
(* Loop().                                                                 *)

Active == {p \in Peers : keeper[p].live /\ keeper[p].accepts}
AtEnd(p) == inbound[p] = 0 /\ (peer[p].finished \/ socket[p].readEnd)
Readable(p) == inbound[p] > 0 \/ peer[p].reset \/ AtEnd(p)

(* The loop ends: no direction is left, NeedToCancel(), or GetTimeout().   *)
LeaveLoop ==
    /\ pc = "test"
    /\ pc' = "done"
    /\ UNCHANGED <<peer, inbound, outbound, socket, keeper, ready, at>>

Select ==
    /\ pc = "test"
    /\ ready' = {p \in Active : Readable(p)}
    /\ ready' # {}
    /\ pc' = "process"
    /\ at' = "S"
    /\ UNCHANGED <<peer, inbound, outbound, socket, keeper>>

(* After S comes D, and after D the next select().                         *)
GoOn == IF at = "S" THEN pc' = "process" /\ at' = "D" ELSE pc' = "test" /\ at' = at

Skip ==
    /\ pc = "process" /\ at \notin ready
    /\ GoOn
    /\ UNCHANGED <<peer, inbound, outbound, socket, keeper, ready>>

ReceivePiece ==
    /\ pc = "process" /\ at \in ready
    /\ ~peer[at].reset /\ inbound[at] > 0
    /\ inbound' = [inbound EXCEPT ![at] = @ - 1]
    /\ pc' = "send"
    /\ UNCHANGED <<peer, outbound, socket, keeper, ready, at>>

(* Mutant of HandOnEnd: the peer that has finished is told the end.        *)
HandOnEndBack(p) == socket' = [socket EXCEPT ![p].writeEnd = TRUE]

HandOnEnd(p) == socket' = [socket EXCEPT ![Other(p)].writeEnd = TRUE]

(* Shutdown() throws when the other connection is broken.                  *)
ReceiveEnd ==
    /\ pc = "process" /\ at \in ready
    /\ ~peer[at].reset /\ AtEnd(at)
    /\ keeper' = [keeper EXCEPT ![at].live = FALSE]
    /\ HandOnEnd(at)
    /\ \/ GoOn
       \/ peer[Other(at)].reset /\ pc' = "done" /\ at' = at
    /\ UNCHANGED <<peer, inbound, outbound, ready>>

(* Receive() throws: the exception leaves Loop(), for both directions.     *)
ReceiveFails ==
    /\ pc = "process" /\ at \in ready
    /\ peer[at].reset
    /\ pc' = "done"
    /\ UNCHANGED <<peer, inbound, outbound, socket, keeper, ready, at>>

(* Send() of a piece, after which ProcessSrc() or ProcessDest() may have   *)
(* asked for the end.                                                      *)
SendPiece ==
    /\ pc = "send"
    /\ ~peer[Other(at)].reset /\ outbound[Other(at)] < Room
    /\ outbound' = [outbound EXCEPT ![Other(at)] = @ + 1]
    /\ \/ GoOn
       \/ pc' = "done" /\ at' = at
    /\ UNCHANGED <<peer, inbound, socket, keeper, ready>>

(* The other direction is closed; Shutdown() may throw as well.             *)
SendFails ==
    /\ pc = "send"
    /\ peer[Other(at)].reset
    /\ keeper' = [keeper EXCEPT ![at].accepts = FALSE]
    /\ socket' = [socket EXCEPT ![at].readEnd = TRUE]
    /\ \/ GoOn
       \/ pc' = "done" /\ at' = at
    /\ UNCHANGED <<peer, inbound, outbound, ready>>

Peer(p) == PeerSends(p) \/ PeerFinishes(p) \/ PeerReads(p) \/ PeerResets(p)
Loop == LeaveLoop \/ Select \/ Skip \/ ReceivePiece \/ ReceiveEnd
        \/ ReceiveFails \/ SendPiece \/ SendFails

Next == Loop \/ \E p \in Peers : Peer(p)

Spec == Init /\ [][Next]_vars

-----------------------------------------------------------------------------
(* Type correctness of the looper and its two connections.                 *)
TypeOK ==
    /\ peer \in [Peers -> [sent : 0..MaxSent, got : 0..MaxSent, finished : BOOLEAN,
                           sawEnd : BOOLEAN, reset : BOOLEAN]]
    /\ inbound \in [Peers -> 0..Room]
    /\ outbound \in [Peers -> 0..Room]
    /\ socket \in [Peers -> [readEnd : BOOLEAN, writeEnd : BOOLEAN]]
    /\ keeper \in [Peers -> [live : BOOLEAN, accepts : BOOLEAN]]
    /\ pc \in {"test", "process", "send", "done"}
    /\ ready \subseteq Peers
    /\ at \in Peers

(* Whoever reads the end of the stream has read everything that the other  *)
(* peer sent before its own end, with both directions in one loop that     *)
(* blocks in Send(); unless the other's connection broke.                  *)
EndMeansAllForwarded ==
    \A p \in Peers : peer[p].sawEnd =>
        \/ peer[Other(p)].finished /\ peer[p].got = peer[Other(p)].sent
        \/ peer[Other(p)].reset
=============================================================================
