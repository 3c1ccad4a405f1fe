------------------------------ MODULE LinkLoop ------------------------------
(***************************************************************************)
(* One P2P link at work (Link of inet/p2p-net.cpp): Execute() reads the    *)
(* stream of its peer into messages and writes what other threads queue    *)
(* with SendBinary(), until another thread calls Stop(), the peer closes,  *)
(* or the link is found idle.                                              *)
(*                                                                         *)
(* A step is one call on the socket with what is done before the next, or  *)
(* one section under Mtx.  A byte is its place in the stream: a message is *)
(* a header of fixed size, which tells the size of the payload, and the    *)
(* payload; an incoming link's magic number is the first part of its first *)
(* header.  Line-based links are left out.                                 *)
(***************************************************************************)
EXTENDS Integers, Sequences

CONSTANTS
    Header,        \* GetMessageHeaderSize()
    Magic,         \* size of the magic number
    MaxPayload,    \* bound: size of a payload
    MaxMessages,   \* bound: messages the peer sends
    MaxQueued,     \* bound: bytes that are queued to be sent
    Modulus        \* a Blob that Replace() has cut has its size modulo this: 256

VARIABLES
    begin,         \* where each message of the peer's stream begins, and where the last ends
    peer,          \* the peer: how much it has sent, whether it has closed
    pc,            \* step of Execute()
    read,          \* bytes received
    have, size,    \* cbReceived and the size of blobMessage
    inPayload,     \* bReceivingPayload
    delivered,     \* history: the bytes of each message that was processed
    lastLive,      \* Peer->LastLive: never, recent, or INACTIVE_PEER_SECONDS ago
    stop,          \* m_bStop
    data,          \* DataToSend, as places in the stream to the peer
    hasToSend,     \* bHasToSend
    queued,        \* bytes given to SendBinary()
    sent,          \* bytes handed to the socket
    truncated      \* history: Replace() lost bytes

in == <<read, have, size, inPayload, delivered>>
out == <<data, queued, sent, truncated>>
vars == <<begin, peer, pc, in, lastLive, stop, hasToSend, out>>

(* What the peer may send: messages one after the other, each its header   *)
(* and its payload.                                                        *)
Payloads == 0..MaxPayload
Streams ==
    {b \in [1..(MaxMessages + 1) -> 0..(MaxMessages * (Header + MaxPayload))] :
       b[1] = 0 /\ \A i \in 1..MaxMessages : b[i + 1] - b[i] - Header \in Payloads}

StreamSize == begin[MaxMessages + 1]

(* An incoming link begins with the magic number; FirstByte is a byte that *)
(* was read before.  A peer that was live may be known.                    *)
Init ==
    /\ begin \in Streams
    /\ \/ pc = "magic" /\ read = 0
       \/ pc = "test" /\ read \in {0, 1}
    /\ peer = [sent |-> read, closed |-> FALSE]
    /\ have = read /\ size = Header /\ inPayload = FALSE /\ delivered = <<>>
    /\ lastLive \in IF pc = "magic" THEN {"never"} ELSE {"never", "recent"}
    /\ stop = FALSE
    /\ data = <<>> /\ hasToSend = FALSE /\ queued = 0 /\ sent = <<>> /\ truncated = FALSE

-----------------------------------------------------------------------------
(* The environment: the peer, time, and the threads that use the link.     *)

PeerSends ==
    /\ ~peer.closed /\ peer.sent < StreamSize
    /\ peer' = [peer EXCEPT !.sent = @ + 1]
    /\ UNCHANGED <<begin, pc, in, lastLive, stop, hasToSend, out>>

PeerCloses ==
    /\ ~peer.closed
    /\ peer' = [peer EXCEPT !.closed = TRUE]
    /\ UNCHANGED <<begin, pc, in, lastLive, stop, hasToSend, out>>

TimePasses ==
    /\ lastLive = "recent"
    /\ lastLive' = "old"
    /\ UNCHANGED <<begin, peer, pc, in, stop, hasToSend, out>>

Stop ==
    /\ ~stop
    /\ stop' = TRUE
    /\ UNCHANGED <<begin, peer, pc, in, lastLive, hasToSend, out>>

(* Mutant of Replaced: the bytes that were sent stay.                      *)
ReplacedNot(buf, n) == buf

(* Blob::Replace(0, n, Span()): the size is kept in a uint8_t.             *)
Replaced(buf, n) == SubSeq(buf, n + 1, n + ((Len(buf) - n) % Modulus))

(* Send() of a buffer takes n bytes of it.                                 *)
SendPart(buf, n) ==
    /\ data' = Replaced(buf, n)
    /\ sent' = sent \o SubSeq(buf, 1, n)
    /\ truncated' = (truncated \/ Len(buf) - n >= Modulus)

(* SendBinary(): what was queued while the buffer was empty is sent at     *)
(* once, as far as the socket takes it.  Execute() holds Mtx in "drain".   *)
SendBinary ==
    /\ pc \notin {"magic", "drain", "ended"}
    /\ \E n \in 1..(MaxQueued - queued) :
          LET new == [i \in 1..n |-> queued + i]
          IN  /\ queued' = queued + n
              /\ \/ /\ data' = data \o new
                    /\ UNCHANGED <<sent, truncated>>
                 \/ /\ data = <<>>
                    /\ \E k \in 1..n : SendPart(new, k)
    /\ UNCHANGED <<begin, peer, pc, in, lastLive, stop, hasToSend>>

-----------------------------------------------------------------------------
(* Execute().                                                              *)

Goto(from, to) == pc = from /\ pc' = to
OnlyGoes == UNCHANGED <<begin, peer, in, lastLive, stop, hasToSend, out>>

(* ReadUInt32() blocks.  The bytes become the beginning of blobMessage.    *)
ReadMagic ==
    /\ Goto("magic", "test")
    /\ peer.sent >= Magic
    /\ read' = Magic /\ have' = Magic
    /\ UNCHANGED <<begin, peer, size, inPayload, delivered, lastLive, stop, hasToSend, out>>

(* An unknown magic number, the end of the stream, or the signal of Stop() *)
(* if the thread is in the call when it comes.                             *)
NoMagic ==
    /\ Goto("magic", "ended")
    /\ peer.sent >= Magic \/ peer.closed \/ stop
    /\ OnlyGoes

(* The head of the loop.                                                   *)
TestStop ==
    /\ Goto("test", IF stop THEN "ended" ELSE "select")
    /\ hasToSend' = (data # <<>>)
    /\ UNCHANGED <<begin, peer, in, lastLive, stop, out>>

Readable == read < peer.sent \/ peer.closed

(* Mutant of Select: select() has no timeout.                              *)
SelectForever ==
    /\ \/ Readable /\ Goto("select", "read")
       \/ hasToSend /\ Goto("select", "drain")
    /\ OnlyGoes

(* select() returns when the socket is readable, or, if there was anything *)
(* to send, writable, or by its timeout.                                   *)
Select ==
    /\ \/ Readable /\ Goto("select", "read")
       \/ ~Readable /\ hasToSend /\ Goto("select", "drain")
       \/ Goto("select", "check")
    /\ OnlyGoes

(* Stop() also closes the socket, and the next call throws.                *)
ReadStops ==
    /\ stop
    /\ Goto("read", "ended")
    /\ OnlyGoes

(* Receive() returns 0, as it does with no room, or nothing.               *)
ReceiveNothing ==
    /\ \/ (have = size \/ (read = peer.sent /\ peer.closed)) /\ Goto("read", "ended")
       \/ /\ have < size /\ read = peer.sent /\ ~peer.closed
          /\ \/ hasToSend /\ Goto("read", "drain")
             \/ Goto("read", "check")
    /\ OnlyGoes

(* What GetMessagePayloadSize() finds in the header that ends at a place.  *)
PayloadAt(to) ==
    LET i == {j \in 1..MaxMessages : begin[j] = to - Header}
    IN  IF i = {} THEN Payloads ELSE {begin[j + 1] - to : j \in i}

(* Mutant of Delivered: bReceivingPayload is not reset.                    *)
DeliveredInPayload(to) ==
    /\ delivered' = Append(delivered, <<to - size, to>>)
    /\ size' = Header /\ have' = 0 /\ inPayload' = TRUE
    /\ lastLive' = "recent"

(* ReceiveAndProcessMessage() and the return to the next header.           *)
Delivered(to) ==
    /\ delivered' = Append(delivered, <<to - size, to>>)
    /\ size' = Header /\ have' = 0 /\ inPayload' = FALSE
    /\ lastLive' = "recent"

(* Receive() of n bytes, with what follows when blobMessage is full.       *)
Receive ==
    /\ pc = "read" /\ ~stop
    /\ \E n \in 1..(peer.sent - read) :
          /\ n <= size - have
          /\ read' = read + n
          /\ \/ /\ have + n < size
                /\ have' = have + n
                /\ UNCHANGED <<size, inPayload, delivered, lastLive>>
             \/ /\ have + n = size /\ ~inPayload
                /\ \E p \in PayloadAt(read + n) \ {0} :
                      size' = size + p /\ have' = size /\ inPayload' = TRUE
                /\ UNCHANGED <<delivered, lastLive>>
             \/ /\ have + n = size
                /\ inPayload \/ 0 \in PayloadAt(read + n)
                /\ Delivered(read + n)
    /\ UNCHANGED <<begin, peer, pc, stop, hasToSend, out>>

(* The message cannot be parsed: the peer is banned, the link ends.        *)
ReceiveBad ==
    /\ ~stop /\ read < peer.sent
    /\ Goto("read", "ended")
    /\ OnlyGoes

(* One Send() of the loop that empties DataToSend under Mtx.               *)
DrainPart ==
    /\ pc = "drain" /\ data # <<>>
    /\ \E n \in 1..Len(data) : SendPart(data, n)
    /\ UNCHANGED <<begin, peer, pc, in, lastLive, stop, hasToSend, queued>>

(* The buffer is empty or the socket full; or Stop() has closed it.         *)
DrainEnds ==
    /\ Goto("drain", "check") \/ (stop /\ Goto("drain", "ended"))
    /\ OnlyGoes

(* The test for idle and stalling peers.                                   *)
CheckLive ==
    /\ pc = "check"
    /\ \/ pc' = "ended"
       \/ lastLive = "recent" /\ pc' = "test"
    /\ OnlyGoes

Loop == TestStop \/ Select \/ ReadStops \/ ReceiveNothing \/ Receive \/ ReceiveBad
        \/ DrainPart \/ DrainEnds \/ CheckLive

Next ==
    \/ PeerSends \/ PeerCloses \/ TimePasses \/ Stop \/ SendBinary
    \/ ReadMagic \/ NoMagic \/ Loop

(* The thread is scheduled, and a call that does not block returns.        *)
Spec == Init /\ [][Next]_vars /\ WF_vars(Loop)

-----------------------------------------------------------------------------
(* Type correctness of the link and its two streams.                       *)
TypeOK ==
    /\ begin \in Streams
    /\ peer \in [sent : 0..StreamSize, closed : BOOLEAN]
    /\ pc \in {"magic", "test", "select", "read", "drain", "check", "ended"}
    /\ read \in 0..peer.sent /\ have \in 0..size /\ size - Header \in {0} \cup Payloads
    /\ inPayload \in BOOLEAN
    /\ delivered \in Seq((0..StreamSize) \X (0..StreamSize))
    /\ lastLive \in {"never", "recent", "old"}
    /\ stop \in BOOLEAN /\ hasToSend \in BOOLEAN /\ truncated \in BOOLEAN
    /\ queued \in 0..MaxQueued
    /\ data \in Seq(1..queued) /\ sent \in Seq(1..queued)

(* The messages processed are those of the peer, however the stream comes  *)
(* in pieces and wherever the first header begins.                         *)
MessagesAreWhole == \A i \in DOMAIN delivered : delivered[i] = <<begin[i], begin[i + 1]>>

(* The peer gets what was queued, in order and once, from SendBinary() in  *)
(* any thread and the loop; as long as Replace() has not cut the buffer.   *)
SentInOrder == truncated \/ sent \o data = [i \in 1..queued |-> i]

StreamsAreWhole == MessagesAreWhole /\ SentInOrder

(* A link past its magic number ends when it is stopped, although nothing  *)
(* but the timeout of select() may wake it.                                *)
StoppedLinkEnds == (stop /\ pc # "magic") ~> (pc = "ended")
=============================================================================
