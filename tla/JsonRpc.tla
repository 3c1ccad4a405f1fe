------------------------------- MODULE JsonRpc -------------------------------
(***************************************************************************)
(* A JsonRpc object (inet/json-rpc.cpp) that several threads use, each on  *)
(* a stream of its own with a ServerLoop() at the other end.  A thread     *)
(* makes a Call(), which waits for the next answer on the stream, sends a  *)
(* Request() whose answer it reads later, or sends a Notification().       *)
(*                                                                         *)
(* A message is the id it carries; what is called and the values are left  *)
(* out, and so are batches, which the client has no function for.  Streams *)
(* are reliable and ordered.                                               *)
(***************************************************************************)
EXTENDS Naturals, Lru

CONSTANTS
    Clients,        \* threads
    MaxSize,        \* m_maxSize of m_reqs, 256 by default
    MaxRequests,    \* bound: ids given out
    MaxStream,      \* bound: messages on their way on a stream
    NoId            \* the id of a message without one

VARIABLES
    nextId,      \* m_aNextId
    reqs,        \* m_reqs
    client,      \* step of each thread, and the id it has prepared
    toServer,    \* messages from each thread to its server
    toClient,    \* answers on their way back
    matched      \* history: ids whose answer found its request

vars == <<nextId, reqs, client, toServer, toClient, matched>>

(* m_aNextId starts at 1, so the first id is 2.                            *)
RequestIds == 2..(MaxRequests + 1)
Messages == RequestIds \cup {NoId}

Init ==
    /\ nextId = 1
    /\ reqs = EmptyLru(MaxSize)
    /\ client = [c \in Clients |-> [pc |-> "idle", call |-> FALSE, id |-> NoId]]
    /\ toServer = [c \in Clients |-> <<>>]
    /\ toClient = [c \in Clients |-> <<>>]
    /\ matched = {}

(* Bound on the messages of a stream.                                      *)
HasRoom(c) == Len(toServer[c]) + Len(toClient[c]) < MaxStream

(* Mutant of TakeId: the id is read and incremented in two steps, so that  *)
(* another thread may have taken it as well.                               *)
TakeIdTwice(c, isCall) ==
    /\ client[c].pc = "idle"
    /\ nextId \leq MaxRequests /\ HasRoom(c)
    /\ nextId' \in {nextId, nextId + 1}
    /\ client' = [client EXCEPT ![c].pc = "prepare", ![c].call = isCall, ![c].id = nextId + 1]
    /\ UNCHANGED <<reqs, toServer, toClient, matched>>

(* PrepareRequest: ++m_aNextId is atomic.                                  *)
TakeId(c, isCall) ==
    /\ client[c].pc = "idle"
    /\ nextId \leq MaxRequests /\ HasRoom(c)
    /\ nextId' = nextId + 1
    /\ client' = [client EXCEPT ![c].pc = "prepare", ![c].call = isCall, ![c].id = nextId + 1]
    /\ UNCHANGED <<reqs, toServer, toClient, matched>>

(* PrepareRequest: the insertion is under MtxReqs.                         *)
InsertRequest(c) ==
    /\ client[c].pc = "prepare"
    /\ reqs' = PInsert(reqs, client[c].id, c)
    /\ client' = [client EXCEPT ![c].pc = "write"]
    /\ UNCHANGED <<nextId, toServer, toClient, matched>>

(* Call() waits for the next answer; after Request() the thread goes on.   *)
WriteRequest(c) ==
    /\ client[c].pc = "write"
    /\ toServer' = [toServer EXCEPT ![c] = Append(@, client[c].id)]
    /\ client' = [client EXCEPT ![c] = [@ EXCEPT !.pc = IF client[c].call THEN "await" ELSE "idle", !.id = NoId]]
    /\ UNCHANGED <<nextId, reqs, toClient, matched>>

(* A notification carries the default id, not a number.                    *)
Notification(c) ==
    /\ client[c].pc = "idle"
    /\ HasRoom(c)
    /\ toServer' = [toServer EXCEPT ![c] = Append(@, NoId)]
    /\ UNCHANGED <<nextId, reqs, client, toClient, matched>>

(* Response(): the request with the id of the answer, if it is there, is   *)
(* taken out of the table.                                                 *)
Response(id) ==
    /\ reqs' = IF id # NoId /\ LruHas(reqs, id) THEN LruErase(LruFind(reqs, id), id) ELSE reqs
    /\ matched' = IF id # NoId /\ LruHas(reqs, id) THEN matched \cup {id} ELSE matched

(* Call() takes the next answer for its own and does not look at the id.   *)
ReadAnswer(c) ==
    /\ client[c].pc \in {"await", "idle"}
    /\ toClient[c] # <<>>
    /\ Response(Head(toClient[c]))
    /\ toClient' = [toClient EXCEPT ![c] = Tail(@)]
    /\ client' = [client EXCEPT ![c].pc = "idle", ![c].call = FALSE]
    /\ UNCHANGED <<nextId, toServer>>

(* ServerLoop(): every message is answered, with the id it came with.      *)
Answer(c) ==
    /\ toServer[c] # <<>>
    /\ toServer' = [toServer EXCEPT ![c] = Tail(@)]
    /\ toClient' = [toClient EXCEPT ![c] = Append(@, Head(toServer[c]))]
    /\ UNCHANGED <<nextId, reqs, client, matched>>

(* A server of another make (external): it may answer out of order, twice  *)
(* or not at all.                                                          *)
AnswerOtherwise(c) ==
    /\ HasRoom(c)
    /\ \E k \in DOMAIN toServer[c] :
          \/ toServer' = [toServer EXCEPT ![c] = RemoveAt(@, k)] /\ UNCHANGED toClient
          \/ /\ toClient' = [toClient EXCEPT ![c] = Append(@, toServer[c][k])]
             /\ toServer' \in {toServer, [toServer EXCEPT ![c] = RemoveAt(@, k)]}
    /\ UNCHANGED <<nextId, reqs, client, matched>>

Client(c) ==
    \/ \E isCall \in BOOLEAN : TakeId(c, isCall)
    \/ InsertRequest(c)
    \/ WriteRequest(c)
    \/ Notification(c)
    \/ ReadAnswer(c)

Next == \E c \in Clients : Client(c) \/ Answer(c) \/ AnswerOtherwise(c)

Spec == Init /\ [][Next]_vars

-----------------------------------------------------------------------------
(* Type correctness of the client, its table and the streams.              *)
TypeOK ==
    /\ nextId \in 1..(MaxRequests + 1)
    /\ reqs.list \in Seq(RequestIds) /\ DOMAIN reqs.store = Range(reqs.list) /\ IsInjective(reqs.list)
    /\ client \in [Clients -> [pc : {"idle", "prepare", "write", "await"}, call : BOOLEAN,
                               id : Messages]]
    /\ toServer \in [Clients -> Seq(Messages)]
    /\ toClient \in [Clients -> Seq(Messages)]
    /\ matched \subseteq RequestIds

(* The table of JsonRpc keeps what RequestTable promises.  The cache moves *)
(* an entry to the front when it is found; as Response() erases what it    *)
(* finds, the order of use stays the order of asking and the entry that is *)
(* evicted is the oldest.                                                  *)
Table == INSTANCE RequestTable WITH
    Requests <- RequestIds, Capacity <- MaxSize - 1, inFlight <- Reverse(reqs.list)
ImplementsRequestTable == Table!Spec
=============================================================================
