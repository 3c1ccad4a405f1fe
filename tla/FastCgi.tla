------------------------------- MODULE FastCgi -------------------------------
(***************************************************************************)
(* One connection of the FastCGI server (inet/fastcgi.cpp): the thread of  *)
(* ServerConnection reads records and hands them to CgiRequest objects,    *)
(* each with a thread of its own that reads the request's input and ends   *)
(* the request.  The web server at the other end multiplexes requests and  *)
(* may use an id again as soon as it has seen END_REQUEST.                 *)
(*                                                                         *)
(* A step is a section under a lock or one access to a volatile member     *)
(* outside of any.  Looking a request up and processing the record is one  *)
(* step: the record only touches the object found.  Parameters, output and *)
(* the check for DoS attacks are left out.  An input record is "data", or  *)
(* "ff" when its first byte is 0xFF, which underflow() returns as a        *)
(* negative char, that is, as EOF.                                         *)
(***************************************************************************)
EXTENDS Naturals, Sequences

CONSTANTS
    Ids,          \* request ids the web server uses
    Reqs,         \* CgiRequest objects
    MaxInput,     \* bound: input records of one request
    MaxWire,      \* bound: records sent and not yet read
    None

VARIABLES
    web,        \* what the web server knows of each id
    wire,       \* records on their way to the connection
    shut,       \* the socket was shut down, by either side
    conn,       \* the ServerConnection thread: its step, and the request whose event it will set
    requests,   \* Requests: id -> object
    cgi         \* the CgiRequest objects

vars == <<web, wire, shut, conn, requests, cgi>>

Chunks == {"data", "ff"}

(* A CgiRequest: stream is *m_pMemoryStream or None, eof is Eof, signaled   *)
(* is m_ev.  early is a history: it was registered before the last request *)
(* with its id was erased.                                                 *)
NewRequest(id, keepConn, early) ==
    [id |-> id, keepConn |-> keepConn, pc |-> "new",
     stream |-> None, eof |-> FALSE, signaled |-> FALSE, early |-> early]

Created(r) == cgi[r] # None

Init ==
    /\ web = [i \in Ids |-> [phase |-> "idle", input |-> 0]]
    /\ wire = <<>>
    /\ shut = FALSE
    /\ conn = [pc |-> "read", req |-> None]
    /\ requests = [i \in Ids |-> None]
    /\ cgi = [r \in Reqs |-> None]

-----------------------------------------------------------------------------
(* The web server.                                                         *)

Write(rec) ==
    /\ ~shut
    /\ Len(wire) < MaxWire
    /\ wire' = Append(wire, rec)
    /\ UNCHANGED <<shut, conn, requests, cgi>>

WebSends(id, from, type, to) ==
    /\ web[id].phase \in from
    /\ \E keepConn \in BOOLEAN, chunk \in Chunks :
          /\ type # "begin" => keepConn
          /\ type # "stdin" => chunk = "data"
          /\ Write([type |-> type, id |-> id, keepConn |-> keepConn, chunk |-> chunk])
    /\ web' = [web EXCEPT ![id].phase = to]

(* Bound: an object of Reqs is left for the request.                       *)
WebBegins(id) ==
    /\ WebSends(id, {"idle"}, "begin", "begun")
    /\ \E r \in Reqs : ~Created(r)
    /\ ~ \E k \in DOMAIN wire : wire[k].type = "begin"
WebStarts(id) == WebSends(id, {"begun"}, "params", "input")
WebInput(id)  ==
    /\ web[id].phase = "input" /\ web[id].input < MaxInput
    /\ \E chunk \in Chunks :
          Write([type |-> "stdin", id |-> id, keepConn |-> TRUE, chunk |-> chunk])
    /\ web' = [web EXCEPT ![id].input = @ + 1]
WebEof(id)    == WebSends(id, {"input"}, "eof", "eof")
WebAborts(id) == WebSends(id, {"input", "eof"}, "abort", "aborted")

(* The web server, or the network, ends the connection.                    *)
WebCloses ==
    /\ ~shut
    /\ shut' = TRUE
    /\ UNCHANGED <<web, wire, conn, requests, cgi>>

-----------------------------------------------------------------------------
(* The thread of the connection.                                           *)

(* BeginRequestRecord::ProcessRecord: an entry with the id is overwritten. *)
BeginRequest(rec) ==
    \E r \in Reqs :
        /\ ~Created(r)
        /\ cgi' = [cgi EXCEPT ![r] = NewRequest(rec.id, rec.keepConn,
                      \E q \in Reqs : Created(q) /\ cgi[q].id = rec.id /\ cgi[q].pc = "erase")]
        /\ requests' = [requests EXCEPT ![rec.id] = r]
        /\ UNCHANGED conn

(* NameValueRecord::ProcessRecord, the empty record: Start().              *)
StartRequest(r) ==
    /\ cgi' = [cgi EXCEPT ![r].pc = IF @ = "new" THEN "run" ELSE @]
    /\ UNCHANGED <<conn, requests>>

(* Mutant of StoreInput: the empty record, the end, wakes nobody.          *)
StoreInputQuiet(r, rec) ==
    /\ cgi' = IF rec.type = "eof"
              THEN [cgi EXCEPT ![r].eof = TRUE]
              ELSE [cgi EXCEPT ![r].stream = IF @ = None THEN <<rec.chunk>> ELSE Append(@, rec.chunk)]
    /\ conn' = IF rec.type = "eof" THEN conn ELSE [pc |-> "set", req |-> r]
    /\ UNCHANGED requests

(* StdinRecord::ProcessRecord up to the end of the lock; the event is set  *)
(* by SetEvent.                                                            *)
StoreInput(r, rec) ==
    /\ cgi' = IF rec.type = "eof"
              THEN [cgi EXCEPT ![r].eof = TRUE]
              ELSE [cgi EXCEPT ![r].stream = IF @ = None THEN <<rec.chunk>> ELSE Append(@, rec.chunk)]
    /\ conn' = [pc |-> "set", req |-> r]
    /\ UNCHANGED requests

SetEvent ==
    /\ conn.pc = "set"
    /\ cgi' = [cgi EXCEPT ![conn.req].signaled = TRUE]
    /\ conn' = [pc |-> "read", req |-> None]
    /\ UNCHANGED <<web, wire, shut, requests>>

(* Mutant of AbortRequest: the request is forgotten at once.               *)
AbortRequestForgets(r) ==
    /\ requests' = [requests EXCEPT ![cgi[r].id] = None]
    /\ UNCHANGED <<conn, cgi>>

(* AbortRequestRecord::ProcessRecord: interrupt() marks the thread, and the *)
(* application may end at its next interruption point, which it may in any *)
(* case (ApplicationReturns).  A thread that waits for m_ev is not woken.  *)
AbortRequest(r) == UNCHANGED <<conn, requests, cgi>>

(* ServerConnection::Execute: a record for an unknown id is dropped.       *)
ReadRecord ==
    /\ conn.pc = "read"
    /\ wire # <<>>
    /\ LET rec == Head(wire)
           r   == requests[rec.id]
       IN \/ rec.type = "begin" /\ BeginRequest(rec)
          \/ rec.type # "begin" /\ r = None /\ UNCHANGED <<conn, requests, cgi>>
          \/ rec.type = "params" /\ r # None /\ StartRequest(r)
          \/ rec.type \in {"stdin", "eof"} /\ r # None /\ StoreInput(r, rec)
          \/ rec.type = "abort" /\ r # None /\ AbortRequest(r)
    /\ wire' = Tail(wire)
    /\ UNCHANGED <<web, shut>>

(* The end of the stream or an error: Requests.clear().                    *)
EndConnection ==
    /\ conn.pc = "read"
    /\ shut
    /\ conn' = [conn EXCEPT !.pc = "done"]
    /\ requests' = [i \in Ids |-> None]
    /\ UNCHANGED <<web, wire, shut, cgi>>

-----------------------------------------------------------------------------
(* The thread of a request.  In "run" it executes the application's        *)
(* ProcessCgiRequest().                                                    *)

Goto(r, from, to) ==
    /\ Created(r) /\ cgi[r].pc = from
    /\ cgi' = [cgi EXCEPT ![r].pc = to]
    /\ UNCHANGED <<web, wire, shut, conn, requests>>

(* CgiStreambuf::underflow, one access per step.                           *)
UnderflowTestStream(r) ==
    Goto(r, "run", IF Created(r) /\ cgi[r].stream # None THEN "take" ELSE "testEof")
UnderflowTestEof(r) ==
    Goto(r, "testEof", IF Created(r) /\ cgi[r].eof THEN "end" ELSE "wait")
UnderflowWait(r) ==
    Created(r) /\ cgi[r].signaled /\ Goto(r, "wait", "take")

(* The null pointer that underflow() may find is the state "crashed".      *)
UnderflowTake(r) ==
    /\ Created(r) /\ cgi[r].pc = "take"
    /\ cgi' = IF cgi[r].stream = None
              THEN [cgi EXCEPT ![r].pc = "crashed"]
              ELSE [cgi EXCEPT ![r].pc = IF Head(cgi[r].stream) = "ff" THEN "end" ELSE "run",
                               ![r].stream = None,
                               ![r].signaled = FALSE]
    /\ UNCHANGED <<web, wire, shut, conn, requests>>

(* The application returns without reading on, or is interrupted.          *)
ApplicationReturns(r) == Goto(r, "run", "end")

(* END_REQUEST is sent; without KeepConn the socket is shut down.  An      *)
(* exception of Send() is caught.                                          *)
SendEnd(r) ==
    /\ Created(r) /\ cgi[r].pc = "end"
    /\ cgi' = [cgi EXCEPT ![r].pc = "erase"]
    /\ web' = IF shut THEN web ELSE [web EXCEPT ![cgi[r].id] = [phase |-> "idle", input |-> 0]]
    /\ shut' = (shut \/ ~cgi[r].keepConn)
    /\ UNCHANGED <<wire, conn, requests>>

(* Requests.erase(RequestId), whichever request has the id by now.  The    *)
(* thread ends, and its object goes with its stream.                       *)
Erase(r) ==
    /\ Created(r) /\ cgi[r].pc = "erase"
    /\ cgi' = [cgi EXCEPT ![r] = [NewRequest(@.id, FALSE, FALSE) EXCEPT !.pc = "done"]]
    /\ requests' = [requests EXCEPT ![cgi[r].id] = None]
    /\ UNCHANGED <<web, wire, shut, conn>>

Web(id) == WebBegins(id) \/ WebStarts(id) \/ WebInput(id) \/ WebEof(id) \/ WebAborts(id)
Connection == ReadRecord \/ SetEvent \/ EndConnection
Underflow(r) == UnderflowTestStream(r) \/ UnderflowTestEof(r) \/ UnderflowWait(r) \/ UnderflowTake(r)
Request(r) == Underflow(r) \/ ApplicationReturns(r) \/ SendEnd(r) \/ Erase(r)

Next ==
    \/ \E id \in Ids : Web(id)
    \/ WebCloses
    \/ Connection
    \/ \E r \in Reqs : Request(r)

Spec == Init /\ [][Next]_vars

-----------------------------------------------------------------------------
RequestStates ==
    [id : Ids, keepConn : BOOLEAN, eof : BOOLEAN, signaled : BOOLEAN, early : BOOLEAN,
     pc : {"new", "run", "testEof", "wait", "take", "end", "erase", "done", "crashed"},
     stream : {None} \cup Seq(Chunks)]

(* Type correctness of the connection and its requests.                    *)
TypeOK ==
    /\ web \in [Ids -> [phase : {"idle", "begun", "input", "eof", "aborted"}, input : 0..MaxInput]]
    /\ wire \in Seq([type : {"begin", "params", "stdin", "eof", "abort"}, id : Ids,
                     keepConn : BOOLEAN, chunk : Chunks])
    /\ shut \in BOOLEAN
    /\ conn \in [pc : {"read", "set", "done"}, req : Reqs \cup {None}]
    /\ requests \in [Ids -> Reqs \cup {None}]
    /\ \A r \in Reqs : Created(r) => cgi[r] \in RequestStates

(* A request that waits for input in CgiStreambuf::underflow() while there *)
(* is some, or the end of it, is going to be woken: the connection's thread *)
(* sets the event outside of the lock, the request resets it inside.       *)
InputWakesReader ==
    \A r \in Reqs : Created(r) /\ cgi[r].pc = "wait" /\ (cgi[r].stream # None \/ cgi[r].eof)
        => cgi[r].signaled \/ (conn.pc = "set" /\ conn.req = r)

(* While the connection lives, a request that has not ended gets its       *)
(* records, except when CgiRequest::Execute() of the request that had its  *)
(* id before erases the entry after sending END_REQUEST.                   *)
EntryLostOnlyByReuse ==
    \A r \in Reqs : Created(r) /\ cgi[r].pc \notin {"erase", "done"} /\ conn.pc # "done"
        => requests[cgi[r].id] = r \/ cgi[r].early

(* What the former version of the stream in fastcgi.h says: the end of the *)
(* input is looked at again after the wait, so that there is a buffer to   *)
(* read when underflow() takes it.                                         *)
WokenReaderHasInput == \A r \in Reqs : Created(r) => cgi[r].pc # "crashed"
=============================================================================
