------------------------ MODULE LibraryServerProofs ------------------------
(***************************************************************************)
(* Proofs about the servers of Library, for every value of its constants:  *)
(* the FastCGI connection and its requests, and the requests of JSON-RPC,  *)
(* which implement the abstract table of RequestTable.                     *)
(***************************************************************************)
EXTENDS Library, FiniteSetTheorems, SequenceTheorems, TLAPS

-----------------------------------------------------------------------------
(* FastCGI: types.                                                         *)

CgiTypes ==
    /\ Cgi!TypeOK
    /\ cgi \in [Reqs -> Cgi!RequestStates \cup {None}]
    /\ conn.pc = "set" => conn.req \in Reqs /\ Cgi!Created(conn.req)
    /\ \A i \in Ids : requests[i] # None =>
          requests[i] \in Reqs /\ Cgi!Created(requests[i]) /\ cgi[requests[i]].id = i

Records == [type : {"begin", "params", "stdin", "eof", "abort"}, id : Ids,
            keepConn : BOOLEAN, chunk : Cgi!Chunks]

(* What is written is appended to what the connection has not read.        *)
LEMMA CgiWriteKeepsTypes ==
  ASSUME CgiTypes, NEW rec \in Records, Cgi!Write(rec)
  PROVE  /\ wire' \in Seq(Records)
         /\ wire' = Append(wire, rec)
         /\ UNCHANGED <<shut, conn, requests, cgi>>
BY DEF CgiTypes, Cgi!TypeOK, Cgi!Write, Records

(* A step of the web server writes one record for its id, and changes what *)
(* it knows of that id only.                                               *)
LEMMA CgiWebStep ==
  ASSUME CgiTypes, NEW id \in Ids, Cgi!Web(id)
  PROVE  /\ UNCHANGED <<shut, conn, requests, cgi>>
         /\ web' \in [Ids -> [phase : {"idle", "begun", "input", "eof", "aborted"}, input : 0..MaxInput]]
         /\ \A i \in Ids : web[i].phase # "idle" => web'[i].phase # "idle"
         /\ \E rec \in Records :
               /\ wire' = Append(wire, rec)
               /\ rec.type = "begin" => rec.id = id /\ web[id].phase = "idle"
                     /\ web'[id].phase # "idle"
<1> USE CgiAssumption DEF CgiTypes, Cgi!TypeOK, Cgi!Write, Records, Cgi!Chunks
<1>1. ASSUME NEW from \in SUBSET {"idle", "begun", "input", "eof", "aborted"},
             NEW type \in {"begin", "params", "eof", "abort"},
             NEW to \in {"begun", "input", "eof", "aborted"},
             Cgi!WebSends(id, from, type, to), type = "begin" => from = {"idle"}
      PROVE  /\ UNCHANGED <<shut, conn, requests, cgi>>
             /\ web' \in [Ids -> [phase : {"idle", "begun", "input", "eof", "aborted"}, input : 0..MaxInput]]
             /\ \A i \in Ids : web[i].phase # "idle" => web'[i].phase # "idle"
             /\ \E rec \in Records :
                   /\ wire' = Append(wire, rec)
                   /\ rec.type = "begin" => rec.id = id /\ web[id].phase = "idle"
                         /\ web'[id].phase # "idle"
  <2>1. PICK keepConn \in BOOLEAN, chunk \in Cgi!Chunks :
            Cgi!Write([type |-> type, id |-> id, keepConn |-> keepConn, chunk |-> chunk])
        BY <1>1 DEF Cgi!WebSends
  <2> DEFINE rec == [type |-> type, id |-> id, keepConn |-> keepConn, chunk |-> chunk]
  <2>2. rec \in Records /\ rec.type = type /\ rec.id = id OBVIOUS
  <2>3. wire' = Append(wire, rec) /\ UNCHANGED <<shut, conn, requests, cgi>>
        BY <2>1
  <2>4. web[id].phase \in from /\ web' = [web EXCEPT ![id].phase = to]
        BY <1>1 DEF Cgi!WebSends
  <2>5. /\ web' \in [Ids -> [phase : {"idle", "begun", "input", "eof", "aborted"}, input : 0..MaxInput]]
        /\ \A i \in Ids : web[i].phase # "idle" => web'[i].phase # "idle"
        /\ web'[id].phase = to
        BY <2>4
  <2> HIDE DEF rec
  <2>6. QED BY <1>1, <2>2, <2>3, <2>4, <2>5
<1>2. CASE Cgi!WebBegins(id) BY <1>1, <1>2 DEF Cgi!WebBegins
<1>3. CASE Cgi!WebStarts(id) BY <1>1, <1>3 DEF Cgi!WebStarts
<1>4. CASE Cgi!WebInput(id)
  <2>1. PICK chunk \in Cgi!Chunks :
            Cgi!Write([type |-> "stdin", id |-> id, keepConn |-> TRUE, chunk |-> chunk])
        BY <1>4 DEF Cgi!WebInput
  <2>2. [type |-> "stdin", id |-> id, keepConn |-> TRUE, chunk |-> chunk] \in Records OBVIOUS
  <2> DEFINE rec == [type |-> "stdin", id |-> id, keepConn |-> TRUE, chunk |-> chunk]
  <2>3. wire' = Append(wire, rec) /\ UNCHANGED <<shut, conn, requests, cgi>>
        BY <2>1
  <2>4. rec \in Records /\ rec.type # "begin" BY <2>2
  <2>5. /\ web' \in [Ids -> [phase : {"idle", "begun", "input", "eof", "aborted"}, input : 0..MaxInput]]
        /\ \A i \in Ids : web[i].phase # "idle" => web'[i].phase # "idle"
        BY <1>4 DEF Cgi!WebInput
  <2> HIDE DEF rec
  <2>6. QED BY <2>3, <2>4, <2>5
<1>5. CASE Cgi!WebEof(id) BY <1>1, <1>5 DEF Cgi!WebEof
<1>6. CASE Cgi!WebAborts(id) BY <1>1, <1>6 DEF Cgi!WebAborts
<1>7. QED BY <1>2, <1>3, <1>4, <1>5, <1>6 DEF Cgi!Web

(* A request that changes stays a request, with the id it has.             *)
LEMMA CgiRequestKeepsTypes ==
  ASSUME CgiTypes, NEW r \in Reqs, Cgi!Request(r)
  PROVE  /\ CgiTypes'
         /\ Cgi!Created(r) /\ cgi'[r] \in Cgi!RequestStates /\ cgi'[r].id = cgi[r].id
         /\ \A q \in Reqs \ {r} : cgi'[q] = cgi[q]
         /\ UNCHANGED <<wire, conn>>
<1>1. Cgi!Created(r)
  BY DEF Cgi!Request, Cgi!Underflow, Cgi!UnderflowTestStream, Cgi!UnderflowTestEof,
         Cgi!UnderflowWait, Cgi!UnderflowTake, Cgi!ApplicationReturns, Cgi!Goto,
         Cgi!SendEnd, Cgi!Erase
<1>2. cgi[r] \in Cgi!RequestStates /\ cgi[r].id \in Ids
  BY <1>1 DEF CgiTypes, Cgi!Created, Cgi!RequestStates
<1>3. ASSUME NEW new \in Cgi!RequestStates, new.id = cgi[r].id, cgi' = [cgi EXCEPT ![r] = new],
             UNCHANGED <<wire, conn>>,
             web' \in [Ids -> [phase : {"idle", "begun", "input", "eof", "aborted"}, input : 0..MaxInput]],
             shut' \in BOOLEAN,
             requests' = requests \/ requests' = [requests EXCEPT ![cgi[r].id] = None]
      PROVE  /\ CgiTypes' /\ cgi'[r] \in Cgi!RequestStates /\ cgi'[r].id = cgi[r].id
             /\ \A q \in Reqs \ {r} : cgi'[q] = cgi[q]
  BY <1>1, <1>2, <1>3, CgiAssumption, ZenonT(40) DEF CgiTypes, Cgi!TypeOK, Cgi!Created
<1>4. ASSUME NEW from, NEW to \in {"take", "testEof", "wait", "end"}, Cgi!Goto(r, from, to)
      PROVE  /\ [cgi[r] EXCEPT !.pc = to] \in Cgi!RequestStates
             /\ [cgi[r] EXCEPT !.pc = to].id = cgi[r].id
             /\ cgi' = [cgi EXCEPT ![r] = [cgi[r] EXCEPT !.pc = to]]
             /\ UNCHANGED <<web, wire, shut, conn, requests>>
  BY <1>2, <1>4 DEF Cgi!Goto, Cgi!RequestStates, CgiTypes
<1>5. CASE Cgi!UnderflowTestStream(r) \/ Cgi!UnderflowTestEof(r) \/ Cgi!UnderflowWait(r)
           \/ Cgi!ApplicationReturns(r)
  <2>1. PICK from, to : to \in {"take", "testEof", "wait", "end"} /\ Cgi!Goto(r, from, to)
    BY <1>5 DEF Cgi!UnderflowTestStream, Cgi!UnderflowTestEof, Cgi!UnderflowWait,
                Cgi!ApplicationReturns
  <2> DEFINE new == [cgi[r] EXCEPT !.pc = to]
  <2>2. /\ new \in Cgi!RequestStates /\ new.id = cgi[r].id /\ cgi' = [cgi EXCEPT ![r] = new]
        /\ UNCHANGED <<web, wire, shut, conn, requests>>
    BY <1>4, <2>1
  <2>3. QED BY <1>1, <1>3, <2>2 DEF CgiTypes, Cgi!TypeOK
<1>6. CASE Cgi!UnderflowTake(r)
  <2> DEFINE new == IF cgi[r].stream = None
                    THEN [cgi[r] EXCEPT !.pc = "crashed"]
                    ELSE [cgi[r] EXCEPT !.pc = IF Head(cgi[r].stream) = "ff" THEN "end" ELSE "run",
                                        !.stream = None, !.signaled = FALSE]
  <2>1. new \in Cgi!RequestStates /\ new.id = cgi[r].id BY <1>2 DEF Cgi!RequestStates
  <2>2. cgi' = [cgi EXCEPT ![r] = new] /\ UNCHANGED <<web, wire, shut, conn, requests>>
    BY <1>2, <1>6 DEF Cgi!UnderflowTake, Cgi!RequestStates, CgiTypes
  <2>3. QED BY <1>1, <1>3, <2>1, <2>2 DEF CgiTypes, Cgi!TypeOK
<1>7. CASE Cgi!SendEnd(r)
  <2> DEFINE new == [cgi[r] EXCEPT !.pc = "erase"]
  <2>1. new \in Cgi!RequestStates /\ new.id = cgi[r].id BY <1>2 DEF Cgi!RequestStates
  <2>2. cgi' = [cgi EXCEPT ![r] = new] /\ UNCHANGED <<wire, conn, requests>>
    BY <1>2, <1>7 DEF Cgi!SendEnd, Cgi!RequestStates, CgiTypes
  <2>3. /\ web' \in [Ids -> [phase : {"idle", "begun", "input", "eof", "aborted"}, input : 0..MaxInput]]
        /\ shut' \in BOOLEAN
    BY <1>2, <1>7, CgiAssumption DEF Cgi!SendEnd, CgiTypes, Cgi!TypeOK
  <2>4. QED BY <1>1, <1>3, <2>1, <2>2, <2>3
<1>8. CASE Cgi!Erase(r)
  <2> DEFINE new == [Cgi!NewRequest(cgi[r].id, FALSE, FALSE) EXCEPT !.pc = "done"]
  <2>1. new \in Cgi!RequestStates /\ new.id = cgi[r].id
    BY <1>2 DEF Cgi!NewRequest, Cgi!RequestStates
  <2>2. cgi' = [cgi EXCEPT ![r] = new]
    BY <1>8 DEF Cgi!Erase, CgiTypes
  <2>3. QED BY <1>1, <1>3, <1>8, <2>1, <2>2 DEF Cgi!Erase, CgiTypes, Cgi!TypeOK
<1>9. QED BY <1>5, <1>6, <1>7, <1>8 DEF Cgi!Request, Cgi!Underflow

(* A record that is read is the first that was written.                    *)
LEMMA CgiReadTakesFirst ==
  ASSUME CgiTypes, Cgi!ReadRecord
  PROVE  /\ conn.pc = "read" /\ wire # <<>> /\ Head(wire) \in Records
         /\ wire' = Tail(wire) /\ wire' \in Seq(Records)
         /\ \A k \in DOMAIN wire' : k + 1 \in DOMAIN wire /\ wire'[k] = wire[k + 1]
         /\ UNCHANGED <<web, shut>>
<1>1. wire \in Seq(Records) BY DEF CgiTypes, Cgi!TypeOK, Records
<1>2. conn.pc = "read" /\ wire # <<>> /\ wire' = Tail(wire) /\ UNCHANGED <<web, shut>>
  BY DEF Cgi!ReadRecord
<1>3. QED BY <1>1, <1>2

LEMMA CgiReadKeepsTypes ==
  ASSUME CgiTypes, Cgi!ReadRecord
  PROVE  CgiTypes'
<1> USE CgiAssumption DEF CgiTypes, Cgi!TypeOK, Cgi!Created
<1> DEFINE rec == Head(wire)
           r   == requests[rec.id]
<1>1. rec \in Records /\ wire' \in Seq(Records) /\ UNCHANGED <<web, shut>>
      BY CgiReadTakesFirst
<1>2. r # None => r \in Reqs /\ cgi[r] # None /\ cgi[r] \in Cgi!RequestStates
      BY <1>1 DEF Records
<1>3. CASE rec.type = "begin" /\ Cgi!BeginRequest(rec)
  <2>1. PICK q \in Reqs :
            /\ cgi[q] = None
            /\ cgi' = [cgi EXCEPT ![q] = Cgi!NewRequest(rec.id, rec.keepConn,
                          \E p \in Reqs : Cgi!Created(p) /\ cgi[p].id = rec.id
                              /\ cgi[p].pc = "erase")]
            /\ requests' = [requests EXCEPT ![rec.id] = q]
            /\ conn' = conn
        BY <1>3 DEF Cgi!BeginRequest
  <2>2. cgi'[q] \in Cgi!RequestStates /\ cgi'[q].id = rec.id
        BY <1>1, <2>1 DEF Cgi!NewRequest, Cgi!RequestStates, Records
  <2>3. QED BY <1>1, <2>1, <2>2 DEF Records
<1>4. CASE UNCHANGED <<conn, requests, cgi>> BY <1>1, <1>4 DEF Records
<1>5. CASE r # None /\ Cgi!StartRequest(r)
  <2>1. cgi'[r] \in Cgi!RequestStates /\ cgi'[r].id = cgi[r].id
        BY <1>2, <1>5 DEF Cgi!StartRequest, Cgi!RequestStates
  <2>2. QED BY <1>1, <1>2, <1>5, <2>1 DEF Cgi!StartRequest, Records
<1>6. CASE r # None /\ Cgi!StoreInput(r, rec)
  <2>1. cgi'[r] \in Cgi!RequestStates /\ cgi'[r].id = cgi[r].id
    <3>1. CASE rec.type = "eof"
      <4>1. cgi'[r] = [cgi[r] EXCEPT !.eof = TRUE]
        BY <1>2, <1>6, <3>1 DEF Cgi!StoreInput
      <4>2. QED BY <1>2, <1>6, <4>1 DEF Cgi!RequestStates
    <3>2. CASE rec.type # "eof"
      <4> DEFINE filled == IF cgi[r].stream = None THEN <<rec.chunk>> ELSE Append(cgi[r].stream, rec.chunk)
      <4>1. cgi'[r] = [cgi[r] EXCEPT !.stream = filled]
        BY <1>2, <1>6, <3>2 DEF Cgi!StoreInput, Cgi!RequestStates
      <4>2. filled \in Seq(Cgi!Chunks)
        BY <1>1, <1>2, <1>6 DEF Records, Cgi!RequestStates
      <4>3. ASSUME NEW old \in Cgi!RequestStates, NEW stream \in Seq(Cgi!Chunks)
            PROVE  [old EXCEPT !.stream = stream] \in Cgi!RequestStates
                   /\ [old EXCEPT !.stream = stream].id = old.id
        BY DEF Cgi!RequestStates
      <4> HIDE DEF filled
      <4>4. QED BY <1>2, <1>6, <4>1, <4>2, <4>3
    <3>3. QED BY <3>1, <3>2
  <2>2. QED BY <1>1, <1>2, <1>6, <2>1 DEF Cgi!StoreInput, Records
<1>7. QED BY <1>3, <1>4, <1>5, <1>6 DEF Cgi!ReadRecord, Cgi!AbortRequest

LEMMA CgiStepKeepsTypes == CgiTypes /\ Cgi!Next => CgiTypes'
<1> SUFFICES ASSUME CgiTypes, Cgi!Next PROVE CgiTypes'
    OBVIOUS
<1>1. CASE \E id \in Ids : Cgi!Web(id)
  <2>1. PICK id \in Ids : Cgi!Web(id) BY <1>1
  <2>2. wire \in Seq(Records) BY DEF CgiTypes, Cgi!TypeOK, Records
  <2>3. wire' \in Seq(Records) BY <2>1, <2>2, CgiWebStep
  <2>4. /\ UNCHANGED <<shut, conn, requests, cgi>>
        /\ web' \in [Ids -> [phase : {"idle", "begun", "input", "eof", "aborted"}, input : 0..MaxInput]]
    BY <2>1, CgiWebStep
  <2>5. QED BY <2>3, <2>4 DEF CgiTypes, Cgi!TypeOK, Cgi!Created, Records
<1>2. CASE Cgi!WebCloses BY <1>2 DEF Cgi!WebCloses, CgiTypes, Cgi!TypeOK, Cgi!Created
<1>3. CASE Cgi!ReadRecord BY <1>3, CgiReadKeepsTypes
<1>4. CASE Cgi!SetEvent
  <2>1. cgi'[conn.req] \in Cgi!RequestStates /\ cgi'[conn.req].id = cgi[conn.req].id
    <3>1. cgi[conn.req] \in Cgi!RequestStates
          /\ cgi'[conn.req] = [cgi[conn.req] EXCEPT !.signaled = TRUE]
      BY <1>4 DEF Cgi!SetEvent, CgiTypes, Cgi!Created
    <3>2. QED BY <3>1 DEF Cgi!RequestStates
  <2>2. QED BY <1>4, <2>1, CgiAssumption DEF Cgi!SetEvent, CgiTypes, Cgi!TypeOK, Cgi!Created
<1>5. CASE Cgi!EndConnection BY <1>5 DEF Cgi!EndConnection, CgiTypes, Cgi!TypeOK, Cgi!Created
<1>6. CASE \E r \in Reqs : Cgi!Request(r) BY <1>6, CgiRequestKeepsTypes
<1>7. QED BY <1>1, <1>2, <1>3, <1>4, <1>5, <1>6 DEF Cgi!Next, Cgi!Connection

-----------------------------------------------------------------------------
(* FastCGI: the wake-up of a reader.  The event of a request is set, or is *)
(* about to be, while there is input it has not taken, whatever it does;   *)
(* the end of the input is only promised to a request that waits.          *)

CgiWakes(r) == cgi[r].signaled \/ (conn.pc = "set" /\ conn.req = r)

CgiWaking ==
    \A r \in Reqs : Cgi!Created(r) =>
        /\ cgi[r].stream # None => CgiWakes(r)
        /\ cgi[r].pc = "wait" /\ cgi[r].eof => CgiWakes(r)

(* The request itself resets the event only with the input it takes, and   *)
(* begins to wait only when the end has not come.                          *)
LEMMA CgiRequestKeepsWaking ==
  ASSUME CgiTypes, CgiWaking, NEW r \in Reqs, Cgi!Request(r)
  PROVE  CgiWaking'
<1> USE DEF CgiWaking, CgiWakes, Cgi!Created
<1>1. /\ cgi[r] # None /\ cgi[r] \in Cgi!RequestStates /\ r \in DOMAIN cgi
      /\ \A q \in Reqs \ {r} : cgi'[q] = cgi[q]
      /\ conn' = conn
  BY CgiRequestKeepsTypes DEF CgiTypes
<1> SUFFICES ASSUME cgi'[r] # None
             PROVE  /\ cgi'[r].stream # None => CgiWakes(r)'
                    /\ cgi'[r].pc = "wait" /\ cgi'[r].eof => CgiWakes(r)'
  BY <1>1
<1>2. CASE Cgi!UnderflowTake(r) BY <1>1, <1>2 DEF Cgi!UnderflowTake, Cgi!RequestStates
<1>3. CASE Cgi!Erase(r) BY <1>1, <1>3 DEF Cgi!Erase, Cgi!NewRequest
<1>4. ASSUME NEW from, NEW to, Cgi!Goto(r, from, to), to = "wait" => ~cgi[r].eof
      PROVE  /\ cgi'[r].stream # None => CgiWakes(r)'
             /\ cgi'[r].pc = "wait" /\ cgi'[r].eof => CgiWakes(r)'
  BY <1>1, <1>4 DEF Cgi!Goto, Cgi!RequestStates
<1>5. CASE Cgi!UnderflowTestStream(r) BY <1>4, <1>5 DEF Cgi!UnderflowTestStream
<1>6. CASE Cgi!UnderflowTestEof(r) BY <1>1, <1>4, <1>6 DEF Cgi!UnderflowTestEof
<1>7. CASE Cgi!UnderflowWait(r) BY <1>4, <1>7 DEF Cgi!UnderflowWait
<1>8. CASE Cgi!ApplicationReturns(r) BY <1>4, <1>8 DEF Cgi!ApplicationReturns
<1>9. CASE Cgi!SendEnd(r) BY <1>1, <1>9 DEF Cgi!SendEnd, Cgi!RequestStates
<1>10. QED BY <1>2, <1>3, <1>5, <1>6, <1>7, <1>8, <1>9 DEF Cgi!Request, Cgi!Underflow

(* The connection stores input and sets the event in two steps.            *)
LEMMA CgiReadKeepsWaking ==
  ASSUME CgiTypes, CgiWaking, Cgi!ReadRecord
  PROVE  CgiWaking'
<1> USE DEF CgiWaking, CgiWakes, Cgi!Created
<1> DEFINE rec == Head(wire)
           r   == requests[rec.id]
<1>1. rec \in Records /\ conn.pc = "read" BY CgiReadTakesFirst
<1>2. r # None => r \in Reqs /\ cgi[r] # None /\ cgi[r] \in Cgi!RequestStates
      BY <1>1 DEF Records, CgiTypes, Cgi!TypeOK
<1>3. DOMAIN cgi = Reqs BY DEF CgiTypes
<1>4. CASE rec.type = "begin" /\ Cgi!BeginRequest(rec)
  <2>1. PICK q \in Reqs, early \in BOOLEAN :
            cgi' = [cgi EXCEPT ![q] = Cgi!NewRequest(rec.id, rec.keepConn, early)] /\ conn' = conn
        BY <1>4 DEF Cgi!BeginRequest
  <2>2. QED BY <1>3, <2>1 DEF Cgi!NewRequest
<1>5. CASE UNCHANGED <<conn, requests, cgi>> BY <1>5
<1>6. CASE r # None /\ Cgi!StartRequest(r)
  <2>1. /\ \A q \in Reqs \ {r} : cgi'[q] = cgi[q]
        /\ cgi'[r].stream = cgi[r].stream /\ cgi'[r].eof = cgi[r].eof
        /\ cgi'[r].signaled = cgi[r].signaled /\ conn' = conn
        /\ cgi'[r].pc = "wait" => cgi[r].pc = "wait"
    BY <1>2, <1>3, <1>6 DEF Cgi!StartRequest, Cgi!RequestStates
  <2>2. QED BY <1>2, <1>6, <2>1
<1>7. CASE r # None /\ Cgi!StoreInput(r, rec)
  <2>1. (\A q \in Reqs \ {r} : cgi'[q] = cgi[q]) /\ conn' = [pc |-> "set", req |-> r]
    BY <1>2, <1>3, <1>7 DEF Cgi!StoreInput
  <2>2. QED BY <1>1, <1>2, <1>7, <2>1
<1>8. QED BY <1>4, <1>5, <1>6, <1>7 DEF Cgi!ReadRecord, Cgi!AbortRequest

LEMMA CgiStepKeepsWaking == CgiTypes /\ CgiWaking /\ Cgi!Next => CgiWaking'
<1> SUFFICES ASSUME CgiTypes, CgiWaking, Cgi!Next PROVE CgiWaking'
    OBVIOUS
<1> USE DEF CgiWaking, CgiWakes, Cgi!Created
<1>1. CASE \E id \in Ids : Cgi!Web(id) BY <1>1, CgiWebStep
<1>2. CASE Cgi!WebCloses BY <1>2 DEF Cgi!WebCloses
<1>3. CASE Cgi!ReadRecord BY <1>3, CgiReadKeepsWaking
<1>4. CASE Cgi!SetEvent
  <2>1. /\ conn.req \in Reqs /\ cgi[conn.req] \in Cgi!RequestStates
        /\ cgi' = [cgi EXCEPT ![conn.req].signaled = TRUE] /\ DOMAIN cgi = Reqs
    BY <1>4 DEF Cgi!SetEvent, CgiTypes
  <2>2. QED BY <2>1 DEF Cgi!RequestStates
<1>5. CASE Cgi!EndConnection BY <1>5 DEF Cgi!EndConnection, CgiTypes, Cgi!TypeOK
<1>6. CASE \E r \in Reqs : Cgi!Request(r) BY <1>6, CgiRequestKeepsWaking
<1>7. QED BY <1>1, <1>2, <1>3, <1>4, <1>5, <1>6 DEF Cgi!Next, Cgi!Connection

-----------------------------------------------------------------------------
(* FastCGI: the ids.  The web server has seen the end of a request before  *)
(* it uses its id again, so an id has one request at most that has not     *)
(* ended; but one that has ended and has not erased its entry yet may be   *)
(* there when the next is registered.                                      *)

CgiLive(r) == Cgi!Created(r) /\ cgi[r].pc \notin {"erase", "done"}

CgiLiveIsKnown == \A r \in Reqs : CgiLive(r) => web[cgi[r].id].phase # "idle"

CgiBeginIsNew ==
    \A k \in DOMAIN wire : wire[k].type = "begin" =>
        /\ web[wire[k].id].phase # "idle"
        /\ \A r \in Reqs : CgiLive(r) => cgi[r].id # wire[k].id
        /\ \A j \in DOMAIN wire : wire[j].type = "begin" /\ wire[j].id = wire[k].id => j = k

CgiLiveIsAlone ==
    \A r, q \in Reqs : CgiLive(r) /\ CgiLive(q) /\ cgi[r].id = cgi[q].id => r = q

CgiEraserWasSeen ==
    \A r, q \in Reqs : CgiLive(r) /\ Cgi!Created(q) /\ cgi[q].pc = "erase" /\ cgi[r].id = cgi[q].id
        => cgi[r].early

CgiEntries ==
    /\ CgiLiveIsKnown /\ CgiBeginIsNew /\ CgiLiveIsAlone /\ CgiEraserWasSeen
    /\ Cgi!EntryLostOnlyByReuse

(* A new record of the web server is a "begin" only for an id that is free. *)
LEMMA CgiWebKeepsEntries ==
  ASSUME CgiTypes, CgiEntries, NEW id \in Ids, Cgi!Web(id)
  PROVE  CgiEntries'
<1> USE DEF CgiEntries
<1>1. PICK rec \in Records :
          /\ wire' = Append(wire, rec)
          /\ rec.type = "begin" => rec.id = id /\ web[id].phase = "idle" /\ web'[id].phase # "idle"
  BY CgiWebStep
<1>2. /\ UNCHANGED <<shut, conn, requests, cgi>>
      /\ \A i \in Ids : web[i].phase # "idle" => web'[i].phase # "idle"
  BY CgiWebStep
<1>3. \A r \in Reqs : CgiLive(r) => cgi[r].id \in Ids
  BY DEF CgiLive, CgiTypes, Cgi!TypeOK, Cgi!Created, Cgi!RequestStates
<1>4. \A r \in Reqs : CgiLive(r)' = CgiLive(r) BY <1>2 DEF CgiLive, Cgi!Created
<1>5. CgiLiveIsKnown' BY <1>2, <1>3, <1>4 DEF CgiLiveIsKnown
<1>6. CgiLiveIsAlone' /\ CgiEraserWasSeen' /\ Cgi!EntryLostOnlyByReuse'
  BY <1>2, <1>4 DEF CgiLiveIsAlone, CgiEraserWasSeen, Cgi!EntryLostOnlyByReuse, Cgi!Created
<1>7. CgiBeginIsNew'
  <2>1. wire \in Seq(Records) BY DEF CgiTypes, Cgi!TypeOK, Records
  <2>2. /\ Len(wire') = Len(wire) + 1 /\ wire'[Len(wire) + 1] = rec
        /\ DOMAIN wire' = 1..(Len(wire) + 1) /\ DOMAIN wire = 1..Len(wire) /\ Len(wire) \in Nat
        /\ \A k \in DOMAIN wire : wire'[k] = wire[k] /\ wire[k] \in Records
    BY <1>1, <2>1
  <2>3. \A k \in DOMAIN wire : wire[k].id \in Ids BY <2>2 DEF Records
  <2>4. \A k \in DOMAIN wire : wire[k].type = "begin" => web'[wire[k].id].phase # "idle"
    BY <1>2, <2>3 DEF CgiBeginIsNew
  <2>5. \A k \in DOMAIN wire : wire[k].type = "begin" /\ rec.type = "begin" => wire[k].id # rec.id
    BY <1>1 DEF CgiBeginIsNew
  <2>6. rec.type = "begin" => \A r \in Reqs : CgiLive(r) => cgi[r].id # rec.id
    BY <1>1 DEF CgiLiveIsKnown
  <2>7. QED BY <1>1, <1>2, <1>4, <2>2, <2>4, <2>5, <2>6 DEF CgiBeginIsNew
<1>8. QED BY <1>5, <1>6, <1>7

(* A request that changes and is no more alive than before, while the rest *)
(* stays, disturbs no entry, unless it erases one.                         *)
LEMMA CgiRequestKeepsEntries ==
  ASSUME CgiTypes, CgiEntries, NEW r \in Reqs, Cgi!Request(r)
  PROVE  CgiEntries'
<1> USE DEF CgiEntries
<1>1. /\ Cgi!Created(r) /\ cgi[r] \in Cgi!RequestStates /\ cgi'[r].id = cgi[r].id
      /\ cgi'[r] \in Cgi!RequestStates /\ cgi'[r] # None
      /\ \A q \in Reqs \ {r} : cgi'[q] = cgi[q]
      /\ UNCHANGED <<wire, conn>>
  BY CgiRequestKeepsTypes, CgiAssumption DEF CgiTypes, Cgi!Created
<1>2. \A q \in Reqs : Cgi!Created(q)' = Cgi!Created(q) BY <1>1 DEF Cgi!Created
<1>3. \A q \in Reqs : Cgi!Created(q) => cgi[q] \in Cgi!RequestStates /\ cgi[q].id \in Ids
  BY DEF CgiTypes, Cgi!TypeOK, Cgi!Created, Cgi!RequestStates
<1>4. ASSUME CgiLive(r)' => CgiLive(r), CgiLive(r), cgi'[r].early = cgi[r].early,
             UNCHANGED <<web, requests>>, cgi'[r].pc # "erase"
      PROVE  CgiEntries'
  <2>1. \A q \in Reqs : CgiLive(q)' => CgiLive(q) BY <1>1, <1>4 DEF CgiLive, Cgi!Created
  <2>2. CgiLiveIsKnown' BY <1>1, <1>4, <2>1 DEF CgiLiveIsKnown
  <2>3. CgiBeginIsNew' BY <1>1, <1>4, <2>1 DEF CgiBeginIsNew
  <2>4. CgiLiveIsAlone' BY <1>1, <2>1 DEF CgiLiveIsAlone
  <2>5. CgiEraserWasSeen' BY <1>1, <1>2, <1>4, <2>1 DEF CgiEraserWasSeen
  <2>6. Cgi!EntryLostOnlyByReuse'
    BY <1>1, <1>2, <1>4, <2>1 DEF Cgi!EntryLostOnlyByReuse, CgiLive
  <2>7. QED BY <2>2, <2>3, <2>4, <2>5, <2>6
<1>5. ASSUME NEW from, NEW to, from \notin {"erase", "done"}, to \notin {"erase", "done"},
             Cgi!Goto(r, from, to)
      PROVE  CgiEntries'
  <2>1. cgi[r].pc = from /\ cgi'[r] = [cgi[r] EXCEPT !.pc = to] /\ UNCHANGED <<web, requests>>
    BY <1>1, <1>5 DEF Cgi!Goto, CgiTypes
  <2>2. cgi'[r].pc = to /\ cgi'[r].early = cgi[r].early BY <1>1, <2>1 DEF Cgi!RequestStates
  <2>3. QED BY <1>1, <1>4, <1>5, <2>1, <2>2 DEF CgiLive
<1>6. CASE Cgi!UnderflowTestStream(r) \/ Cgi!UnderflowTestEof(r) \/ Cgi!UnderflowWait(r)
           \/ Cgi!ApplicationReturns(r)
  BY <1>5, <1>6 DEF Cgi!UnderflowTestStream, Cgi!UnderflowTestEof, Cgi!UnderflowWait,
                    Cgi!ApplicationReturns
<1>7. CASE Cgi!UnderflowTake(r)
  <2>1. /\ cgi[r].pc = "take" /\ cgi'[r].early = cgi[r].early
        /\ cgi'[r].pc \in {"crashed", "end", "run"} /\ UNCHANGED <<web, requests>>
    BY <1>1, <1>7 DEF Cgi!UnderflowTake, Cgi!RequestStates, CgiTypes
  <2>2. QED BY <1>1, <1>4, <2>1 DEF CgiLive
<1>8. CASE Cgi!SendEnd(r)
  <2>1. /\ cgi[r].pc = "end" /\ cgi'[r].pc = "erase" /\ requests' = requests
        /\ \A i \in Ids \ {cgi[r].id} : web'[i] = web[i]
    BY <1>1, <1>8 DEF Cgi!SendEnd, Cgi!RequestStates, CgiTypes, Cgi!TypeOK
  <2>2. CgiLive(r) /\ ~CgiLive(r)' BY <1>1, <2>1 DEF CgiLive
  <2>3. \A q \in Reqs : CgiLive(q)' => q # r /\ CgiLive(q) /\ cgi'[q] = cgi[q]
    BY <1>1, <2>2 DEF CgiLive, Cgi!Created
  <2>4. \A q \in Reqs : CgiLive(q)' => cgi[q].id # cgi[r].id
    BY <2>2, <2>3 DEF CgiLiveIsAlone
  <2>5. CgiLiveIsKnown' BY <1>3, <2>1, <2>3, <2>4 DEF CgiLiveIsKnown, CgiLive
  <2>6. CgiBeginIsNew'
    <3>1. wire \in Seq(Records) BY DEF CgiTypes, Cgi!TypeOK, Records
    <3>2. \A k \in DOMAIN wire : wire[k].id \in Ids
      <4>1. \A k \in DOMAIN wire : wire[k] \in Records BY <3>1
      <4>2. QED BY <4>1 DEF Records
    <3>3. \A k \in DOMAIN wire : wire[k].type = "begin" => wire[k].id # cgi[r].id
      BY <2>2 DEF CgiBeginIsNew
    <3>4. QED BY <1>1, <2>1, <2>3, <3>2, <3>3 DEF CgiBeginIsNew
  <2>7. CgiLiveIsAlone' BY <2>3 DEF CgiLiveIsAlone
  <2>8. CgiEraserWasSeen' BY <1>1, <1>2, <2>3, <2>4 DEF CgiEraserWasSeen
  <2>9. Cgi!EntryLostOnlyByReuse'
    BY <1>1, <1>2, <2>1, <2>3 DEF Cgi!EntryLostOnlyByReuse, CgiLive
  <2>10. QED BY <2>5, <2>6, <2>7, <2>8, <2>9
<1>9. CASE Cgi!Erase(r)
  <2>1. /\ cgi[r].pc = "erase" /\ cgi'[r].pc = "done" /\ web' = web
        /\ \A i \in Ids \ {cgi[r].id} : requests'[i] = requests[i]
    BY <1>1, <1>9 DEF Cgi!Erase, Cgi!NewRequest, Cgi!RequestStates, CgiTypes, Cgi!TypeOK
  <2>2. \A q \in Reqs : CgiLive(q)' => q # r /\ CgiLive(q) /\ cgi'[q] = cgi[q]
    BY <1>1, <2>1 DEF CgiLive, Cgi!Created
  <2>3. CgiLiveIsKnown' BY <2>1, <2>2 DEF CgiLiveIsKnown
  <2>4. CgiBeginIsNew' BY <1>1, <2>1, <2>2 DEF CgiBeginIsNew
  <2>5. CgiLiveIsAlone' BY <2>2 DEF CgiLiveIsAlone
  <2>6. CgiEraserWasSeen' BY <1>1, <1>2, <2>1, <2>2 DEF CgiEraserWasSeen
  <2>7. Cgi!EntryLostOnlyByReuse'
    <3> SUFFICES ASSUME NEW q \in Reqs, CgiLive(q)', conn'.pc # "done"
                 PROVE  requests'[cgi'[q].id] = q \/ cgi'[q].early
      BY DEF Cgi!EntryLostOnlyByReuse, CgiLive
    <3>1. CgiLive(q) /\ cgi'[q] = cgi[q] /\ cgi[q].id \in Ids BY <1>3, <2>2 DEF CgiLive
    <3>2. CASE cgi[q].id = cgi[r].id BY <1>1, <2>1, <3>1, <3>2 DEF CgiEraserWasSeen
    <3>3. CASE cgi[q].id # cgi[r].id
      BY <1>1, <2>1, <3>1, <3>3 DEF Cgi!EntryLostOnlyByReuse, CgiLive
    <3>4. QED BY <3>2, <3>3
  <2>8. QED BY <2>3, <2>4, <2>5, <2>6, <2>7
<1>10. QED BY <1>6, <1>7, <1>8, <1>9 DEF Cgi!Request, Cgi!Underflow

(* A begin record makes the only live request with its id; the others find *)
(* their request by its id.                                                *)
LEMMA CgiReadKeepsEntries ==
  ASSUME CgiTypes, CgiEntries, Cgi!ReadRecord
  PROVE  CgiEntries'
<1> USE DEF CgiEntries
<1> DEFINE rec == Head(wire)
           r   == requests[rec.id]
<1>1. /\ rec \in Records /\ rec = wire[1] /\ 1 \in DOMAIN wire /\ conn.pc = "read"
      /\ UNCHANGED web
      /\ \A k \in DOMAIN wire' : k + 1 \in DOMAIN wire /\ k + 1 # 1 /\ wire'[k] = wire[k + 1]
  <2>1. wire \in Seq(Records) BY DEF CgiTypes, Cgi!TypeOK, Records
  <2>2. QED BY <2>1, CgiReadTakesFirst
<1>2. r # None => r \in Reqs /\ cgi[r] # None /\ cgi[r] \in Cgi!RequestStates
      BY <1>1 DEF Records, CgiTypes, Cgi!TypeOK, Cgi!Created
<1>3. DOMAIN cgi = Reqs /\ DOMAIN requests = Ids BY DEF CgiTypes, Cgi!TypeOK
<1>4. \A q \in Reqs : Cgi!Created(q) => cgi[q].id \in Ids
  BY DEF CgiTypes, Cgi!TypeOK, Cgi!Created, Cgi!RequestStates
<1>5. ASSUME \A q \in Reqs : (cgi'[q] # None) <=> (cgi[q] # None),
             \A q \in Reqs : cgi[q] # None => cgi'[q].id = cgi[q].id
                 /\ cgi'[q].early = cgi[q].early,
             \A q \in Reqs : cgi[q] # None =>
                cgi'[q].pc = cgi[q].pc \/ (cgi[q].pc = "new" /\ cgi'[q].pc = "run"),
             UNCHANGED requests
      PROVE  CgiEntries'
  <2>1. \A q \in Reqs : CgiLive(q)' <=> CgiLive(q) BY <1>5 DEF CgiLive, Cgi!Created
  <2>2. CgiLiveIsKnown' BY <1>1, <1>5, <2>1 DEF CgiLiveIsKnown, CgiLive
  <2>3. CgiBeginIsNew'
    <3> SUFFICES ASSUME NEW k \in DOMAIN wire', wire'[k].type = "begin"
                 PROVE  /\ web'[wire'[k].id].phase # "idle"
                        /\ \A q \in Reqs : CgiLive(q)' => cgi'[q].id # wire'[k].id
                        /\ \A j \in DOMAIN wire' : wire'[j].type = "begin"
                              /\ wire'[j].id = wire'[k].id => j = k
      BY DEF CgiBeginIsNew
    <3>1. k \in Int /\ \A j \in DOMAIN wire' : j \in Int
      BY CgiReadTakesFirst
    <3>2. \A q \in Reqs : CgiLive(q)' => CgiLive(q) /\ cgi'[q].id = cgi[q].id
      BY <1>5, <2>1 DEF CgiLive
    <3>3. QED BY <1>1, <3>1, <3>2 DEF CgiBeginIsNew
  <2>4. CgiLiveIsAlone' BY <1>5, <2>1 DEF CgiLiveIsAlone, CgiLive
  <2>5. CgiEraserWasSeen'
    <3> SUFFICES ASSUME NEW q \in Reqs, NEW e \in Reqs, CgiLive(q)', Cgi!Created(e)',
                        cgi'[e].pc = "erase", cgi'[q].id = cgi'[e].id
                 PROVE  cgi'[q].early
      BY DEF CgiEraserWasSeen
    <3>1. CgiLive(q) /\ Cgi!Created(q) /\ Cgi!Created(e) BY <1>5, <2>1 DEF CgiLive, Cgi!Created
    <3>2. cgi[e].pc = "erase" BY <1>5, <3>1
    <3>3. QED BY <1>5, <3>1, <3>2 DEF CgiEraserWasSeen, Cgi!Created
  <2>6. Cgi!EntryLostOnlyByReuse'
    BY <1>1, <1>5, <2>1 DEF Cgi!EntryLostOnlyByReuse, CgiLive
  <2>7. QED BY <2>2, <2>3, <2>4, <2>5, <2>6
<1>6. CASE rec.type = "begin" /\ Cgi!BeginRequest(rec)
  <2> DEFINE seen == \E p \in Reqs : Cgi!Created(p) /\ cgi[p].id = rec.id /\ cgi[p].pc = "erase"
             new  == Cgi!NewRequest(rec.id, rec.keepConn, seen)
  <2>1. PICK n \in Reqs :
            /\ ~Cgi!Created(n)
            /\ cgi' = [cgi EXCEPT ![n] = new]
            /\ requests' = [requests EXCEPT ![rec.id] = n]
            /\ conn' = conn
        BY <1>6 DEF Cgi!BeginRequest
  <2>2. /\ new.id = rec.id /\ new.pc = "new" /\ new.early = seen /\ rec.id \in Ids
        /\ \A q \in Reqs \ {n} : cgi'[q] = cgi[q]
        /\ cgi'[n] = new
    BY <1>1, <1>3, <2>1 DEF Cgi!NewRequest, Records
  <2> HIDE DEF new
  <2>3. \A q \in Reqs \ {n} : Cgi!Created(q)' = Cgi!Created(q) /\ CgiLive(q)' = CgiLive(q)
    BY <2>2 DEF Cgi!Created, CgiLive
  <2>4. ~CgiLive(n) BY <2>1 DEF CgiLive
  <2>5. \A q \in Reqs : CgiLive(q) => cgi[q].id # rec.id
    BY <1>1, <1>6 DEF CgiBeginIsNew
  <2>6. web[rec.id].phase # "idle" BY <1>1, <1>6 DEF CgiBeginIsNew
  <2>7. \A k \in DOMAIN wire' : wire'[k].type = "begin" => wire'[k].id # rec.id
    BY <1>1, <1>6 DEF CgiBeginIsNew
  <2>8. CgiLiveIsKnown' BY <1>1, <2>2, <2>3, <2>6 DEF CgiLiveIsKnown
  <2>9. CgiBeginIsNew'
    <3> SUFFICES ASSUME NEW k \in DOMAIN wire', wire'[k].type = "begin"
                 PROVE  /\ web'[wire'[k].id].phase # "idle"
                        /\ \A q \in Reqs : CgiLive(q)' => cgi'[q].id # wire'[k].id
                        /\ \A j \in DOMAIN wire' : wire'[j].type = "begin"
                              /\ wire'[j].id = wire'[k].id => j = k
      BY DEF CgiBeginIsNew
    <3>1. k \in Int /\ \A j \in DOMAIN wire' : j \in Int
      BY CgiReadTakesFirst
    <3>2. \A q \in Reqs : CgiLive(q)' => cgi'[q].id # wire'[k].id
      BY <1>1, <2>2, <2>3, <2>7 DEF CgiBeginIsNew
    <3>3. QED BY <1>1, <3>1, <3>2 DEF CgiBeginIsNew
  <2>10. CgiLiveIsAlone' BY <2>2, <2>3, <2>5 DEF CgiLiveIsAlone
  <2>11. CgiEraserWasSeen'
    <3> SUFFICES ASSUME NEW q \in Reqs, NEW e \in Reqs, CgiLive(q)', Cgi!Created(e)',
                        cgi'[e].pc = "erase", cgi'[q].id = cgi'[e].id
                 PROVE  cgi'[q].early
      BY DEF CgiEraserWasSeen
    <3>1. e # n /\ Cgi!Created(e) /\ cgi[e].pc = "erase" /\ cgi'[e] = cgi[e] BY <2>2, <2>3
    <3>2. CASE q = n BY <2>2, <3>1, <3>2
    <3>3. CASE q # n BY <2>2, <2>3, <3>1, <3>3 DEF CgiEraserWasSeen
    <3>4. QED BY <3>2, <3>3
  <2>12. Cgi!EntryLostOnlyByReuse'
    <3> SUFFICES ASSUME NEW q \in Reqs, CgiLive(q)', conn'.pc # "done"
                 PROVE  requests'[cgi'[q].id] = q \/ cgi'[q].early
      BY DEF Cgi!EntryLostOnlyByReuse, CgiLive
    <3>1. CASE q = n BY <1>3, <2>1, <2>2, <3>1
    <3>2. CASE q # n
      <4>1. CgiLive(q) /\ cgi'[q] = cgi[q] /\ cgi[q].id # rec.id
        BY <2>2, <2>3, <2>5, <3>2
      <4>2. requests[cgi[q].id] = q \/ cgi[q].early
        BY <2>1, <4>1 DEF Cgi!EntryLostOnlyByReuse, CgiLive
      <4>3. QED BY <1>3, <1>4, <2>1, <4>1, <4>2 DEF CgiLive
    <3>3. QED BY <3>1, <3>2
  <2>13. QED BY <2>8, <2>9, <2>10, <2>11, <2>12
<1>7. CASE UNCHANGED <<conn, requests, cgi>> BY <1>5, <1>7 DEF Cgi!Created
<1>8. CASE r # None /\ Cgi!StartRequest(r)
  <2>1. /\ \A q \in Reqs \ {r} : cgi'[q] = cgi[q]
        /\ cgi'[r] = [cgi[r] EXCEPT !.pc = IF @ = "new" THEN "run" ELSE @]
        /\ UNCHANGED requests
    BY <1>2, <1>3, <1>8 DEF Cgi!StartRequest
  <2>2. cgi'[r] # None
    BY CgiReadKeepsTypes, <1>2, <1>8, <2>1, CgiAssumption DEF Cgi!RequestStates
  <2>3. QED BY <1>2, <1>5, <1>8, <2>1, <2>2 DEF Cgi!Created, Cgi!RequestStates
<1>9. CASE r # None /\ Cgi!StoreInput(r, rec)
  <2>1. /\ \A q \in Reqs \ {r} : cgi'[q] = cgi[q]
        /\ cgi'[r].id = cgi[r].id /\ cgi'[r].early = cgi[r].early /\ cgi'[r].pc = cgi[r].pc
        /\ UNCHANGED requests
    BY <1>2, <1>3, <1>9 DEF Cgi!StoreInput, Cgi!RequestStates
  <2>2. cgi'[r] # None
    BY CgiReadKeepsTypes, <1>2, <1>9, CgiAssumption DEF CgiTypes, Cgi!StoreInput, Cgi!Created
  <2>3. QED BY <1>2, <1>5, <1>9, <2>1, <2>2 DEF Cgi!Created
<1>10. QED BY <1>6, <1>7, <1>8, <1>9 DEF Cgi!ReadRecord, Cgi!AbortRequest

LEMMA CgiStepKeepsEntries == CgiTypes /\ CgiEntries /\ Cgi!Next => CgiEntries'
<1> SUFFICES ASSUME CgiTypes, CgiEntries, Cgi!Next PROVE CgiEntries'
    OBVIOUS
<1> USE DEF CgiEntries, CgiLiveIsKnown, CgiBeginIsNew, CgiLiveIsAlone, CgiEraserWasSeen,
            Cgi!EntryLostOnlyByReuse, CgiLive, Cgi!Created
<1>1. CASE \E id \in Ids : Cgi!Web(id) BY <1>1, CgiWebKeepsEntries
<1>2. CASE Cgi!WebCloses BY <1>2 DEF Cgi!WebCloses
<1>3. CASE Cgi!ReadRecord BY <1>3, CgiReadKeepsEntries
<1>4. CASE Cgi!SetEvent
  <2>1. /\ conn.req \in Reqs /\ cgi[conn.req] \in Cgi!RequestStates /\ cgi[conn.req] # None
        /\ cgi' = [cgi EXCEPT ![conn.req].signaled = TRUE] /\ DOMAIN cgi = Reqs
        /\ UNCHANGED <<web, wire, requests>> /\ conn.pc # "done"
    BY <1>4 DEF Cgi!SetEvent, CgiTypes
  <2>2. /\ \A q \in Reqs \ {conn.req} : cgi'[q] = cgi[q]
        /\ cgi'[conn.req].id = cgi[conn.req].id /\ cgi'[conn.req].pc = cgi[conn.req].pc
        /\ cgi'[conn.req].early = cgi[conn.req].early
    BY <2>1 DEF Cgi!RequestStates
  <2>3. QED BY <2>1, <2>2
<1>5. CASE Cgi!EndConnection BY <1>5 DEF Cgi!EndConnection, CgiTypes, Cgi!TypeOK
<1>6. CASE \E r \in Reqs : Cgi!Request(r) BY <1>6, CgiRequestKeepsEntries
<1>7. QED BY <1>1, <1>2, <1>3, <1>4, <1>5, <1>6 DEF Cgi!Next, Cgi!Connection

-----------------------------------------------------------------------------
(* FastCGI: the invariant of the whole.                                    *)

CgiInv == CgiTypes /\ CgiWaking /\ CgiEntries

LEMMA CgiInitially == Cgi!Init => CgiInv
<1> SUFFICES ASSUME Cgi!Init PROVE CgiInv
    OBVIOUS
<1> USE DEF Cgi!Init
<1>1. CgiTypes
  <2>1. wire \in Seq(Records) BY DEF Records
  <2>2. web \in [Ids -> [phase : {"idle", "begun", "input", "eof", "aborted"}, input : 0..MaxInput]]
    BY CgiAssumption
  <2>3. QED BY <2>1, <2>2, CgiAssumption DEF CgiTypes, Cgi!TypeOK, Cgi!Created, Records
<1>2. CgiWaking BY DEF CgiWaking, Cgi!Created
<1>3. CgiEntries
  BY DEF CgiEntries, CgiLiveIsKnown, CgiBeginIsNew, CgiLiveIsAlone, CgiEraserWasSeen,
         Cgi!EntryLostOnlyByReuse, CgiLive, Cgi!Created
<1>4. QED BY <1>1, <1>2, <1>3 DEF CgiInv

(* The variables of a component that is not at work stay.                  *)
LEMMA CgiPreserved == CgiInv /\ [Next]_vars => CgiInv'
<1> SUFFICES ASSUME CgiInv, [Next]_vars PROVE CgiInv'
    OBVIOUS
<1>1. Cgi!Next \/ UNCHANGED cgiVars
  BY DEF Next, CgiStep, RpcStep, EventStep, LooperStep, StrStep, NetStep, LinkStep, vars
<1>2. CASE Cgi!Next
  BY <1>2, CgiStepKeepsTypes, CgiStepKeepsWaking, CgiStepKeepsEntries DEF CgiInv
<1>3. CASE UNCHANGED cgiVars
  BY <1>3 DEF cgiVars, CgiInv, CgiTypes, Cgi!TypeOK, CgiWaking, CgiWakes, CgiEntries,
     CgiLiveIsKnown, CgiBeginIsNew, CgiLiveIsAlone, CgiEraserWasSeen,
     Cgi!EntryLostOnlyByReuse, CgiLive, Cgi!Created
<1>4. QED BY <1>1, <1>2, <1>3

(* The inductive invariant of a FastCGI connection holds for any ids,      *)
(* requests and bounds.                                                    *)
THEOREM CgiInvariant == Spec => []CgiInv
<1>1. Init => CgiInv BY CgiInitially DEF Init
<1>2. QED BY <1>1, CgiPreserved, PTL DEF Spec

(* InputWakesReader: a request that waits in underflow() while there is    *)
(* input, or its end, is woken or about to be.                             *)
THEOREM InputTheorem == Spec => []InputWakesReader
<1>1. CgiInv => InputWakesReader
  BY DEF CgiInv, CgiWaking, CgiWakes, InputWakesReader, Cgi!InputWakesReader
<1>2. QED BY <1>1, CgiInvariant, PTL

(* EntryLostOnlyByReuse: a request that has not ended is found by its id,  *)
(* unless the one that had the id before erases the entry late.            *)
THEOREM EntryTheorem == Spec => []EntryLostOnlyByReuse
<1>1. CgiInv => EntryLostOnlyByReuse BY DEF CgiInv, CgiEntries, EntryLostOnlyByReuse
<1>2. QED BY <1>1, CgiInvariant, PTL

-----------------------------------------------------------------------------
(* JsonRpc: the list of its cache.                                         *)

(* A list without its element at i.                                        *)
LEMMA RemoveAtProperties ==
  ASSUME NEW S, NEW list \in Seq(S), NEW i \in 1..Len(list)
  PROVE  /\ Rpc!RemoveAt(list, i) \in Seq(S)
         /\ Len(Rpc!RemoveAt(list, i)) = Len(list) - 1
         /\ \A j \in 1..(Len(list) - 1) :
               Rpc!RemoveAt(list, i)[j] = IF j < i THEN list[j] ELSE list[j + 1]
<1> DEFINE before == SubSeq(list, 1, i - 1)
           after == SubSeq(list, i + 1, Len(list))
<1>1. /\ before \in Seq(S) /\ Len(before) = i - 1
      /\ \A j \in 1..(i - 1) : before[j] = list[j]
  <2>1. \A j \in 1..(i - 1) : list[j] \in S OBVIOUS
  <2>2. QED BY <2>1, SubSeqProperties, 1 \in Int, i - 1 \in Int
<1>2. /\ after \in Seq(S) /\ Len(after) = Len(list) - i
      /\ \A j \in 1..(Len(list) - i) : after[j] = list[i + j]
  <2>1. \A j \in (i + 1)..Len(list) : list[j] \in S OBVIOUS
  <2>2. QED BY <2>1, SubSeqProperties, i + 1 \in Int, Len(list) \in Int
<1>3. Rpc!RemoveAt(list, i) = before \o after BY DEF Rpc!RemoveAt
<1> HIDE DEF before, after
<1>4. /\ before \o after \in Seq(S) /\ Len(before \o after) = Len(before) + Len(after)
      /\ \A j \in 1..(Len(before) + Len(after)) :
            (before \o after)[j] = IF j <= Len(before) THEN before[j] ELSE after[j - Len(before)]
      BY <1>1, <1>2, ConcatProperties
<1>5. QED
  <2>1. ASSUME NEW j \in 1..(Len(list) - 1)
        PROVE  (before \o after)[j] = IF j < i THEN list[j] ELSE list[j + 1]
    <3>1. CASE j < i BY <3>1, <1>1, <1>2, <1>4
    <3>2. CASE j >= i
      <4>1. j - (i - 1) \in 1..(Len(list) - i) BY <3>2
      <4>2. after[j - (i - 1)] = list[i + (j - (i - 1))] BY <4>1, <1>2
      <4>3. QED BY <3>2, <4>2, <1>1, <1>2, <1>4
    <3>3. j \in Int /\ i \in Int OBVIOUS
    <3>4. j < i \/ j >= i BY <3>3
    <3>5. QED BY <3>1, <3>2, <3>4
  <2>2. QED BY <2>1, <1>1, <1>2, <1>3, <1>4

(* An element at the front of a list.                                      *)
LEMMA PushFrontProperties ==
  ASSUME NEW S, NEW list \in Seq(S), NEW k \in S
  PROVE  /\ <<k>> \o list \in Seq(S)
         /\ Len(<<k>> \o list) = Len(list) + 1
         /\ \A j \in 1..(Len(list) + 1) : (<<k>> \o list)[j] = IF j = 1 THEN k ELSE list[j - 1]
<1>1. <<k>> \in Seq(S) /\ Len(<<k>>) = 1 /\ <<k>>[1] = k OBVIOUS
<1>2. QED BY <1>1, ConcatProperties

(* What leaves a list that has no key twice is no longer there.            *)
LEMMA RemoveAtRange ==
  ASSUME NEW S, NEW list \in Seq(S), NEW i \in 1..Len(list), Rpc!IsInjective(list)
  PROVE  /\ Rpc!IsInjective(Rpc!RemoveAt(list, i))
         /\ Rpc!Range(Rpc!RemoveAt(list, i)) = Rpc!Range(list) \ {list[i]}
<1> DEFINE less == Rpc!RemoveAt(list, i)
<1>1. /\ DOMAIN list = 1..Len(list) /\ Len(list) \in Nat
      /\ less \in Seq(S) /\ Len(less) = Len(list) - 1 /\ DOMAIN less = 1..(Len(list) - 1)
      /\ \A j \in 1..(Len(list) - 1) : less[j] = IF j < i THEN list[j] ELSE list[j + 1]
      BY RemoveAtProperties
<1>2. \A a, b \in 1..Len(list) : list[a] = list[b] => a = b BY <1>1 DEF Rpc!IsInjective
<1> HIDE DEF less
<1>3. Rpc!IsInjective(less)
  <2>1. ASSUME NEW a \in 1..(Len(list) - 1), NEW b \in 1..(Len(list) - 1), less[a] = less[b]
        PROVE  a = b
    <3>1. a + 1 \in 1..Len(list) /\ b + 1 \in 1..Len(list) /\ a \in 1..Len(list)
          /\ b \in 1..Len(list)
          BY <1>1
    <3>2. QED BY <2>1, <3>1, <1>1, <1>2
  <2>2. QED BY <2>1, <1>1 DEF Rpc!IsInjective
<1>4. ASSUME NEW x \in Rpc!Range(less) PROVE x \in Rpc!Range(list) \ {list[i]}
  <2>1. PICK j \in 1..(Len(list) - 1) : less[j] = x BY <1>1, <1>4 DEF Rpc!Range
  <2>2. j \in 1..Len(list) /\ j + 1 \in 1..Len(list) BY <1>1
  <2>3. QED BY <2>1, <2>2, <1>1, <1>2 DEF Rpc!Range
<1>5. ASSUME NEW x \in Rpc!Range(list), x # list[i] PROVE x \in Rpc!Range(less)
  <2>1. PICK j \in 1..Len(list) : list[j] = x BY <1>1, <1>5 DEF Rpc!Range
  <2>2. CASE j < i
    <3>1. j \in 1..(Len(list) - 1) /\ less[j] = x BY <2>1, <2>2, <1>1
    <3>2. QED BY <3>1, <1>1 DEF Rpc!Range
  <2>3. CASE j > i
    <3>1. j - 1 \in 1..(Len(list) - 1) /\ (j - 1) + 1 = j /\ ~(j - 1 < i) BY <2>3, <1>1
    <3>2. less[j - 1] = x BY <2>1, <3>1, <1>1
    <3>3. QED BY <3>1, <3>2, <1>1 DEF Rpc!Range
  <2>4. QED BY <2>1, <2>2, <2>3, <1>5, <1>1
<1>6. QED BY <1>3, <1>4, <1>5 DEF less

(* An element at the front of a list that does not have it.                *)
LEMMA PushFrontRange ==
  ASSUME NEW S, NEW list \in Seq(S), NEW k \in S
  PROVE  /\ Rpc!Range(<<k>> \o list) = Rpc!Range(list) \cup {k}
         /\ Rpc!IsInjective(list) /\ k \notin Rpc!Range(list) => Rpc!IsInjective(<<k>> \o list)
<1> DEFINE more == <<k>> \o list
<1>1. /\ DOMAIN list = 1..Len(list) /\ Len(list) \in Nat
      /\ more \in Seq(S) /\ Len(more) = Len(list) + 1 /\ DOMAIN more = 1..(Len(list) + 1)
      /\ \A j \in 1..(Len(list) + 1) : more[j] = IF j = 1 THEN k ELSE list[j - 1]
      BY PushFrontProperties
<1> HIDE DEF more
<1>2. ASSUME NEW x \in Rpc!Range(more) PROVE x \in Rpc!Range(list) \cup {k}
  <2>1. PICK j \in 1..(Len(list) + 1) : more[j] = x BY <1>1, <1>2 DEF Rpc!Range
  <2>2. j # 1 => j - 1 \in 1..Len(list) BY <1>1
  <2>3. QED BY <2>1, <2>2, <1>1 DEF Rpc!Range
<1>3. ASSUME NEW x \in Rpc!Range(list) PROVE x \in Rpc!Range(more)
  <2>1. PICK j \in 1..Len(list) : list[j] = x BY <1>1, <1>3 DEF Rpc!Range
  <2>2. j + 1 \in 1..(Len(list) + 1) /\ j + 1 # 1 /\ (j + 1) - 1 = j BY <1>1
  <2>3. more[j + 1] = x BY <2>1, <2>2, <1>1
  <2>4. QED BY <2>2, <2>3, <1>1 DEF Rpc!Range
<1>4. k \in Rpc!Range(more)
  <2>1. 1 \in DOMAIN more /\ more[1] = k BY <1>1
  <2>2. QED BY <2>1 DEF Rpc!Range
<1>5. ASSUME Rpc!IsInjective(list), k \notin Rpc!Range(list) PROVE Rpc!IsInjective(more)
  <2>1. ASSUME NEW a \in 1..(Len(list) + 1), NEW b \in 1..(Len(list) + 1), more[a] = more[b]
        PROVE  a = b
    <3>1. \A j \in 1..(Len(list) + 1) : j # 1 => j - 1 \in 1..Len(list) BY <1>1
    <3>2. \A j \in 1..Len(list) : list[j] # k BY <1>1, <1>5 DEF Rpc!Range
    <3>3. \A x, y \in 1..Len(list) : list[x] = list[y] => x = y BY <1>1, <1>5 DEF Rpc!IsInjective
    <3>4. CASE a = 1 \/ b = 1 BY <3>4, <2>1, <3>1, <3>2, <1>1
    <3>5. CASE a # 1 /\ b # 1
      <4>1. a - 1 = b - 1 BY <3>5, <2>1, <3>1, <3>3, <1>1
      <4>2. QED BY <4>1
    <3>6. QED BY <3>4, <3>5
  <2>2. QED BY <2>1, <1>1 DEF Rpc!IsInjective
<1>6. QED BY <1>2, <1>3, <1>4, <1>5 DEF more

(* A list that has no key twice is as long as its keys are many.           *)
LEMMA RangeSize ==
  ASSUME NEW S, NEW list \in Seq(S), Rpc!IsInjective(list)
  PROVE  Rpc!Cardinality(Rpc!Range(list)) = Len(list)
<1>1. list \in Bijection(1..Len(list), Rpc!Range(list))
  <2>1. DOMAIN list = 1..Len(list) /\ list \in [1..Len(list) -> Rpc!Range(list)]
        BY DEF Rpc!Range
  <2>2. \A a, b \in 1..Len(list) : list[a] = list[b] => a = b BY <2>1 DEF Rpc!IsInjective
  <2>3. \A x \in Rpc!Range(list) : \E i \in 1..Len(list) : list[i] = x BY <2>1 DEF Rpc!Range
  <2>4. QED BY <2>1, <2>2, <2>3 DEF Bijection, Injection, Surjection, IsInjective
<1>2. ExistsBijection(1..Len(list), Rpc!Range(list)) BY <1>1 DEF ExistsBijection
<1>3. IsFiniteSet(1..Len(list)) /\ Cardinality(1..Len(list)) = Len(list)
      BY FS_Interval, 1 \in Int, Len(list) \in Nat
<1>4. Cardinality(Rpc!Range(list)) = Len(list) BY <1>2, <1>3, FS_Bijection
<1>5. QED BY <1>4 DEF Rpc!Cardinality, Cardinality

(* The node of a key is the only one.                                      *)
LEMMA UnlinkedIs ==
  ASSUME NEW S, NEW list \in Seq(S), Rpc!IsInjective(list), NEW i \in 1..Len(list)
  PROVE  Rpc!Unlinked(list, list[i]) = Rpc!RemoveAt(list, i)
<1>1. DOMAIN list = 1..Len(list) OBVIOUS
<1>2. \A j \in DOMAIN list : list[j] = list[i] => j = i BY <1>1 DEF Rpc!IsInjective
<1>3. (CHOOSE j \in DOMAIN list : list[j] = list[i]) = i BY <1>1, <1>2
<1>4. QED BY <1>3 DEF Rpc!Unlinked

(* A key that is moved to the front and unlinked leaves the rest in order. *)
LEMMA UnlinkedAfterUp ==
  ASSUME NEW S, NEW list \in Seq(S), Rpc!IsInjective(list), NEW i \in 1..Len(list)
  PROVE  Rpc!Unlinked(<<list[i]>> \o Rpc!Unlinked(list, list[i]), list[i]) = Rpc!RemoveAt(list, i)
<1> DEFINE less == Rpc!RemoveAt(list, i)
           up == <<list[i]>> \o less
<1>1. /\ less \in Seq(S) /\ Len(less) = Len(list) - 1
      /\ Rpc!IsInjective(less) /\ list[i] \notin Rpc!Range(less) /\ list[i] \in S
      BY RemoveAtProperties, RemoveAtRange
<1> HIDE DEF less
<1>2. /\ up \in Seq(S) /\ Len(up) = Len(less) + 1 /\ Rpc!IsInjective(up)
      /\ \A j \in 1..(Len(less) + 1) : up[j] = IF j = 1 THEN list[i] ELSE less[j - 1]
      BY <1>1, PushFrontProperties, PushFrontRange
<1> HIDE DEF up
<1>3. 1 \in 1..Len(up) /\ up[1] = list[i] BY <1>1, <1>2
<1>4. Rpc!Unlinked(up, up[1]) = Rpc!RemoveAt(up, 1) BY <1>2, <1>3, UnlinkedIs
<1>5. /\ Rpc!RemoveAt(up, 1) \in Seq(S) /\ Len(Rpc!RemoveAt(up, 1)) = Len(up) - 1
      /\ \A j \in 1..(Len(up) - 1) : Rpc!RemoveAt(up, 1)[j] = IF j < 1 THEN up[j] ELSE up[j + 1]
      BY <1>2, <1>3, RemoveAtProperties
<1>6. Rpc!RemoveAt(up, 1) = less
  <2>1. ASSUME NEW j \in 1..Len(less) PROVE Rpc!RemoveAt(up, 1)[j] = less[j]
    <3>1. j \in 1..(Len(up) - 1) /\ ~(j < 1) /\ j + 1 \in 1..(Len(less) + 1) /\ j + 1 # 1
          /\ (j + 1) - 1 = j
          BY <1>1, <1>2
    <3>2. QED BY <3>1, <1>2, <1>5
  <2>2. Len(Rpc!RemoveAt(up, 1)) = Len(less) BY <1>1, <1>2, <1>5
  <2>3. QED BY <2>1, <2>2, <1>1, <1>5, SeqEqual
<1>7. QED BY <1>3, <1>4, <1>6, UnlinkedIs DEF less, up

(* A cache by its entries and its list.                                    *)
RpcCache(store, list) == [store |-> store, list |-> list, maxSize |-> MaxSize]

LEMMA RpcCacheExcept ==
  ASSUME NEW store, NEW list, NEW s, NEW l
  PROVE  /\ [RpcCache(store, list) EXCEPT !.store = s] = RpcCache(s, list)
         /\ [RpcCache(store, list) EXCEPT !.list = l] = RpcCache(store, l)
         /\ RpcCache(store, list).store = store /\ RpcCache(store, list).list = list
         /\ RpcCache(store, list).maxSize = MaxSize
<1>1. [RpcCache(store, list) EXCEPT !.store = s] = RpcCache(s, list) BY DEF RpcCache
<1>2. [RpcCache(store, list) EXCEPT !.list = l] = RpcCache(store, l) BY DEF RpcCache
<1>3. QED BY <1>1, <1>2 DEF RpcCache

(* Finding an element and erasing it.                                      *)
LEMMA RpcFindAndErase ==
  ASSUME NEW store, NEW list \in Seq(Rpc!RequestIds), Rpc!IsInjective(list), NEW i \in 1..Len(list),
         list[i] \in DOMAIN store
  PROVE  Rpc!LruErase(Rpc!LruFind(RpcCache(store, list), list[i]), list[i]) =
         RpcCache([j \in DOMAIN store \ {list[i]} |-> store[j]], Rpc!RemoveAt(list, i))
<1> DEFINE up == <<list[i]>> \o Rpc!Unlinked(list, list[i])
<1>1. Rpc!Unlinked(up, list[i]) = Rpc!RemoveAt(list, i) BY UnlinkedAfterUp
<1>2. Rpc!UpItem(RpcCache(store, list), list[i]) = RpcCache(store, up)
  <2>1. RpcCache(store, list).list = list BY RpcCacheExcept
  <2>2. \A l : [RpcCache(store, list) EXCEPT !.list = l] = RpcCache(store, l) BY RpcCacheExcept
  <2>3. [RpcCache(store, list) EXCEPT !.list = up] = RpcCache(store, up) BY <2>2
  <2>4. QED BY <2>1, <2>3 DEF Rpc!UpItem
<1>3. Rpc!LruFind(RpcCache(store, list), list[i]) = RpcCache(store, up)
      BY <1>2 DEF Rpc!LruFind, Rpc!LruHas, RpcCache
<1> HIDE DEF up
<1>4. Rpc!LruErase(RpcCache(store, up), list[i]) =
      RpcCache([j \in DOMAIN store \ {list[i]} |-> store[j]], Rpc!Unlinked(up, list[i]))
  <2> DEFINE l == Rpc!Unlinked(up, list[i])
             s == [j \in DOMAIN store \ {list[i]} |-> store[j]]
  <2>1. RpcCache(store, up).list = up /\ RpcCache(store, l).store = store BY RpcCacheExcept
  <2>2. [RpcCache(store, up) EXCEPT !.list = l] = RpcCache(store, l) BY RpcCacheExcept
  <2>3. [RpcCache(store, l) EXCEPT !.store = s] = RpcCache(s, l) BY RpcCacheExcept
  <2>4. QED BY <2>1, <2>2, <2>3 DEF Rpc!LruErase
<1>5. QED BY <1>1, <1>3, <1>4

(* The list of a cache of which the last is dropped when it is full.       *)
RpcRest(list) == IF Len(list) = MaxSize - 1 THEN Rpc!RemoveAt(list, Len(list)) ELSE list

(* Inserting a key that is not there.                                      *)
LEMMA RpcInsert ==
  ASSUME NEW store, NEW list \in Seq(Rpc!RequestIds), Rpc!IsInjective(list),
         DOMAIN store = Rpc!Range(list),
         Len(list) <= MaxSize - 1, NEW k \in Rpc!RequestIds, k \notin Rpc!Range(list), NEW v
  PROVE  \E after :
            /\ Rpc!PInsert(RpcCache(store, list), k, v) = RpcCache(after, <<k>> \o RpcRest(list))
            /\ DOMAIN after = Rpc!Range(<<k>> \o RpcRest(list))
<1> DEFINE c == RpcCache(store, list)
           grown == [j \in DOMAIN store \cup {k} |-> IF j = k THEN v ELSE store[j]]
           last == list[Len(list)]
           less == [j \in DOMAIN grown \ {last} |-> grown[j]]
           rest == RpcRest(list)
           full == Len(list) = MaxSize - 1
           room == IF full THEN Rpc!LruErase(Rpc!LruFind(RpcCache(grown, list), last), last)
                           ELSE RpcCache(grown, list)
<1>1. DOMAIN grown = Rpc!Range(list) \cup {k} OBVIOUS
<1>2. Rpc!Cardinality(DOMAIN grown) = Len(list) + 1
  <2>1. /\ <<k>> \o list \in Seq(Rpc!RequestIds) /\ Len(<<k>> \o list) = Len(list) + 1
        /\ Rpc!IsInjective(<<k>> \o list) /\ Rpc!Range(<<k>> \o list) = Rpc!Range(list) \cup {k}
        BY PushFrontProperties, PushFrontRange
  <2>2. QED BY <2>1, <1>1, RangeSize
<1>3. Rpc!Cardinality(DOMAIN grown) >= MaxSize <=> full BY <1>2, RpcAssumption
<1>4. Rpc!PInsert(c, k, v) = [room EXCEPT !.list = <<k>> \o @]
  <2>1. c.store = store /\ c.list = list /\ c.maxSize = MaxSize BY RpcCacheExcept
  <2>2. \A s : [c EXCEPT !.store = s] = RpcCache(s, list) /\ RpcCache(s, list).store = s
        BY RpcCacheExcept
  <2>3. ~Rpc!LruHas(c, k) BY <2>1 DEF Rpc!LruHas
  <2> DEFINE g == [c EXCEPT !.store = [j \in DOMAIN @ \cup {k} |-> IF j = k THEN v ELSE @[j]]]
  <2> HIDE DEF c
  <2>4. g = RpcCache(grown, list) /\ g.store = grown
    <3>1. [j \in DOMAIN c.store \cup {k} |-> IF j = k THEN v ELSE c.store[j]] = grown BY <2>1
    <3> HIDE DEF grown
    <3>2. g = [c EXCEPT !.store = grown] BY <3>1
    <3>3. QED BY <3>2, <2>2
  <2>5. Rpc!PInsert(c, k, v) =
        [(IF Rpc!Cardinality(DOMAIN g.store) >= c.maxSize
          THEN Rpc!LruErase(Rpc!LruFind(g, Rpc!Last(c.list)), Rpc!Last(c.list))
          ELSE g) EXCEPT !.list = <<k>> \o @]
        BY <2>3 DEF Rpc!PInsert
  <2>6. Rpc!Last(c.list) = last BY <2>1 DEF Rpc!Last
  <2> HIDE DEF g, grown, last
  <2>7. QED BY <2>1, <2>4, <2>5, <2>6, <1>3
<1>5. \A s, l : [RpcCache(s, l) EXCEPT !.list = <<k>> \o @] = RpcCache(s, <<k>> \o l)
  <2>1. \A s, l : RpcCache(s, l).list = l BY RpcCacheExcept
  <2>2. \A s, l, m : [RpcCache(s, l) EXCEPT !.list = m] = RpcCache(s, m) BY RpcCacheExcept
  <2> HIDE DEF RpcCache
  <2>3. QED BY <2>1, <2>2, ZenonT(40)
<1>6. CASE full
  <2>1. Len(list) \in 1..Len(list) BY <1>6, RpcAssumption
  <2>2. last \in Rpc!Range(list) /\ last # k BY <2>1 DEF Rpc!Range
  <2>3. last \in DOMAIN grown BY <2>2, <1>1
  <2> HIDE DEF grown
  <2>4. room = RpcCache(less, rest) BY <2>1, <2>3, <1>6, RpcFindAndErase DEF RpcRest
  <2>5. rest \in Seq(Rpc!RequestIds) /\ Rpc!Range(rest) = Rpc!Range(list) \ {last}
        BY <2>1, <1>6, RemoveAtProperties, RemoveAtRange DEF RpcRest
  <2>6. DOMAIN less = Rpc!Range(rest) \cup {k} BY <2>2, <2>5, <1>1
  <2>7. Rpc!Range(<<k>> \o rest) = Rpc!Range(rest) \cup {k} BY <2>5, PushFrontRange
  <2> HIDE DEF less, rest, room
  <2>8. Rpc!PInsert(c, k, v) = RpcCache(less, <<k>> \o rest) BY <2>4, <1>4, <1>5
  <2>9. QED BY <2>6, <2>7, <2>8 DEF rest
<1>7. CASE ~full
  <2>1. rest = list /\ room = RpcCache(grown, list) BY <1>7 DEF RpcRest
  <2>2. DOMAIN grown = Rpc!Range(<<k>> \o list) BY <1>1, PushFrontRange
  <2> HIDE DEF grown, rest, room
  <2>3. Rpc!PInsert(c, k, v) = RpcCache(grown, <<k>> \o list) BY <2>1, <1>4, <1>5
  <2>4. QED BY <2>1, <2>2, <2>3 DEF rest
<1>8. QED BY <1>6, <1>7

-----------------------------------------------------------------------------
(* JsonRpc: the requests in flight, the oldest first.                      *)

LEMMA ReverseProperties ==
  ASSUME NEW S, NEW list \in Seq(S)
  PROVE  /\ Rpc!Reverse(list) \in Seq(S) /\ Len(Rpc!Reverse(list)) = Len(list)
         /\ \A j \in 1..Len(list) : Rpc!Reverse(list)[j] = list[Len(list) - j + 1]
<1>1. \A j \in 1..Len(list) : Len(list) - j + 1 \in 1..Len(list) OBVIOUS
<1>2. \A j \in 1..Len(list) : list[Len(list) - j + 1] \in S BY <1>1
<1> DEFINE e(j) == list[(Len(list) - j) + 1]
<1>3. Rpc!Reverse(list) = [j \in 1..Len(list) |-> e(j)] BY DEF Rpc!Reverse
<1>4. \A j \in 1..Len(list) : e(j) \in S BY <1>2
<1> HIDE DEF e
<1>5. [j \in 1..Len(list) |-> e(j)] \in Seq(S) BY <1>4, IsASeq, Len(list) \in Nat
<1>6. Len([j \in 1..Len(list) |-> e(j)]) = Len(list) BY <1>5, LenProperties
<1>7. QED BY <1>3, <1>5, <1>6 DEF e

(* The elements are the same.                                              *)
LEMMA ReverseRange ==
  ASSUME NEW S, NEW list \in Seq(S)
  PROVE  Rpc!Table!Range(Rpc!Reverse(list)) = Rpc!Range(list)
<1> DEFINE back == Rpc!Reverse(list)
<1>1. /\ DOMAIN list = 1..Len(list) /\ DOMAIN back = 1..Len(list)
      /\ \A j \in 1..Len(list) : back[j] = list[Len(list) - j + 1]
      BY ReverseProperties
<1>2. \A j \in 1..Len(list) : /\ Len(list) - j + 1 \in 1..Len(list)
                             /\ Len(list) - (Len(list) - j + 1) + 1 = j
      OBVIOUS
<1> HIDE DEF back
<1>3. ASSUME NEW j \in 1..Len(list) PROVE \E i \in 1..Len(list) : back[i] = list[j]
      BY <1>1, <1>2
<1>4. Rpc!Table!Range(back) \subseteq Rpc!Range(list)
      BY <1>1, <1>2 DEF Rpc!Range, Rpc!Table!Range
<1>5. ASSUME NEW x \in Rpc!Range(list) PROVE x \in Rpc!Table!Range(back)
  <2>1. PICK j \in 1..Len(list) : list[j] = x BY <1>1, <1>5 DEF Rpc!Range
  <2>2. PICK i \in 1..Len(list) : back[i] = list[j] BY <1>3
  <2>3. QED BY <2>1, <2>2, <1>1 DEF Rpc!Table!Range
<1>6. QED BY <1>4, <1>5 DEF back

(* The front of the list is the end of the requests in flight.             *)
LEMMA ReversePushFront ==
  ASSUME NEW S, NEW list \in Seq(S), NEW k \in S
  PROVE  Rpc!Reverse(<<k>> \o list) = Append(Rpc!Reverse(list), k)
<1> DEFINE more == <<k>> \o list
           back == Rpc!Reverse(list)
<1>1. /\ more \in Seq(S) /\ Len(more) = Len(list) + 1
      /\ \A j \in 1..(Len(list) + 1) : more[j] = IF j = 1 THEN k ELSE list[j - 1]
      BY PushFrontProperties
<1>2. /\ back \in Seq(S) /\ Len(back) = Len(list)
      /\ \A j \in 1..Len(list) : back[j] = list[Len(list) - j + 1]
      BY ReverseProperties
<1> HIDE DEF more, back
<1>3. /\ Rpc!Reverse(more) \in Seq(S) /\ Len(Rpc!Reverse(more)) = Len(list) + 1
      /\ \A j \in 1..(Len(list) + 1) : Rpc!Reverse(more)[j] = more[(Len(list) + 1) - j + 1]
      BY <1>1, ReverseProperties
<1>4. /\ Append(back, k) \in Seq(S) /\ Len(Append(back, k)) = Len(list) + 1
      /\ \A j \in 1..Len(list) : Append(back, k)[j] = back[j]
      /\ Append(back, k)[Len(list) + 1] = k
      BY <1>2, AppendProperties
<1>5. ASSUME NEW j \in 1..(Len(list) + 1) PROVE Rpc!Reverse(more)[j] = Append(back, k)[j]
  <2> DEFINE i == (Len(list) + 1) - j + 1
  <2>1. i \in 1..(Len(list) + 1) /\ (i = 1 <=> j = Len(list) + 1) OBVIOUS
  <2>2. CASE i = 1 BY <2>1, <2>2, <1>1, <1>3, <1>4
  <2>3. CASE i # 1
    <3>1. j \in 1..Len(list) /\ i - 1 = Len(list) - j + 1 BY <2>1, <2>3
    <3>2. QED BY <3>1, <2>1, <2>3, <1>1, <1>2, <1>3, <1>4, ZenonT(40)
  <2>4. QED BY <2>2, <2>3
<1>6. QED BY <1>3, <1>4, <1>5, SeqEqual DEF more, back

(* A place of the list, seen from the other end.                           *)
LEMMA ReverseRemoveAt ==
  ASSUME NEW S, NEW list \in Seq(S), NEW i \in 1..Len(list)
  PROVE  Rpc!Reverse(Rpc!RemoveAt(list, i)) = Rpc!Table!RemoveAt(Rpc!Reverse(list), Len(list) - i + 1)
<1> DEFINE n == Len(list)
           less == Rpc!RemoveAt(list, i)
           back == Rpc!Reverse(list)
           h == n - i + 1
<1>1. /\ less \in Seq(S) /\ Len(less) = n - 1
      /\ \A j \in 1..(n - 1) : less[j] = IF j < i THEN list[j] ELSE list[j + 1]
      BY RemoveAtProperties
<1>2. /\ back \in Seq(S) /\ Len(back) = n
      /\ \A j \in 1..n : back[j] = list[n - j + 1]
      BY ReverseProperties
<1>3. h \in 1..n /\ n \in Nat /\ i \in 1..n OBVIOUS
<1> HIDE DEF less, back
<1>4. /\ Rpc!Reverse(less) \in Seq(S) /\ Len(Rpc!Reverse(less)) = n - 1
      /\ \A j \in 1..(n - 1) : Rpc!Reverse(less)[j] = less[(n - 1) - j + 1]
  <2>1. /\ Rpc!Reverse(less) \in Seq(S) /\ Len(Rpc!Reverse(less)) = Len(less)
        /\ \A j \in 1..Len(less) : Rpc!Reverse(less)[j] = less[Len(less) - j + 1]
        BY <1>1, ReverseProperties
  <2>2. QED BY <2>1, <1>1
<1>5. /\ Rpc!RemoveAt(back, h) \in Seq(S) /\ Len(Rpc!RemoveAt(back, h)) = n - 1
      /\ \A j \in 1..(n - 1) : Rpc!RemoveAt(back, h)[j] = IF j < h THEN back[j] ELSE back[j + 1]
  <2>1. h \in 1..Len(back) BY <1>2, <1>3
  <2> HIDE DEF h
  <2>2. /\ Rpc!RemoveAt(back, h) \in Seq(S) /\ Len(Rpc!RemoveAt(back, h)) = Len(back) - 1
        /\ \A j \in 1..(Len(back) - 1) :
              Rpc!RemoveAt(back, h)[j] = IF j < h THEN back[j] ELSE back[j + 1]
        BY <2>1, <1>2, RemoveAtProperties
  <2>3. QED BY <2>2, <1>2
<1>6. ASSUME NEW j \in 1..(n - 1) PROVE Rpc!Reverse(less)[j] = Rpc!RemoveAt(back, h)[j]
  <2> DEFINE m == (n - 1) - j + 1
  <2>1. /\ m \in 1..(n - 1) /\ j \in 1..n /\ j + 1 \in 1..n /\ j \in Int
        /\ n - j + 1 = m + 1 /\ n - (j + 1) + 1 = m
        /\ (m < i <=> ~(j < h))
        BY <1>3
  <2>2. less[m] = IF j < h THEN list[n - j + 1] ELSE list[n - (j + 1) + 1] BY <2>1, <1>1
  <2>3. Rpc!RemoveAt(back, h)[j] = IF j < h THEN list[n - j + 1] ELSE list[n - (j + 1) + 1]
        BY <2>1, <1>2, <1>5
  <2>4. QED BY <2>2, <2>3, <1>4
<1>7. Rpc!Reverse(less) = Rpc!RemoveAt(back, h) BY <1>4, <1>5, <1>6, <1>3, SeqEqual
<1>8. QED BY <1>7 DEF Rpc!RemoveAt, Rpc!Table!RemoveAt, less, back

(* The least recent of the list is the first in flight.                    *)
LEMMA ReverseRemoveLast ==
  ASSUME NEW S, NEW list \in Seq(S), list # <<>>
  PROVE  Rpc!Reverse(Rpc!RemoveAt(list, Len(list))) = Tail(Rpc!Reverse(list))
<1> DEFINE back == Rpc!Reverse(list)
<1>1. Len(list) \in 1..Len(list) /\ Len(list) \in Nat BY EmptySeq
<1>2. back \in Seq(S) /\ Len(back) = Len(list) BY ReverseProperties
<1>3. Rpc!Reverse(Rpc!RemoveAt(list, Len(list))) = Rpc!RemoveAt(back, 1)
  <2>1. Len(list) - Len(list) + 1 = 1 BY <1>1
  <2>2. Rpc!Reverse(Rpc!RemoveAt(list, Len(list))) = Rpc!Table!RemoveAt(back, 1)
        BY <2>1, <1>1, ReverseRemoveAt
  <2>3. QED BY <2>2 DEF Rpc!RemoveAt, Rpc!Table!RemoveAt
<1> HIDE DEF back
<1>4. /\ Rpc!RemoveAt(back, 1) \in Seq(S) /\ Len(Rpc!RemoveAt(back, 1)) = Len(back) - 1
      /\ \A j \in 1..(Len(back) - 1) : Rpc!RemoveAt(back, 1)[j] =
              IF j < 1 THEN back[j] ELSE back[j + 1]
      BY <1>1, <1>2, RemoveAtProperties
<1>5. back # <<>> BY <1>1, <1>2
<1>6. /\ Tail(back) \in Seq(S) /\ Len(Tail(back)) = Len(back) - 1
      /\ \A j \in 1..(Len(back) - 1) : Tail(back)[j] = back[j + 1]
      BY <1>2, <1>5, HeadTailProperties
<1>7. \A j \in 1..(Len(back) - 1) : Rpc!RemoveAt(back, 1)[j] = Tail(back)[j]
      BY <1>4, <1>6, <1>2
<1>8. QED BY <1>3, <1>4, <1>6, <1>7, SeqEqual DEF back

-----------------------------------------------------------------------------
(* JsonRpc: the ids that are given out are asked once each, so the table   *)
(* never has an id before it is asked, nor one that was matched.           *)

RpcTable ==
    /\ reqs = RpcCache(reqs.store, reqs.list)
    /\ Len(reqs.list) <= MaxSize - 1

RpcKnown ==
    /\ \A id \in Rpc!Range(reqs.list) \cup matched : id <= nextId
    /\ Rpc!Range(reqs.list) \cap matched = {}

RpcPrepared ==
    /\ \A c \in Clients : client[c].pc = "prepare" =>
          /\ client[c].id \in Rpc!RequestIds /\ client[c].id <= nextId
          /\ client[c].id \notin Rpc!Range(reqs.list) \cup matched
    /\ \A c, d \in Clients :
          client[c].pc = "prepare" /\ client[d].pc = "prepare" /\ client[c].id = client[d].id =>
              c = d

RpcInv == Rpc!TypeOK /\ RpcTable /\ RpcKnown /\ RpcPrepared

(* The table as Table sees it.                                             *)
RpcInFlight == Rpc!Reverse(reqs.list)

LEMMA RpcInitInv ==
  ASSUME Rpc!Init
  PROVE  RpcInv /\ RpcInFlight = <<>> /\ matched = {}
<1>1. reqs = RpcCache(<<>>, <<>>) BY DEF Rpc!Init, Rpc!EmptyLru, RpcCache
<1>2. reqs.list = <<>> /\ reqs.store = <<>> BY <1>1, RpcCacheExcept
<1>3. reqs.list \in Seq(Rpc!RequestIds) /\ Len(reqs.list) = 0 BY <1>2
<1>4. /\ Rpc!Range(reqs.list) = {} /\ DOMAIN reqs.store = {} /\ Rpc!IsInjective(reqs.list)
  <2>1. DOMAIN reqs.list = {} /\ DOMAIN reqs.store = {} BY <1>2
  <2>2. QED BY <2>1 DEF Rpc!Range, Rpc!IsInjective
<1>5. Rpc!TypeOK
  <2>1. nextId \in 1..(MaxRequests + 1) BY RpcAssumption DEF Rpc!Init
  <2>2. client \in [Clients -> [pc : {"idle", "prepare", "write", "await"}, call : BOOLEAN,
                                id : Rpc!Messages]]
        BY DEF Rpc!Init, Rpc!Messages
  <2>3. toServer \in [Clients -> Seq(Rpc!Messages)] /\ toClient \in [Clients -> Seq(Rpc!Messages)]
        BY DEF Rpc!Init
  <2>4. matched \subseteq Rpc!RequestIds BY DEF Rpc!Init
  <2>5. QED BY <2>1, <2>2, <2>3, <2>4, <1>3, <1>4 DEF Rpc!TypeOK
<1>6. RpcTable BY <1>1, <1>2, <1>3, RpcAssumption DEF RpcTable
<1>7. matched = {} BY DEF Rpc!Init
<1>8. RpcKnown BY <1>4, <1>7 DEF RpcKnown
<1>9. RpcPrepared BY DEF RpcPrepared, Rpc!Init
<1>10. RpcInFlight = <<>>
  <2>1. /\ Rpc!Reverse(reqs.list) \in Seq(Rpc!RequestIds) /\ Len(Rpc!Reverse(reqs.list)) = 0
        BY <1>3, ReverseProperties
  <2>2. QED BY <2>1, EmptySeq DEF RpcInFlight
<1>11. QED BY <1>5, <1>6, <1>7, <1>8, <1>9, <1>10 DEF RpcInv

(* A step that asks or matches nothing.                                    *)
LEMMA RpcOutsidePreserves ==
  ASSUME RpcInv, Rpc!TypeOK', UNCHANGED <<nextId, reqs, matched>>,
         \A c \in Clients : client'[c].pc = "prepare" => client'[c] = client[c]
  PROVE  RpcInv' /\ RpcInFlight' = RpcInFlight
BY DEF RpcInv, RpcTable, RpcKnown, RpcPrepared, RpcInFlight

(* A new id is larger than all that were given out.                        *)
LEMMA RpcTakeIdPreserves ==
  ASSUME RpcInv, NEW c \in Clients, NEW isCall \in BOOLEAN, Rpc!TakeId(c, isCall)
  PROVE  RpcInv' /\ UNCHANGED <<RpcInFlight, matched>>
<1>1. /\ nextId \in 1..(MaxRequests + 1) /\ nextId <= MaxRequests /\ nextId' = nextId + 1
      /\ nextId' \in Rpc!RequestIds /\ UNCHANGED <<reqs, toServer, toClient, matched>>
      BY RpcAssumption DEF RpcInv, Rpc!TypeOK, Rpc!TakeId, Rpc!RequestIds
<1>2. /\ client' \in [Clients -> [pc : {"idle", "prepare", "write", "await"}, call : BOOLEAN,
                                  id : Rpc!Messages]]
      /\ client'[c].id = nextId + 1
      /\ \A d \in Clients : d # c => client'[d] = client[d]
      BY <1>1, ZenonT(40) DEF RpcInv, Rpc!TypeOK, Rpc!TakeId, Rpc!Messages
<1>3. Rpc!TypeOK'
  <2>1. nextId' \in 1..(MaxRequests + 1) BY <1>1, RpcAssumption
  <2>2. QED BY <2>1, <1>1, <1>2 DEF RpcInv, Rpc!TypeOK
<1>4. Rpc!Range(reqs.list) \cup matched \subseteq Rpc!RequestIds
      BY DEF RpcInv, Rpc!TypeOK, Rpc!Range
<1>5. \A id \in Rpc!RequestIds : id <= nextId => id <= nextId + 1 /\ id # nextId + 1
      BY <1>1 DEF Rpc!RequestIds
<1>6. RpcKnown' BY <1>1, <1>4, <1>5 DEF RpcInv, RpcKnown
<1>7. RpcPrepared'
  <2>1. \A d \in Clients : client[d].pc = "prepare" =>
           client[d].id \in Rpc!RequestIds /\ client[d].id <= nextId /\ client[d].id # nextId'
        BY <1>1, <1>5 DEF RpcInv, RpcPrepared
  <2>2. nextId' \notin Rpc!Range(reqs.list) \cup matched
        BY <1>1, <1>4, <1>5 DEF RpcInv, RpcKnown
  <2>3. ASSUME NEW d \in Clients, client'[d].pc = "prepare"
        PROVE  /\ client'[d].id \in Rpc!RequestIds /\ client'[d].id <= nextId'
               /\ client'[d].id \notin Rpc!Range(reqs'.list) \cup matched'
    <3>1. CASE d = c
      <4>1. client'[d].id = nextId' /\ nextId' <= nextId' BY <3>1, <1>1, <1>2
      <4>2. QED BY <4>1, <2>2, <1>1
    <3>2. CASE d # c BY <3>2, <2>1, <2>3, <1>1, <1>2, <1>5 DEF RpcInv, RpcPrepared
    <3>3. QED BY <3>1, <3>2
  <2>4. ASSUME NEW d \in Clients, NEW e \in Clients, client'[d].pc = "prepare",
               client'[e].pc = "prepare", client'[d].id = client'[e].id
        PROVE  d = e
    <3>1. CASE d # c /\ e # c BY <3>1, <2>4, <1>2 DEF RpcInv, RpcPrepared
    <3>2. CASE d = c \/ e = c BY <3>2, <2>4, <2>1, <1>1, <1>2
    <3>3. QED BY <3>1, <3>2
  <2>5. QED BY <2>3, <2>4 DEF RpcPrepared
<1>8. QED BY <1>1, <1>3, <1>6, <1>7 DEF RpcInv, RpcTable, RpcInFlight

(* An id that was prepared comes to the table.                             *)
LEMMA RpcInsertPreserves ==
  ASSUME RpcInv, NEW c \in Clients, Rpc!InsertRequest(c)
  PROVE  RpcInv' /\ Rpc!Table!Ask(client[c].id) /\ client[c].id \in Rpc!RequestIds
<1> DEFINE k == client[c].id
           list == reqs.list
           rest == RpcRest(list)
<1>1. /\ k \in Rpc!RequestIds /\ k <= nextId /\ k \notin Rpc!Range(list) \cup matched
      /\ list \in Seq(Rpc!RequestIds) /\ Rpc!IsInjective(list) /\ DOMAIN reqs.store = Rpc!Range(list)
      /\ reqs = RpcCache(reqs.store, list) /\ Len(list) <= MaxSize - 1
      /\ UNCHANGED <<nextId, toServer, toClient, matched>>
      /\ reqs' = Rpc!PInsert(reqs, k, c)
      BY DEF RpcInv, Rpc!TypeOK, RpcTable, RpcPrepared, Rpc!InsertRequest
<1> HIDE DEF k, list
<1>2. PICK after : /\ reqs' = RpcCache(after, <<k>> \o rest)
                   /\ DOMAIN after = Rpc!Range(<<k>> \o rest)
  <2>1. \E after : /\ Rpc!PInsert(RpcCache(reqs.store, list), k, c) = RpcCache(after, <<k>> \o RpcRest(list))
                   /\ DOMAIN after = Rpc!Range(<<k>> \o RpcRest(list))
        BY <1>1, RpcInsert
  <2>2. QED BY <2>1, <1>1
<1>3. /\ rest \in Seq(Rpc!RequestIds) /\ Rpc!IsInjective(rest) /\ Len(rest) + 1 <= MaxSize - 1
      /\ Rpc!Range(rest) \subseteq Rpc!Range(list)
  <2>1. CASE Len(list) = MaxSize - 1
    <3>1. Len(list) \in 1..Len(list) BY <2>1, RpcAssumption
    <3>2. QED BY <3>1, <2>1, <1>1, RemoveAtProperties, RemoveAtRange, RpcAssumption DEF RpcRest
  <2>2. CASE Len(list) # MaxSize - 1 BY <2>2, <1>1, RpcAssumption DEF RpcRest
  <2>3. QED BY <2>1, <2>2
<1>4. /\ <<k>> \o rest \in Seq(Rpc!RequestIds) /\ Len(<<k>> \o rest) = Len(rest) + 1
      /\ Rpc!Range(<<k>> \o rest) = Rpc!Range(rest) \cup {k} /\ Rpc!IsInjective(<<k>> \o rest)
      BY <1>1, <1>3, PushFrontProperties, PushFrontRange
<1>5. reqs'.list = <<k>> \o rest /\ reqs'.store = after BY <1>2, RpcCacheExcept
<1>6. /\ client' \in [Clients -> [pc : {"idle", "prepare", "write", "await"}, call : BOOLEAN,
                                  id : Rpc!Messages]]
      /\ client'[c].pc = "write" /\ client[c].pc = "prepare"
      /\ \A d \in Clients : d # c => client'[d] = client[d]
      BY DEF RpcInv, Rpc!TypeOK, Rpc!InsertRequest
<1>7. Rpc!TypeOK' BY <1>1, <1>2, <1>4, <1>5, <1>6 DEF RpcInv, Rpc!TypeOK
<1>8. RpcTable' BY <1>2, <1>3, <1>4, <1>5 DEF RpcTable
<1>9. RpcKnown' BY <1>1, <1>3, <1>4, <1>5 DEF RpcInv, RpcKnown, list
<1>10. RpcPrepared'
  <2>1. \A d \in Clients : client'[d].pc = "prepare" =>
           d # c /\ client[d].pc = "prepare" /\ client'[d] = client[d]
        BY <1>6
  <2>2. \A d \in Clients : client'[d].pc = "prepare" => client[d].id # k
        BY <2>1, <1>6 DEF RpcInv, RpcPrepared, k
  <2>3. Rpc!Range(reqs'.list) \cup matched' \subseteq Rpc!Range(list) \cup matched \cup {k}
        BY <1>1, <1>3, <1>4, <1>5
  <2>4. ASSUME NEW d \in Clients, client'[d].pc = "prepare"
        PROVE  /\ client'[d].id \in Rpc!RequestIds /\ client'[d].id <= nextId'
               /\ client'[d].id \notin Rpc!Range(reqs'.list) \cup matched'
    <3>1. /\ client[d].id \in Rpc!RequestIds /\ client[d].id <= nextId
          /\ client[d].id \notin Rpc!Range(list) \cup matched /\ client'[d] = client[d]
          BY <2>1, <2>4 DEF RpcInv, RpcPrepared, list
    <3>2. QED BY <3>1, <2>2, <2>3, <2>4, <1>1
  <2>5. \A d, e \in Clients :
          client'[d].pc = "prepare" /\ client'[e].pc = "prepare"
              /\ client'[d].id = client'[e].id => d = e
        BY <2>1 DEF RpcInv, RpcPrepared
  <2>6. QED BY <2>4, <2>5 DEF RpcPrepared
<1>11. RpcInFlight' = Append(IF Len(RpcInFlight) = MaxSize - 1 THEN Tail(RpcInFlight) ELSE RpcInFlight, k)
  <2>1. RpcInFlight' = Append(Rpc!Reverse(rest), k)
        BY <1>1, <1>3, <1>5, ReversePushFront DEF RpcInFlight
  <2>2. Len(RpcInFlight) = Len(list) BY <1>1, ReverseProperties DEF RpcInFlight, list
  <2>3. CASE Len(list) = MaxSize - 1
    <3>1. list # <<>> BY <2>3, RpcAssumption
    <3>2. Rpc!Reverse(rest) = Tail(Rpc!Reverse(list))
          BY <3>1, <2>3, <1>1, ReverseRemoveLast DEF RpcRest
    <3>3. QED BY <3>2, <2>1, <2>2, <2>3 DEF RpcInFlight, list
  <2>4. CASE Len(list) # MaxSize - 1 BY <2>1, <2>2, <2>4 DEF RpcInFlight, list, RpcRest
  <2>5. QED BY <2>3, <2>4
<1>12. k \notin Rpc!Table!Range(RpcInFlight) \cup matched
       BY <1>1, ReverseRange DEF RpcInFlight, list
<1>13. Rpc!Table!Ask(k) BY <1>1, <1>11, <1>12 DEF Rpc!Table!Ask, RpcInFlight
<1>14. QED BY <1>1, <1>7, <1>8, <1>9, <1>10, <1>13 DEF RpcInv, k

(* An answer is matched to the request with its id, if it is in flight.    *)
LEMMA RpcReadAnswerPreserves ==
  ASSUME RpcInv, NEW c \in Clients, Rpc!ReadAnswer(c)
  PROVE  /\ RpcInv'
         /\ \/ UNCHANGED <<RpcInFlight, matched>>
            \/ \E id \in Rpc!RequestIds : Rpc!Table!Match(id)
<1> DEFINE id == Head(toClient[c])
           list == reqs.list
<1>1. /\ list \in Seq(Rpc!RequestIds) /\ Rpc!IsInjective(list) /\ DOMAIN reqs.store = Rpc!Range(list)
      /\ reqs = RpcCache(reqs.store, list) /\ Len(list) <= MaxSize - 1
      /\ UNCHANGED <<nextId, toServer>>
      BY DEF RpcInv, Rpc!TypeOK, RpcTable, Rpc!ReadAnswer
<1>2. /\ client' \in [Clients -> [pc : {"idle", "prepare", "write", "await"}, call : BOOLEAN,
                                  id : Rpc!Messages]]
      /\ client'[c].pc = "idle"
      /\ \A d \in Clients : d # c => client'[d] = client[d]
      BY DEF RpcInv, Rpc!TypeOK, Rpc!ReadAnswer
<1>3. toClient' \in [Clients -> Seq(Rpc!Messages)]
  <2>1. Tail(toClient[c]) \in Seq(Rpc!Messages)
        BY HeadTailProperties DEF RpcInv, Rpc!TypeOK, Rpc!ReadAnswer
  <2>2. QED BY <2>1 DEF RpcInv, Rpc!TypeOK, Rpc!ReadAnswer
<1>4. \A d \in Clients : client'[d].pc = "prepare" => client'[d] = client[d] BY <1>2
<1>5. CASE id # None /\ Rpc!LruHas(reqs, id)
  <2>1. PICK i \in 1..Len(list) : list[i] = id BY <1>1, <1>5 DEF Rpc!LruHas, Rpc!Range
  <2> DEFINE less == Rpc!RemoveAt(list, i)
             store == [j \in DOMAIN reqs.store \ {list[i]} |-> reqs.store[j]]
  <2>2. /\ reqs' = Rpc!LruErase(Rpc!LruFind(reqs, id), id) /\ matched' = matched \cup {id}
        BY <1>5 DEF Rpc!ReadAnswer, Rpc!Response
  <2>3. /\ less \in Seq(Rpc!RequestIds) /\ Len(less) = Len(list) - 1 /\ Rpc!IsInjective(less)
        /\ Rpc!Range(less) = Rpc!Range(list) \ {id} /\ id \in Rpc!Range(list) /\ id \in Rpc!RequestIds
    <3>1. id \in Rpc!Range(list) /\ id \in Rpc!RequestIds BY <2>1, <1>1 DEF Rpc!Range
    <3> HIDE DEF id, list
    <3>2. /\ less \in Seq(Rpc!RequestIds) /\ Len(less) = Len(list) - 1 /\ Rpc!IsInjective(less)
          /\ Rpc!Range(less) = Rpc!Range(list) \ {list[i]}
          BY <1>1, RemoveAtProperties, RemoveAtRange
    <3>3. QED BY <3>1, <3>2, <2>1
  <2>4. reqs' = RpcCache(store, less)
    <3>1. list[i] \in DOMAIN reqs.store BY <2>1, <2>3, <1>1
    <3>2. Rpc!LruErase(Rpc!LruFind(RpcCache(reqs.store, list), list[i]), list[i]) = RpcCache(store, less)
          BY <3>1, <1>1, RpcFindAndErase
    <3> HIDE DEF store, less, id
    <3>3. QED BY <3>2, <2>1, <2>2, <1>1
  <2>5. DOMAIN store = Rpc!Range(less) BY <2>1, <2>3, <1>1
  <2> HIDE DEF store, less, id, list
  <2>6. reqs'.list = less /\ reqs'.store = store BY <2>4, RpcCacheExcept
  <2>7. Rpc!TypeOK' BY <1>1, <1>2, <1>3, <2>2, <2>3, <2>5, <2>6 DEF RpcInv, Rpc!TypeOK
  <2>8. RpcTable' BY <1>1, <2>3, <2>4, <2>6, RpcAssumption DEF RpcTable
  <2>9. RpcKnown' BY <1>1, <2>2, <2>3, <2>6 DEF RpcInv, RpcKnown, list
  <2>10. RpcPrepared'
    <3>1. Rpc!Range(reqs'.list) \cup matched' = Rpc!Range(list) \cup matched BY <2>2, <2>3, <2>6
    <3>2. QED BY <3>1, <1>1, <1>4 DEF RpcInv, RpcPrepared, list
  <2>11. Rpc!Table!Match(id)
    <3> DEFINE h == Len(list) - i + 1
    <3>1. RpcInFlight' = Rpc!Table!RemoveAt(RpcInFlight, h)
          BY <2>1, <2>6, <1>1, ReverseRemoveAt DEF RpcInFlight, less, list
    <3>2. /\ h \in 1..Len(list) /\ Len(list) - h + 1 = i /\ Len(list) \in Nat BY <2>1, <1>1
    <3>3. h \in DOMAIN RpcInFlight /\ RpcInFlight[h] = id
      <4>1. /\ RpcInFlight \in Seq(Rpc!RequestIds) /\ Len(RpcInFlight) = Len(list)
            /\ \A j \in 1..Len(list) : RpcInFlight[j] = list[Len(list) - j + 1]
            BY <1>1, ReverseProperties DEF RpcInFlight, list
      <4>2. QED BY <4>1, <3>2, <2>1
    <3> HIDE DEF h
    <3>4. QED BY <3>1, <3>3, <2>2 DEF Rpc!Table!Match, RpcInFlight
  <2>12. QED BY <2>3, <2>7, <2>8, <2>9, <2>10, <2>11 DEF RpcInv
<1>6. CASE ~(id # None /\ Rpc!LruHas(reqs, id))
  <2>1. UNCHANGED <<reqs, matched>> BY <1>6 DEF Rpc!ReadAnswer, Rpc!Response
  <2>2. Rpc!TypeOK' BY <2>1, <1>1, <1>2, <1>3 DEF RpcInv, Rpc!TypeOK
  <2>3. QED BY <2>1, <2>2, <1>1, <1>4, RpcOutsidePreserves
<1>7. QED BY <1>5, <1>6

(* The streams and the servers.                                            *)
LEMMA RpcStreamsPreserve ==
  ASSUME RpcInv, NEW c \in Clients,
         Rpc!WriteRequest(c) \/ Rpc!Notification(c) \/ Rpc!Answer(c) \/ Rpc!AnswerOtherwise(c)
  PROVE  RpcInv' /\ UNCHANGED <<RpcInFlight, matched>>
<1> DEFINE Streams == [Clients -> Seq(Rpc!Messages)]
<1>1. /\ toServer \in Streams /\ toClient \in Streams /\ toServer[c] \in Seq(Rpc!Messages)
      /\ toClient[c] \in Seq(Rpc!Messages) /\ client[c].id \in Rpc!Messages /\ None \in Rpc!Messages
      /\ client \in [Clients -> [pc : {"idle", "prepare", "write", "await"}, call : BOOLEAN,
                                 id : Rpc!Messages]]
      BY DEF RpcInv, Rpc!TypeOK, Rpc!Messages
<1>2. \A m \in Rpc!Messages : /\ Append(toServer[c], m) \in Seq(Rpc!Messages)
                             /\ Append(toClient[c], m) \in Seq(Rpc!Messages)
      BY <1>1, AppendProperties
<1>3. /\ UNCHANGED <<nextId, reqs, matched>>
      /\ client' \in [Clients -> [pc : {"idle", "prepare", "write", "await"}, call : BOOLEAN,
                                  id : Rpc!Messages]]
      /\ toServer' \in Streams /\ toClient' \in Streams
      /\ \A d \in Clients : client'[d].pc = "prepare" => client'[d] = client[d]
  <2>1. CASE Rpc!WriteRequest(c) BY <2>1, <1>1, <1>2 DEF Rpc!WriteRequest
  <2>2. CASE Rpc!Notification(c) BY <2>2, <1>1, <1>2 DEF Rpc!Notification
  <2>3. CASE Rpc!Answer(c)
    <3>1. Head(toServer[c]) \in Rpc!Messages /\ Tail(toServer[c]) \in Seq(Rpc!Messages)
          BY <2>3, <1>1, HeadTailProperties DEF Rpc!Answer
    <3>2. QED BY <3>1, <2>3, <1>1, <1>2 DEF Rpc!Answer
  <2>4. CASE Rpc!AnswerOtherwise(c)
    <3>1. PICK k \in DOMAIN toServer[c] :
            \/ toServer' = [toServer EXCEPT ![c] = Rpc!RemoveAt(@, k)] /\ UNCHANGED toClient
            \/ /\ toClient' = [toClient EXCEPT ![c] = Append(@, toServer[c][k])]
               /\ toServer' \in {toServer, [toServer EXCEPT ![c] = Rpc!RemoveAt(@, k)]}
          BY <2>4 DEF Rpc!AnswerOtherwise
    <3>2. k \in 1..Len(toServer[c]) /\ toServer[c][k] \in Rpc!Messages BY <1>1
    <3>3. Rpc!RemoveAt(toServer[c], k) \in Seq(Rpc!Messages) BY <3>2, <1>1, RemoveAtProperties
    <3>4. UNCHANGED <<nextId, reqs, client, matched>> BY <2>4 DEF Rpc!AnswerOtherwise
    <3>5. QED BY <3>1, <3>2, <3>3, <3>4, <1>1, <1>2
  <2>5. QED BY <2>1, <2>2, <2>3, <2>4
<1>4. Rpc!TypeOK' BY <1>3 DEF RpcInv, Rpc!TypeOK
<1>5. QED BY <1>3, <1>4, RpcOutsidePreserves

(* Every step is one of the table, or none.                                *)
LEMMA RpcStepPreserves ==
  ASSUME RpcInv, Rpc!Next
  PROVE  RpcInv' /\ [Rpc!Table!Next]_(Rpc!Table!vars)
<1>1. PICK c \in Clients : Rpc!Client(c) \/ Rpc!Answer(c) \/ Rpc!AnswerOtherwise(c) BY DEF Rpc!Next
<1>2. ASSUME RpcInv', UNCHANGED <<RpcInFlight, matched>>
      PROVE  RpcInv' /\ [Rpc!Table!Next]_(Rpc!Table!vars)
      BY <1>2 DEF Rpc!Table!vars, RpcInFlight
<1>3. ASSUME NEW isCall \in BOOLEAN, Rpc!TakeId(c, isCall)
      PROVE  RpcInv' /\ [Rpc!Table!Next]_(Rpc!Table!vars)
      BY <1>2, <1>3, RpcTakeIdPreserves
<1>4. ASSUME Rpc!InsertRequest(c)
      PROVE  RpcInv' /\ [Rpc!Table!Next]_(Rpc!Table!vars)
      BY <1>4, RpcInsertPreserves DEF Rpc!Table!Next
<1>5. ASSUME Rpc!ReadAnswer(c)
      PROVE  RpcInv' /\ [Rpc!Table!Next]_(Rpc!Table!vars)
      BY <1>2, <1>5, RpcReadAnswerPreserves DEF Rpc!Table!Next
<1>6. ASSUME Rpc!WriteRequest(c) \/ Rpc!Notification(c) \/ Rpc!Answer(c) \/ Rpc!AnswerOtherwise(c)
      PROVE  RpcInv' /\ [Rpc!Table!Next]_(Rpc!Table!vars)
      BY <1>2, <1>6, RpcStreamsPreserve
<1>7. QED BY <1>1, <1>3, <1>4, <1>5, <1>6 DEF Rpc!Client

LEMMA RpcInitially == Init => RpcInv /\ Rpc!Table!Init
<1> SUFFICES ASSUME Init PROVE RpcInv /\ Rpc!Table!Init
    OBVIOUS
<1>1. RpcInv /\ RpcInFlight = <<>> /\ matched = {} BY RpcInitInv DEF Init
<1>2. QED BY <1>1 DEF Rpc!Table!Init, RpcInFlight

LEMMA RpcPreserved == RpcInv /\ [Next]_vars => RpcInv' /\ [Rpc!Table!Next]_(Rpc!Table!vars)
<1> SUFFICES ASSUME RpcInv, [Next]_vars PROVE RpcInv' /\ [Rpc!Table!Next]_(Rpc!Table!vars)
    OBVIOUS
<1>1. CASE RpcStep(Rpc!Next) BY <1>1, RpcStepPreserves DEF RpcStep
<1>2. CASE UNCHANGED rpcVars
  <2>1. UNCHANGED <<nextId, reqs, client, toServer, toClient, matched>> BY <1>2 DEF rpcVars
  <2>2. Rpc!TypeOK' BY <2>1 DEF RpcInv, Rpc!TypeOK
  <2>3. RpcInv' /\ RpcInFlight' = RpcInFlight BY <2>1, <2>2, RpcOutsidePreserves
  <2>4. QED BY <2>1, <2>3 DEF Rpc!Table!vars, RpcInFlight
<1>3. QED
      BY <1>1, <1>2
      DEF Next, CgiStep, EventStep, LooperStep, StrStep, NetStep, LinkStep, vars

(* JsonRpc keeps the promise of RequestTable: an answer is matched at most *)
(* once, to the request with its id, and misses it only when as many later *)
(* requests were asked as the table holds.                                 *)
THEOREM RequestTableTheorem == Spec => ImplementsRequestTable
<1>1. QED
      BY RpcInitially, RpcPreserved, PTL
      DEF Spec, ImplementsRequestTable, Rpc!ImplementsRequestTable, Rpc!Table!Spec
=============================================================================
