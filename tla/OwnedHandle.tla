---------------------------- MODULE OwnedHandle ----------------------------
(***************************************************************************)
(* What a SafeHandle promises of the handles it is given, however its      *)
(* threads interleave: calls use one handle at a time, a close that is     *)
(* asked for while calls are in progress is carried out with the last of   *)
(* them, and every handle has one keeper, who closes it once.              *)
(***************************************************************************)
CONSTANTS
    Callers,    \* the threads that make calls
    Handles,
    Nothing     \* no handle

VARIABLES
    place,      \* who keeps each handle
    current,    \* the handle that calls use, or Nothing
    calling,    \* the threads that are in a call
    asked       \* a close of the current handle was asked for

vars == <<place, current, calling, asked>>

Init ==
    /\ place = [h \in Handles |-> "new"]
    /\ current = Nothing
    /\ calling = {}
    /\ asked = FALSE

Moves(h, from, to) == place[h] \in from /\ place' = [place EXCEPT ![h] = to]
Resting == UNCHANGED <<current, calling, asked>>

(* The system opens a handle for a caller, who gives it to the object if   *)
(* that is empty.                                                          *)
Open(h)  == Moves(h, {"new"}, "offered") /\ Resting
Store(h) == (\A k \in Handles : place[k] # "owned") /\ Moves(h, {"offered"}, "owned") /\ Resting

Publish(h) ==
    /\ place[h] = "owned" /\ current = Nothing /\ calling = {}
    /\ current' = h
    /\ UNCHANGED <<place, calling, asked>>

Enter(t) ==
    /\ current # Nothing /\ t \notin calling
    /\ calling' = calling \cup {t}
    /\ UNCHANGED <<place, current, asked>>

(* A close that was asked for is carried out when nobody calls any more.   *)
Leave(t) ==
    /\ t \in calling
    /\ calling' = calling \ {t}
    /\ asked' = (asked /\ calling' # {})
    /\ current' = IF asked /\ calling' = {} THEN Nothing ELSE current
    /\ UNCHANGED place

AskClose ==
    /\ current # Nothing /\ ~asked
    /\ asked' = (calling # {})
    /\ current' = IF calling = {} THEN Nothing ELSE current
    /\ UNCHANGED <<place, calling>>

(* A handle that is out of use is taken out and closed; one that was not   *)
(* accepted is closed or given back.                                       *)
Take(h)   == h # current /\ Moves(h, {"owned"}, "leaving") /\ Resting
Close(h)  == Moves(h, {"leaving", "offered"}, "closed") /\ Resting
Refuse(h) == Moves(h, {"offered"}, "returned") /\ Resting

(* The object is emptied when nobody uses it.                              *)
Empty(h, to) ==
    /\ calling = {}
    /\ Moves(h, {"owned"}, to)
    /\ current' = Nothing
    /\ UNCHANGED <<calling, asked>>

Next ==
    \/ \E h \in Handles :
          \/ Open(h) \/ Store(h) \/ Publish(h)
          \/ Take(h) \/ Close(h) \/ Refuse(h)
          \/ Empty(h, "closed") \/ Empty(h, "returned")
    \/ \E t \in Callers : Enter(t) \/ Leave(t)
    \/ AskClose

Spec == Init /\ [][Next]_vars
=============================================================================
