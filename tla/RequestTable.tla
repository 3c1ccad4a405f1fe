---------------------------- MODULE RequestTable ----------------------------
(***************************************************************************)
(* What JsonRpc promises of the requests in flight, apart from how it keeps *)
(* them: an id is asked once; the answer to it is matched at most once, and *)
(* is not matched only when as many later requests were in flight as the   *)
(* table holds.                                                            *)
(***************************************************************************)
EXTENDS Naturals, SequencesExt

CONSTANTS Requests, Capacity

VARIABLES
    inFlight,    \* the ids that an answer can be matched to, oldest first
    matched      \* the ids whose answer was matched

vars == <<inFlight, matched>>

Init == inFlight = <<>> /\ matched = {}

(* A new id comes in; a full table forgets the oldest.                     *)
Ask(id) ==
    /\ id \notin Range(inFlight) \cup matched
    /\ inFlight' = Append(IF Len(inFlight) = Capacity THEN Tail(inFlight) ELSE inFlight, id)
    /\ UNCHANGED matched

Match(id) ==
    /\ \E i \in DOMAIN inFlight : inFlight[i] = id /\ inFlight' = RemoveAt(inFlight, i)
    /\ matched' = matched \cup {id}

Next == \E id \in Requests : Ask(id) \/ Match(id)

Spec == Init /\ [][Next]_vars
=============================================================================
