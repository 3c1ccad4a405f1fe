-------------------------------- MODULE Event --------------------------------
(* What an event promises (EventWaitHandle of libext/ext-os.h): a waiting   *)
(* thread goes on when the event is signaled; an event that is not manual   *)
(* lets one thread go on for it; only a call with a timeout returns         *)
(* without.                                                                 *)
CONSTANT Threads

VARIABLES
    manual,      \* kind of the event, fixed
    signaled,
    waits        \* per thread: does not wait, waits, waits with a timeout

vars == <<manual, signaled, waits>>

Init ==
    /\ manual \in BOOLEAN
    /\ signaled \in BOOLEAN
    /\ waits = [t \in Threads |-> "no"]

Set == signaled' = TRUE /\ UNCHANGED <<manual, waits>>

Reset == signaled' = FALSE /\ UNCHANGED <<manual, waits>>

Wait(t) ==
    /\ waits[t] = "no"
    /\ \E how \in {"ever", "timed"} : waits' = [waits EXCEPT ![t] = how]
    /\ UNCHANGED <<manual, signaled>>

Pass(t) ==
    /\ waits[t] # "no"
    /\ signaled
    /\ signaled' = manual
    /\ waits' = [waits EXCEPT ![t] = "no"]
    /\ UNCHANGED manual

GiveUp(t) ==
    /\ waits[t] = "timed"
    /\ waits' = [waits EXCEPT ![t] = "no"]
    /\ UNCHANGED <<manual, signaled>>

Next == Set \/ Reset \/ \E t \in Threads : Wait(t) \/ Pass(t) \/ GiveUp(t)

(* An event that stays signaled is not slept through: every waiter passes a *)
(* manual one, some waiter the other.                                       *)
Fairness ==
    /\ \A t \in Threads : WF_vars(manual /\ Pass(t))
    /\ WF_vars(\E t \in Threads : Pass(t))

Spec == Init /\ [][Next]_vars /\ Fairness
=============================================================================
