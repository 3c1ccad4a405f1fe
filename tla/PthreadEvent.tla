---------------------------- MODULE PthreadEvent ----------------------------
(***************************************************************************)
(* CEvent on POSIX threads (libext/ext-os.cpp): a flag, a mutex and a      *)
(* condition variable.  Threads call Set(), Reset() and lock(), with a     *)
(* timeout or without, as often as they like.                              *)
(*                                                                         *)
(* A step is a section under m_mutex; pthread_cond_wait() ends one section *)
(* and begins another.  Waiting for the mutex is the wait for the step.    *)
(***************************************************************************)
CONSTANT Threads

VARIABLES
    manual,      \* m_bManual
    signaled,    \* m_bSignaled
    pc,          \* idle, called, blocked on m_cond, woken, timed out
    timed        \* the call has a timeout

vars == <<manual, signaled, pc, timed>>

Init ==
    /\ manual \in BOOLEAN
    /\ signaled \in BOOLEAN
    /\ pc = [t \in Threads |-> "idle"]
    /\ timed = [t \in Threads |-> FALSE]

Blocked == {t \in Threads : pc[t] = "blocked"}

(* pthread_cond_signal: one of the blocked threads, if there is any.       *)
WakeOne ==
    \/ Blocked = {} /\ UNCHANGED pc
    \/ \E t \in Blocked : pc' = [pc EXCEPT ![t] = "woken"]

(* Mutant of WakeAll: a manual event wakes one thread, too.                *)
WakeAllOne == WakeOne

WakeAll == pc' = [t \in Threads |-> IF pc[t] = "blocked" THEN "woken" ELSE pc[t]]

Set ==
    /\ signaled' = TRUE
    /\ IF manual THEN WakeAll ELSE WakeOne
    /\ UNCHANGED <<manual, timed>>

Reset == signaled' = FALSE /\ UNCHANGED <<manual, pc, timed>>

Call(t) ==
    /\ pc[t] = "idle"
    /\ pc' = [pc EXCEPT ![t] = "called"]
    /\ \E b \in BOOLEAN : timed' = [timed EXCEPT ![t] = b]
    /\ UNCHANGED <<manual, signaled>>

(* The head of the loop: pass, or block on the condition.                  *)
TestSignaled(t) ==
    /\ pc[t] \in {"called", "woken"}
    /\ pc' = [pc EXCEPT ![t] = IF signaled THEN "idle" ELSE "blocked"]
    /\ timed' = [timed EXCEPT ![t] = @ /\ ~signaled]
    /\ signaled' = (signaled /\ manual)
    /\ UNCHANGED manual

(* A condition variable may wake a thread without cause.                   *)
WakeSpuriously(t) ==
    /\ pc[t] = "blocked"
    /\ pc' = [pc EXCEPT ![t] = "woken"]
    /\ UNCHANGED <<manual, signaled, timed>>

TimeOut(t) ==
    /\ pc[t] = "blocked" /\ timed[t]
    /\ pc' = [pc EXCEPT ![t] = "timedOut"]
    /\ UNCHANGED <<manual, signaled, timed>>

(* ETIMEDOUT: false is returned without a look at the flag.                *)
ReturnFalse(t) ==
    /\ pc[t] = "timedOut"
    /\ pc' = [pc EXCEPT ![t] = "idle"]
    /\ timed' = [timed EXCEPT ![t] = FALSE]
    /\ UNCHANGED <<manual, signaled>>

Lock(t) == Call(t) \/ TestSignaled(t) \/ WakeSpuriously(t) \/ TimeOut(t) \/ ReturnFalse(t)

Next == Set \/ Reset \/ \E t \in Threads : Lock(t)

(* A thread that waits for the mutex only gets it.                         *)
Fairness == \A t \in Threads : WF_vars(TestSignaled(t)) /\ WF_vars(ReturnFalse(t))

Spec == Init /\ [][Next]_vars /\ Fairness

-----------------------------------------------------------------------------
(* Type correctness of the event.                                          *)
TypeOK ==
    /\ manual \in BOOLEAN /\ signaled \in BOOLEAN
    /\ pc \in [Threads -> {"idle", "called", "blocked", "woken", "timedOut"}]
    /\ timed \in [Threads -> BOOLEAN]

(* The emulation keeps the promise of an event, with its liveness: the loop *)
(* in CEvent::lock() and the choice of broadcast or signal in CEvent::Set() *)
(* lose no wake-up, whoever takes the flag or times out in between.        *)
Abstract == INSTANCE Event WITH
    waits <- [t \in Threads |-> IF pc[t] = "idle" THEN "no" ELSE IF timed[t] THEN "timed" ELSE "ever"]
ImplementsEvent == Abstract!Spec
=============================================================================
