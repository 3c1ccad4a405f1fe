----------------------------- MODULE SharedMutex -----------------------------
(***************************************************************************)
(* The readers-writer lock of stl/shared_mutex.cpp, class SharedMutexImp,  *)
(* which shared_mutex uses where the system has no SRW lock.  A writer     *)
(* takes m_mtxWriters and then waits for the manual-reset event            *)
(* m_noReadsEvent; a reader counts itself in m_aActiveReaders under the    *)
(* mutex, but counts itself out without it.                                *)
(***************************************************************************)
EXTENDS Integers, FiniteSets

CONSTANTS
    Threads,   \* the threads that share the lock
    NoOne      \* the owner of a free mutex

ASSUME SharedMutexAssumption ==
    IsFiniteSet(Threads) /\ NoOne \notin Threads

VARIABLES
    mtxWriters,     \* m_mtxWriters: its owner
    noReadsEvent,   \* m_noReadsEvent: "set" or "reset"
    activeReaders,  \* m_aActiveReaders
    pc,             \* where each thread is
    overtaken       \* history: a lock_shared() went between the two steps of
                    \* an unlock_shared(), the decrement to 0 and the Set()

vars == <<mtxWriters, noReadsEvent, activeReaders, pc, overtaken>>

Init ==
    /\ mtxWriters = NoOne
    /\ noReadsEvent = "set"
    /\ activeReaders = 0
    /\ pc = [t \in Threads |-> "idle"]
    /\ overtaken = FALSE

Goto(t, from, to) == pc[t] = from /\ pc' = [pc EXCEPT ![t] = to]

Acquire(t) == mtxWriters = NoOne /\ mtxWriters' = t

-----------------------------------------------------------------------------
(* The writer's side.                                                      *)

\* lock() is called and blocks on the mutex.
Lock(t) ==
    /\ Goto(t, "idle", "lock")
    /\ UNCHANGED <<mtxWriters, noReadsEvent, activeReaders, overtaken>>

LockMutex(t) ==
    /\ Goto(t, "lock", "waitNoReads")
    /\ Acquire(t)
    /\ UNCHANGED <<noReadsEvent, activeReaders, overtaken>>

\* try_lock(): false when the mutex is taken, but it blocks on the event.
TryLock(t) ==
    /\ \/ Goto(t, "idle", "waitNoReads") /\ Acquire(t)
       \/ mtxWriters # NoOne /\ pc[t] = "idle" /\ UNCHANGED <<pc, mtxWriters>>
    /\ UNCHANGED <<noReadsEvent, activeReaders, overtaken>>

WaitNoReads(t) ==
    /\ noReadsEvent = "set"
    /\ Goto(t, "waitNoReads", "writing")
    /\ UNCHANGED <<mtxWriters, noReadsEvent, activeReaders, overtaken>>

Unlock(t) ==
    /\ Goto(t, "writing", "idle")
    /\ mtxWriters' = NoOne
    /\ UNCHANGED <<noReadsEvent, activeReaders, overtaken>>

-----------------------------------------------------------------------------
(* The reader's side.                                                      *)

LockShared(t) ==
    /\ Goto(t, "idle", "lockShared")
    /\ UNCHANGED <<mtxWriters, noReadsEvent, activeReaders, overtaken>>

LockSharedMutex(t) ==
    /\ Goto(t, "lockShared", "countIn")
    /\ Acquire(t)
    /\ UNCHANGED <<noReadsEvent, activeReaders, overtaken>>

TryLockShared(t) ==
    /\ \/ Goto(t, "idle", "countIn") /\ Acquire(t)
       \/ mtxWriters # NoOne /\ pc[t] = "idle" /\ UNCHANGED <<pc, mtxWriters>>
    /\ UNCHANGED <<noReadsEvent, activeReaders, overtaken>>

\* Mutant of CountIn: a reader that finds others inside backs out and asks
\* for the mutex again.
CountInBacksOff(t) ==
    /\ \/ /\ activeReaders = 0
          /\ Goto(t, "countIn", "resetEvent")
          /\ activeReaders' = 1
          /\ UNCHANGED mtxWriters
       \/ /\ activeReaders # 0
          /\ Goto(t, "countIn", "lockShared")
          /\ mtxWriters' = NoOne
          /\ UNCHANGED activeReaders
    /\ overtaken' = (overtaken \/ \E s \in Threads : pc[s] = "setEvent")
    /\ UNCHANGED noReadsEvent

\* ++m_aActiveReaders, and the comparison with 1.
CountIn(t) ==
    /\ Goto(t, "countIn", IF activeReaders = 0 THEN "resetEvent" ELSE "unlockMutex")
    /\ activeReaders' = activeReaders + 1
    /\ overtaken' = (overtaken \/ \E s \in Threads : pc[s] = "setEvent")
    /\ UNCHANGED <<mtxWriters, noReadsEvent>>

\* Mutant of ResetEvent: the first reader does not reset the event.
ResetEventSkips(t) ==
    /\ Goto(t, "resetEvent", "unlockMutex")
    /\ UNCHANGED <<mtxWriters, noReadsEvent, activeReaders, overtaken>>

ResetEvent(t) ==
    /\ Goto(t, "resetEvent", "unlockMutex")
    /\ noReadsEvent' = "reset"
    /\ UNCHANGED <<mtxWriters, activeReaders, overtaken>>

UnlockMutex(t) ==
    /\ Goto(t, "unlockMutex", "reading")
    /\ mtxWriters' = NoOne
    /\ UNCHANGED <<noReadsEvent, activeReaders, overtaken>>

\* Mutants of CountOut: the test for 0 is made before the decrement, and the
\* counter is decremented twice.
CountOutTestsFirst(t) ==
    /\ Goto(t, "reading", IF activeReaders = 0 THEN "setEvent" ELSE "idle")
    /\ activeReaders' = activeReaders - 1
    /\ UNCHANGED <<mtxWriters, noReadsEvent, overtaken>>

CountOutTwice(t) ==
    /\ Goto(t, "reading", IF activeReaders = 1 THEN "setEvent" ELSE "idle")
    /\ activeReaders' = activeReaders - 2
    /\ UNCHANGED <<mtxWriters, noReadsEvent, overtaken>>

\* unlock_shared(): --m_aActiveReaders, and the test for 0.
CountOut(t) ==
    /\ Goto(t, "reading", IF activeReaders = 1 THEN "setEvent" ELSE "idle")
    /\ activeReaders' = activeReaders - 1
    /\ UNCHANGED <<mtxWriters, noReadsEvent, overtaken>>

\* Mutant of SetEvent: the event is set under m_mtxWriters, acquired by
\* spinning on try_lock().
SetEventLocked(t) ==
    /\ \/ mtxWriters = NoOne /\ Goto(t, "setEvent", "idle") /\ noReadsEvent' = "set"
       \/ mtxWriters # NoOne /\ pc[t] = "setEvent" /\ UNCHANGED <<pc, noReadsEvent>>
    /\ UNCHANGED <<mtxWriters, activeReaders, overtaken>>

SetEvent(t) ==
    /\ Goto(t, "setEvent", "idle")
    /\ noReadsEvent' = "set"
    /\ UNCHANGED <<mtxWriters, activeReaders, overtaken>>

-----------------------------------------------------------------------------
Call(t) == Lock(t) \/ TryLock(t) \/ LockShared(t) \/ TryLockShared(t)

Run(t) ==
    \/ LockMutex(t) \/ WaitNoReads(t) \/ Unlock(t)
    \/ LockSharedMutex(t) \/ CountIn(t) \/ ResetEvent(t) \/ UnlockMutex(t)
    \/ CountOut(t) \/ SetEvent(t)

Next == \E t \in Threads : Call(t) \/ Run(t)

Spec == Init /\ [][Next]_vars

\* Threads inside the lock keep running and give up what they hold; the
\* mutex is handed to a thread that keeps asking for it (the system's
\* scheduler), hence the strong fairness of its acquisition.
FairSpec ==
    /\ Spec
    /\ \A t \in Threads : WF_vars(Run(t))
    /\ \A t \in Threads : SF_vars(LockMutex(t)) /\ SF_vars(LockSharedMutex(t))

-----------------------------------------------------------------------------
Readers == {t \in Threads : pc[t] = "reading"}
Writers == {t \in Threads : pc[t] = "writing"}

\* The threads that are counted in m_aActiveReaders.
Counted == {t \in Threads : pc[t] \in {"resetEvent", "unlockMutex", "reading"}}

\* Every variable has its type.
TypeOK ==
    /\ mtxWriters \in Threads \cup {NoOne}
    /\ noReadsEvent \in {"set", "reset"}
    /\ activeReaders \in Nat
    /\ pc \in [Threads -> {"idle", "lock", "waitNoReads", "writing", "lockShared", "countIn",
                           "resetEvent", "unlockMutex", "reading", "setEvent"}]
    /\ overtaken \in BOOLEAN

\* What the class comment promises, "RW-lock": nobody reads while a thread
\* writes, and one thread writes at a time.
ReadersExcludeWriters ==
    /\ Writers # {} => Readers = {}
    /\ \A s, t \in Writers : s = t

\* The exclusion is lost in one way only: a lock_shared() that counts itself
\* in between the decrement to 0 and the Set() of an unlock_shared().
ExclusiveUnlessOvertaken ==
    /\ ~overtaken /\ Writers # {} => Readers = {}
    /\ \A s, t \in Writers : s = t

\* No wake-up is lost: the event is reset only while a reader is counted or
\* the reader that counted itself out last has yet to set it.
NoLostWakeup ==
    noReadsEvent = "reset" =>
        Counted # {} \/ \E t \in Threads : pc[t] = "setEvent"

\* Starvation prevention: a writer that holds the mutex stops new readers
\* and enters once the present ones have left.
WriterEnters ==
    \A t \in Threads : (pc[t] = "waitNoReads") ~> (pc[t] = "writing")

\* Readers are not starved by a stream of writers either.
ReaderEnters ==
    \A t \in Threads : (pc[t] = "lockShared") ~> (pc[t] = "reading")

-----------------------------------------------------------------------------
(* The inductive strengthening of the safety properties.                   *)

Holding == {"waitNoReads", "writing", "countIn", "resetEvent", "unlockMutex"}

\* The mutex is held exactly in the steps between its lock and its unlock.
MutexOwner == \A t \in Threads : pc[t] \in Holding <=> mtxWriters = t

\* The counter is the number of counted readers.
CountIsExact == activeReaders = Cardinality(Counted)

\* As long as no reader has been overtaken, a pending Set() means that there
\* are no readers, a set event that the only one has yet to reset it, and a
\* writer is alone.
EventTellsTruth ==
    ~overtaken =>
        /\ (\E t \in Threads : pc[t] = "setEvent") => Counted = {}
        /\ noReadsEvent = "set" => \A t \in Counted : pc[t] = "resetEvent"
        /\ Writers # {} => Counted = {}

IInv == TypeOK /\ MutexOwner /\ CountIsExact /\ NoLostWakeup /\ EventTellsTruth
=============================================================================
