----------------------------- MODULE ThreadPool -----------------------------
(***************************************************************************)
(* The thread pool of libext/threader.cpp and libext/ext-thread.h: a queue *)
(* of work items, UCFG_POOL_THREADS pool threads, a semaphore that is only *)
(* released while the queue is short, the cancellation of an item by an    *)
(* APC to the thread that executes it, and the pool's shutdown.            *)
(***************************************************************************)
EXTENDS Integers, Sequences, FiniteSets

CONSTANTS
    Workers,      \* the pool threads; their number is UCFG_POOL_THREADS
    Callers,      \* threads that call QueueUserWorkItem()
    Cancellers,   \* threads that call WorkItem::Cancel()
    Items,        \* work items; each is queued at most once
    None,         \* nullptr
    StartsUp,     \* TRUE: the application created the pool before the threads
    MayShutDown   \* TRUE: the application destroys the pool

PoolThreads == Cardinality(Workers)

ASSUME ThreadPoolAssumption ==
    /\ IsFiniteSet(Workers) /\ PoolThreads > 1
    /\ None \notin Workers \cup Items
    /\ Workers \cap (Callers \cup Cancellers) = {} /\ Callers \cap Cancellers = {}
    /\ StartsUp \in BOOLEAN /\ MayShutDown \in BOOLEAN

VARIABLES
    instance,     \* ThreadPool::I: "null" or "up"
    assertFailed, \* the ASSERT(I == nullptr) of the constructor failed
    queue,        \* m_queue
    sem,          \* the count of m_sem, at most PoolThreads
    evStop,       \* m_evStop
    threwFull,    \* history: a QueueUserWorkItem() threw as m_sem was full
    pc,           \* where each pool thread, caller and canceller is
    job,          \* the item a worker popped, a caller queues, a canceller cancels
    curWi,        \* m_curWi of each pool thread
    wiToCancel,   \* m_wiToCancel of each pool thread
    mStop,        \* pool threads with m_bStop
    apc,          \* pool threads with an APC queued
    executing,    \* WorkItem::ExecutingThread
    itemStop,     \* items with m_bStop
    finished,     \* items with Finished
    told,         \* items whose OnAPC() ran while they executed
    cancelled,    \* items whose Cancel() has returned
    target        \* the ExecutingThread that a canceller read

poolVars   == <<instance, assertFailed, evStop, mStop>>
queueVars  == <<queue, sem, threwFull>>
workVars   == <<curWi, executing, finished>>
cancelVars == <<wiToCancel, apc, itemStop, told, cancelled, target>>
vars == <<poolVars, queueVars, pc, job, workVars, cancelVars>>

Threads == Workers \cup Callers \cup Cancellers

Init ==
    /\ instance = (IF StartsUp THEN "up" ELSE "null")
    /\ assertFailed = FALSE
    /\ queue = <<>> /\ sem = 0 /\ threwFull = FALSE
    /\ evStop = FALSE /\ mStop = {}
    /\ pc = [t \in Threads |-> IF t \in Workers /\ StartsUp THEN "top" ELSE "idle"]
    /\ job = [t \in Threads |-> None]
    /\ curWi = [w \in Workers |-> None]
    /\ wiToCancel = [w \in Workers |-> None]
    /\ executing = [i \in Items |-> None]
    /\ apc = {} /\ itemStop = {} /\ finished = {} /\ told = {} /\ cancelled = {}
    /\ target = [x \in Cancellers |-> None]

Goto(t, from, to) == pc[t] = from /\ pc' = [pc EXCEPT ![t] = to]

-----------------------------------------------------------------------------
(* QueueUserWorkItem().                                                    *)

Submitted(i) == \/ \E c \in Callers : job[c] = i
                \/ \E k \in DOMAIN queue : queue[k] = i
                \/ \E w \in Workers : job[w] = i
                \/ executing[i] # None

\* Ensure(): the test of I, without a lock.
Ensure(c, i) ==
    /\ evStop = FALSE
    /\ ~Submitted(i)
    /\ Goto(c, "idle", IF instance = "null" THEN "construct" ELSE "push")
    /\ job' = [job EXCEPT ![c] = i]
    /\ UNCHANGED <<poolVars, queueVars, workVars, cancelVars>>

\* The constructor: ASSERT(I == nullptr), I = this, start the pool threads.
Construct(c) ==
    /\ pc[c] = "construct"
    /\ assertFailed' = (assertFailed \/ instance # "null")
    /\ instance' = "up"
    /\ pc' = [t \in Threads |-> CASE t = c -> "push"
                                  [] t \in Workers /\ pc[t] = "idle" -> "top"
                                  [] OTHER -> pc[t]]
    /\ UNCHANGED <<evStop, mStop, queueVars, job, workVars, cancelVars>>

\* Mutants: the limit is off by one, and the semaphore has no maximum.
SignalsBelow(n) == n < PoolThreads - 1
ReleasedOver(n) == n + 1

\* Whether a push that leaves n items in the queue releases the semaphore.
Signals(n) == n < PoolThreads

\* CSemaphore::Unlock(): the count stays within the maximum.
Released(n) == IF n < PoolThreads THEN n + 1 ELSE n

\* Under m_cs: push, and release the semaphore while the queue is short.  A
\* full semaphore makes unlock() throw after the item is in the queue.
Push(c) ==
    /\ Goto(c, "push", "idle")
    /\ queue' = Append(queue, job[c])
    /\ job' = [job EXCEPT ![c] = None]
    /\ LET signal == Signals(Len(queue'))
       IN  /\ sem' = IF signal THEN Released(sem) ELSE sem
           /\ threwFull' = (threwFull \/ (signal /\ sem = PoolThreads))
    /\ UNCHANGED <<poolVars, workVars, cancelVars>>

-----------------------------------------------------------------------------
(* PoolThread::Execute().                                                  *)

\* Mutant of CheckStop: m_bStop is not looked at.
CheckStopBlind(w) ==
    /\ Goto(w, "top", "pop")
    /\ UNCHANGED <<poolVars, queueVars, job, workVars, cancelVars>>

CheckStop(w) ==
    /\ Goto(w, "top", IF w \in mStop THEN "exited" ELSE "pop")
    /\ UNCHANGED <<poolVars, queueVars, job, workVars, cancelVars>>

Pop(w) ==
    /\ Goto(w, "pop", IF queue = <<>> THEN "forget" ELSE "take")
    /\ IF queue = <<>>
       THEN UNCHANGED <<queue, job>>
       ELSE queue' = Tail(queue) /\ job' = [job EXCEPT ![w] = Head(queue)]
    /\ UNCHANGED <<poolVars, sem, threwFull, workVars, cancelVars>>

Take(w) ==
    /\ Goto(w, "take", "publish")
    /\ curWi' = [curWi EXCEPT ![w] = job[w]]
    /\ UNCHANGED <<poolVars, queueVars, job, executing, finished, cancelVars>>

Publish(w) ==
    /\ Goto(w, "publish", "testStop")
    /\ executing' = [executing EXCEPT ![job[w]] = w]
    /\ UNCHANGED <<poolVars, queueVars, job, curWi, finished, cancelVars>>

\* Mutant of TestStop: m_bStop of the item is not looked at.
TestStopBlind(w) ==
    /\ Goto(w, "testStop", "execute")
    /\ UNCHANGED <<poolVars, queueVars, job, workVars, cancelVars>>

\* A stopped item is dropped: it is neither executed nor Finished.
TestStop(w) ==
    /\ Goto(w, "testStop", IF job[w] \in itemStop THEN "top" ELSE "execute")
    /\ job' = [job EXCEPT ![w] = IF job[w] \in itemStop THEN None ELSE @]
    /\ UNCHANGED <<poolVars, queueVars, workVars, cancelVars>>

\* Mutant of OnAPC: the current item is told, whichever was to be cancelled.
OnAPCAny(w) ==
    /\ pc[w] = "execute"
    /\ w \in apc
    /\ apc' = apc \ {w}
    /\ told' = told \cup {curWi[w]}
    /\ UNCHANGED <<poolVars, queueVars, pc, job, workVars, wiToCancel, itemStop, cancelled, target>>

\* PoolThread::OnAPC(), delivered while the item waits alertably.
OnAPC(w) ==
    /\ pc[w] = "execute"
    /\ w \in apc
    /\ apc' = apc \ {w}
    /\ told' = IF wiToCancel[w] = curWi[w] THEN told \cup {curWi[w]} ELSE told
    /\ UNCHANGED <<poolVars, queueVars, pc, job, workVars, wiToCancel, itemStop, cancelled, target>>

\* WorkItem::Execute() returns or throws; both end with Finished.
Finish(w) ==
    /\ Goto(w, "execute", "clear")
    /\ finished' = finished \cup {job[w]}
    /\ job' = [job EXCEPT ![w] = None]
    /\ UNCHANGED <<poolVars, queueVars, curWi, executing, cancelVars>>

ClearCurrent(w) ==
    /\ Goto(w, "clear", "top")
    /\ curWi' = [curWi EXCEPT ![w] = None]
    /\ UNCHANGED <<poolVars, queueVars, job, executing, finished, cancelVars>>

Forget(w) ==
    /\ Goto(w, "forget", "wait")
    /\ wiToCancel' = [wiToCancel EXCEPT ![w] = None]
    /\ UNCHANGED <<poolVars, queueVars, job, workVars, apc, itemStop, told, cancelled, target>>

\* Wait(m_evStop, m_sem): the event comes first and takes nothing.
Wait(w) ==
    /\ evStop \/ sem > 0
    /\ Goto(w, "wait", "top")
    /\ sem' = IF evStop THEN sem ELSE sem - 1
    /\ UNCHANGED <<poolVars, queue, threwFull, job, workVars, cancelVars>>

-----------------------------------------------------------------------------
(* WorkItem::Cancel().                                                     *)

CancelStart(x, i) ==
    /\ Submitted(i) /\ i \notin cancelled
    /\ Goto(x, "idle", IF i \in finished THEN "idle" ELSE "cancelStop")
    /\ job' = [job EXCEPT ![x] = IF i \in finished THEN None ELSE i]
    /\ cancelled' = IF i \in finished THEN cancelled \cup {i} ELSE cancelled
    /\ UNCHANGED <<poolVars, queueVars, workVars, wiToCancel, apc, itemStop, told, target>>

CancelStop(x) ==
    /\ Goto(x, "cancelStop", "cancelRead")
    /\ itemStop' = itemStop \cup {job[x]}
    /\ UNCHANGED <<poolVars, queueVars, job, workVars, wiToCancel, apc, told, cancelled, target>>

CancelRead(x) ==
    /\ Goto(x, "cancelRead", IF executing[job[x]] = None THEN "cancelDone" ELSE "cancelMark")
    /\ target' = [target EXCEPT ![x] = executing[job[x]]]
    /\ UNCHANGED <<poolVars, queueVars, job, workVars, wiToCancel, apc, itemStop, told, cancelled>>

\* Mutant of CancelMark: a mark that is there is not overwritten.
CancelMarkOnce(x) ==
    /\ Goto(x, "cancelMark", "cancelApc")
    /\ wiToCancel' = [wiToCancel EXCEPT ![target[x]] = IF @ = None THEN job[x] ELSE @]
    /\ UNCHANGED <<poolVars, queueVars, job, workVars, apc, itemStop, told, cancelled, target>>

CancelMark(x) ==
    /\ Goto(x, "cancelMark", "cancelApc")
    /\ wiToCancel' = [wiToCancel EXCEPT ![target[x]] = job[x]]
    /\ UNCHANGED <<poolVars, queueVars, job, workVars, apc, itemStop, told, cancelled, target>>

\* QueueAPC() fails silently on a thread that is gone.
CancelApc(x) ==
    /\ Goto(x, "cancelApc", "cancelDone")
    /\ apc' = apc \cup {w \in {target[x]} : pc[w] # "exited"}
    /\ UNCHANGED <<poolVars, queueVars, job, workVars, wiToCancel, itemStop, told, cancelled, target>>

CancelDone(x) ==
    /\ Goto(x, "cancelDone", "idle")
    /\ cancelled' = cancelled \cup {job[x]}
    /\ job' = [job EXCEPT ![x] = None]
    /\ target' = [target EXCEPT ![x] = None]
    /\ UNCHANGED <<poolVars, queueVars, workVars, wiToCancel, apc, itemStop, told>>

-----------------------------------------------------------------------------
(* ~ThreadPool(): no caller is queueing and none will again.               *)

Shutdown ==
    /\ MayShutDown /\ instance = "up" /\ evStop = FALSE
    /\ \A c \in Callers : pc[c] = "idle"
    /\ evStop' = TRUE
    /\ UNCHANGED <<instance, assertFailed, mStop, queueVars, pc, job, workVars, cancelVars>>

\* StopChilds(): m_bStop and an APC for every thread of the group.
Interrupt(w) ==
    /\ evStop /\ w \notin mStop
    /\ mStop' = mStop \cup {w}
    /\ apc' = apc \cup {w}
    /\ UNCHANGED <<instance, assertFailed, evStop, queueVars, pc, job, workVars,
                   wiToCancel, itemStop, told, cancelled, target>>

\* Every thread is joined; then I = nullptr.
Gone ==
    /\ evStop /\ instance = "up"
    /\ \A w \in Workers : pc[w] = "exited"
    /\ instance' = "null"
    /\ UNCHANGED <<assertFailed, evStop, mStop, queueVars, pc, job, workVars, cancelVars>>

-----------------------------------------------------------------------------
Work(w) ==
    \/ CheckStop(w) \/ Pop(w) \/ Take(w) \/ Publish(w) \/ TestStop(w) \/ OnAPC(w)
    \/ Finish(w) \/ ClearCurrent(w) \/ Forget(w) \/ Wait(w)

CancelStep(x) ==
    CancelStop(x) \/ CancelRead(x) \/ CancelMark(x) \/ CancelApc(x) \/ CancelDone(x)

Next ==
    \/ \E c \in Callers : (\E i \in Items : Ensure(c, i)) \/ Construct(c) \/ Push(c)
    \/ \E w \in Workers : Work(w) \/ Interrupt(w)
    \/ \E x \in Cancellers : (\E i \in Items : CancelStart(x, i)) \/ CancelStep(x)
    \/ Shutdown
    \/ Gone

Spec == Init /\ [][Next]_vars

\* Threads are scheduled, and the work items end.
FairSpec ==
    /\ Spec
    /\ \A w \in Workers : WF_vars(Work(w)) /\ WF_vars(Finish(w)) /\ WF_vars(Interrupt(w))
    /\ \A c \in Callers : WF_vars(Construct(c) \/ Push(c))
    /\ WF_vars(Gone)

-----------------------------------------------------------------------------
WorkerPCs == {"idle", "top", "pop", "take", "publish", "testStop", "execute", "clear",
              "forget", "wait", "exited"}

\* Every variable has its type.
TypeOK ==
    /\ instance \in {"null", "up"} /\ assertFailed \in BOOLEAN
    /\ queue \in Seq(Items) /\ sem \in 0..PoolThreads /\ threwFull \in BOOLEAN
    /\ evStop \in BOOLEAN /\ mStop \subseteq Workers /\ apc \subseteq Workers
    /\ \A w \in Workers : pc[w] \in WorkerPCs
    /\ job \in [Threads -> Items \cup {None}]
    /\ curWi \in [Workers -> Items \cup {None}]
    /\ wiToCancel \in [Workers -> Items \cup {None}]
    /\ executing \in [Items -> Workers \cup {None}]
    /\ itemStop \cup finished \cup told \cup cancelled \subseteq Items
    /\ target \in [Cancellers -> Workers \cup {None}]

\* Although the semaphore is not released for every item, a queued item
\* never waits with all the pool threads asleep and nothing to wake them.
NoStrandedItem ==
    queue # <<>> /\ instance = "up" /\ ~evStop =>
        sem > 0 \/ \E w \in Workers : pc[w] \notin {"wait", "exited"}

\* An item hears OnAPC() only if it was cancelled itself, however late the
\* APC of another item's Cancel() arrives on the thread.
OnlyCancelledAreTold == told \subseteq itemStop

\* Cancel() does not slip between the worker's ExecutingThread and m_bStop:
\* after it returned, an item that is being executed was told or the APC
\* that tells it is queued.  (It takes a single canceller: see the README.)
CancelIsNotMissed ==
    \A w \in Workers :
        pc[w] = "execute" /\ job[w] \in cancelled \ told
            => w \in apc /\ wiToCancel[w] = job[w]

\* How far an item is.
Stage(i) ==
    IF i \in finished THEN "ended"
    ELSE IF \E w \in Workers : job[w] = i
         THEN IF \E w \in Workers : job[w] = i /\ pc[w] = "execute" THEN "runs" ELSE "taken"
         ELSE IF executing[i] # None THEN "dropped" ELSE "new"

Abstract ==
    INSTANCE WorkQueue WITH pending <- queue, stopped <- itemStop,
                            stage <- [i \in Items |-> Stage(i)]

\* The pool threads and their cancellers, each step with its own lock or with
\* none, execute the items as one queue would: each once, in their order, and
\* none whose m_bStop was set before its execution.
ImplementsWorkQueue == Abstract!Spec

\* The ASSERT of the constructor: the pool is a singleton.
PoolIsSingleton == assertFailed = FALSE

\* A queued item is executed to its end unless it is cancelled or the pool
\* shuts down first.
ItemsAreServed ==
    \A i \in Items :
        (\E k \in DOMAIN queue : queue[k] = i) ~> (i \in finished \cup itemStop \/ evStop)

\* The destructor returns: sleeping, starting and working threads all leave.
ShutdownEnds == evStop ~> (instance = "null")
=============================================================================
