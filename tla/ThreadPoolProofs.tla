-------------------------- MODULE ThreadPoolProofs --------------------------
(***************************************************************************)
(* Proofs about ThreadPool for any number of pool threads, callers,        *)
(* cancellers and items.                                                   *)
(***************************************************************************)
EXTENDS ThreadPool, FiniteSetTheorems, TLAPS

Holding == {"take", "publish", "testStop", "execute"}
Marked  == {"cancelRead", "cancelMark", "cancelApc", "cancelDone"}
AllPCs  == WorkerPCs \cup {"construct", "push", "cancelStop"} \cup Marked

(* Who is where, and what it has in hand there.                            *)
WorkerJobs ==
    \A w \in Workers :
        /\ IF pc[w] \in Holding THEN job[w] \in Items ELSE job[w] = None
        /\ pc[w] \in Holding \ {"take"} => curWi[w] = job[w]

CallerJobs ==
    \A c \in Callers :
        /\ pc[c] \in {"idle", "construct", "push"}
        /\ IF pc[c] = "idle" THEN job[c] = None ELSE job[c] \in Items

CancelJobs ==
    \A x \in Cancellers :
        /\ pc[x] \in {"idle", "cancelStop"} \cup Marked
        /\ pc[x] # "idle" => job[x] \in Items
        /\ pc[x] \in {"cancelMark", "cancelApc"} => target[x] \in Workers

Jobs == pc \in [Threads -> AllPCs] /\ WorkerJobs /\ CallerJobs /\ CancelJobs

(* Somebody will look at the queue: not a thread that found it empty and   *)
(* is on its way to sleep.                                                 *)
SomebodyLooks ==
    queue # <<>> /\ instance = "up" /\ ~evStop =>
        sem > 0 \/ \E w \in Workers : pc[w] \notin {"forget", "wait", "exited"}

(* The pool threads exist with the pool, and stop only with it.            *)
PoolLife ==
    /\ mStop # {} => evStop
    /\ instance = "null" /\ ~evStop => \A w \in Workers : pc[w] = "idle"

(* Who creates the pool before any other thread constructs it once.        *)
ConstructedOnce ==
    StartsUp => /\ ~assertFailed /\ (instance = "up" \/ evStop)
                /\ \A c \in Callers : pc[c] # "construct"

(* Only items with m_bStop are named to a thread or told.                  *)
Told ==
    /\ told \subseteq itemStop
    /\ \A w \in Workers : wiToCancel[w] \in itemStop \cup {None}
    /\ \A x \in Cancellers : pc[x] \in Marked => job[x] \in itemStop

-----------------------------------------------------------------------------
InCaller(i) == \E c \in Callers : job[c] = i
InQueue(i)  == \E k \in DOMAIN queue : queue[k] = i
InWorker(i) == \E w \in Workers : job[w] = i

(* An item is in one place, from the caller to the thread that executes it. *)
OnePlace ==
    /\ \A c, d \in Callers : job[c] \in Items /\ job[c] = job[d] => c = d
    /\ \A k, l \in DOMAIN queue : queue[k] = queue[l] => k = l
    /\ \A v, w \in Workers : job[v] \in Items /\ job[v] = job[w] => v = w
    /\ \A i \in Items : /\ ~(InCaller(i) /\ InQueue(i))
                        /\ ~(InCaller(i) /\ InWorker(i))
                        /\ ~(InQueue(i) /\ InWorker(i))

(* ExecutingThread names the thread that has the item, and stays when the  *)
(* item is finished or dropped.                                            *)
ExecutingIsRight ==
    /\ \A i \in Items : executing[i] # None => ~InCaller(i) /\ ~InQueue(i)
    /\ \A w \in Workers : pc[w] \in {"take", "publish"} => executing[job[w]] = None
    /\ \A w \in Workers : pc[w] \in {"testStop", "execute"} => executing[job[w]] = w
    /\ \A i \in finished : executing[i] # None /\ ~InWorker(i)
    /\ \A i \in Items, w \in Workers :
          executing[i] = w /\ job[w] # i => i \in finished \cup itemStop

(* An item with m_bStop has been cancelled or is being cancelled.          *)
StopIsCancel ==
    /\ cancelled \subseteq itemStop \cup finished
    /\ \A i \in itemStop : i \in cancelled \/ \E x \in Cancellers : pc[x] \in Marked /\ job[x] = i

Places == OnePlace /\ ExecutingIsRight /\ StopIsCancel

IInv == /\ TypeOK /\ Jobs /\ SomebodyLooks /\ PoolLife /\ ConstructedOnce /\ Told
        /\ Places

-----------------------------------------------------------------------------
(* What a single canceller relies on.                                      *)
SingleCanceller == \A x, y \in Cancellers : x = y

(* The thread that executes the item has been told or is about to hear.    *)
Covered(i) ==
    \A w \in Workers : pc[w] = "execute" /\ job[w] = i /\ i \notin told
                          => w \in apc /\ wiToCancel[w] = i

(* How far the Cancel() of an item that is executed has come, and that it  *)
(* does not turn to a thread that executes an item cancelled before.       *)
Cancelling ==
    \A x \in Cancellers :
        /\ pc[x] = "cancelDone" => Covered(job[x])
        /\ pc[x] \in {"cancelMark", "cancelApc"} => target[x] = executing[job[x]]
        /\ \A w \in Workers : pc[w] = "execute" =>
              /\ pc[x] = "cancelApc" /\ job[w] = job[x] => wiToCancel[w] = job[x]
              /\ pc[x] \in {"cancelStop", "cancelRead", "cancelMark", "cancelApc"}
                 /\ job[w] \in cancelled => executing[job[x]] # w

CancelInv == CancelIsNotMissed /\ Cancelling


(* A thread has one role.                                                  *)
LEMMA Roles ==
  ASSUME NEW w \in Workers, NEW c \in Callers, NEW x \in Cancellers
  PROVE  w # c /\ w # x /\ c # x /\ w \in Threads /\ c \in Threads /\ x \in Threads
BY ThreadPoolAssumption DEF Threads

LEMMA PoolSize == PoolThreads \in Nat /\ PoolThreads > 1 /\ Workers # {}
BY ThreadPoolAssumption, FS_CardinalityType, FS_EmptySet DEF PoolThreads

-----------------------------------------------------------------------------
(* Callers.                                                                *)

LEMMA EnsurePreserves ==
  ASSUME IInv, NEW c \in Callers, NEW i \in Items, Ensure(c, i)
  PROVE  IInv'
<1> USE ThreadPoolAssumption, Roles, PoolSize
      DEF IInv, Places, Threads, Goto, poolVars, queueVars, workVars, cancelVars, Ensure, Submitted
<1>1. TypeOK' BY DEF TypeOK
<1>2. Jobs' BY DEF TypeOK, Jobs, WorkerJobs, CallerJobs, CancelJobs, AllPCs
<1>3. SomebodyLooks' /\ PoolLife' /\ ConstructedOnce' BY DEF SomebodyLooks, PoolLife,
      ConstructedOnce
<1>4. Told' BY DEF Told
<1>5. OnePlace' BY DEF OnePlace, InCaller, InQueue, InWorker
<1>6. ExecutingIsRight' BY DEF InCaller, InQueue, InWorker, ExecutingIsRight
<1>7. StopIsCancel' BY DEF StopIsCancel
<1>8. QED BY <1>1, <1>2, <1>3, <1>4, <1>5, <1>6, <1>7

LEMMA ConstructPreserves ==
  ASSUME IInv, NEW c \in Callers, Construct(c)
  PROVE  IInv'
<1> USE ThreadPoolAssumption, Roles, PoolSize
      DEF IInv, Places, Threads, Goto, poolVars, queueVars, workVars, cancelVars, Construct
<1>1. TypeOK' BY DEF TypeOK, WorkerPCs
<1>2. Jobs' BY DEF Jobs, WorkerJobs, CallerJobs, CancelJobs, AllPCs, WorkerPCs, Holding
<1>3. SomebodyLooks' /\ PoolLife' /\ ConstructedOnce' BY DEF TypeOK, SomebodyLooks, PoolLife,
      ConstructedOnce
<1>4. Told' BY DEF Told
<1>5. OnePlace' BY DEF OnePlace, InCaller, InQueue, InWorker
<1>6. ExecutingIsRight' BY DEF InCaller, InQueue, InWorker, ExecutingIsRight
<1>7. StopIsCancel' BY DEF StopIsCancel
<1>8. QED BY <1>1, <1>2, <1>3, <1>4, <1>5, <1>6, <1>7

LEMMA PushPreserves ==
  ASSUME IInv, NEW c \in Callers, Push(c)
  PROVE  IInv'
<1> USE ThreadPoolAssumption, Roles, PoolSize
      DEF IInv, Places, Threads, Goto, poolVars, queueVars, workVars, cancelVars, Push, Signals,
          Released
<1>1. TypeOK'
  <2>1. job[c] \in Items BY DEF Jobs, CallerJobs
  <2>2. queue' \in Seq(Items) BY <2>1 DEF TypeOK
  <2>3. sem' \in 0..PoolThreads BY <2>2 DEF TypeOK
  <2>4. threwFull' \in BOOLEAN BY DEF TypeOK
  <2>5. QED BY <2>2, <2>3, <2>4 DEF TypeOK, Jobs, WorkerPCs
<1>2. Jobs' BY DEF TypeOK, Jobs, WorkerJobs, CallerJobs, CancelJobs, AllPCs, WorkerPCs
<1>3. SomebodyLooks' /\ PoolLife' /\ ConstructedOnce'
  <2>1. job[c] \in Items BY DEF Jobs, CallerJobs
  <2>2. Len(queue') = Len(queue) + 1 /\ Len(queue) \in Nat BY <2>1 DEF TypeOK
  <2>3. ASSUME Signals(Len(queue')) PROVE SomebodyLooks'
        BY <2>3 DEF SomebodyLooks, TypeOK
  <2>4. ASSUME ~Signals(Len(queue')) PROVE SomebodyLooks'
    <3>1. queue # <<>> BY <2>2, <2>4 DEF TypeOK
    <3>2. UNCHANGED sem BY <2>4
    <3>3. \A w \in Workers : pc'[w] = pc[w] BY DEF Jobs
    <3>4. QED BY <3>1, <3>2, <3>3 DEF SomebodyLooks
  <2>5. PoolLife' /\ ConstructedOnce' BY DEF Jobs, PoolLife, ConstructedOnce
  <2>6. QED BY <2>3, <2>4, <2>5
<1>4. Told' BY DEF Told
<1>5. OnePlace'
  <2>1. job[c] \in Items BY DEF Jobs, CallerJobs
  <2>2. /\ Len(queue) \in Nat /\ DOMAIN queue = 1..Len(queue)
        /\ DOMAIN queue' = 1..(Len(queue) + 1)
        /\ queue'[Len(queue) + 1] = job[c]
        /\ \A k \in DOMAIN queue : queue'[k] = queue[k]
        BY <2>1 DEF TypeOK
  <2>3. \A k \in DOMAIN queue : queue[k] # job[c]
        BY <2>1 DEF OnePlace, InCaller, InQueue
  <2>4. \A k, l \in DOMAIN queue' : queue'[k] = queue'[l] => k = l
        BY <2>2, <2>3 DEF OnePlace
  <2>5. job' = [job EXCEPT ![c] = None]
        OBVIOUS
  <2>6. \A d \in Callers : job'[d] = IF d = c THEN None ELSE job[d]
        BY <2>5 DEF TypeOK
  <2>7. \A w \in Workers : job'[w] = job[w]
        BY <2>5 DEF TypeOK
  <2>8. \A i \in Items : InQueue(i)' => InQueue(i) \/ i = job[c]
        BY <2>2 DEF InQueue
  <2>9. \A i \in Items : InCaller(i)' => InCaller(i) /\ i # job[c]
        BY <2>6 DEF InCaller, OnePlace
  <2>10. \A i \in Items : InWorker(i)' = InWorker(i)
        BY <2>7 DEF InWorker
  <2>11. \A i \in Items : /\ ~(InCaller(i)' /\ InQueue(i)')
                          /\ ~(InCaller(i)' /\ InWorker(i)')
                          /\ ~(InQueue(i)' /\ InWorker(i)')
        BY <2>8, <2>9, <2>10 DEF OnePlace, InCaller
  <2>12. QED BY <2>4, <2>6, <2>7, <2>11 DEF OnePlace, InCaller, InQueue, InWorker
<1>6. ExecutingIsRight' BY DEF InCaller, InQueue, InWorker, ExecutingIsRight
<1>7. StopIsCancel' BY DEF StopIsCancel
<1>8. QED BY <1>1, <1>2, <1>3, <1>4, <1>5, <1>6, <1>7

-----------------------------------------------------------------------------
(* The pool thread.                                                        *)

LEMMA CheckStopPreserves ==
  ASSUME IInv, NEW w \in Workers, CheckStop(w)
  PROVE  IInv'
<1> USE ThreadPoolAssumption, Roles, PoolSize
      DEF IInv, Places, Threads, Goto, poolVars, queueVars, workVars, cancelVars, CheckStop
<1>1. TypeOK' BY DEF TypeOK, WorkerPCs
<1>2. Jobs' BY DEF Jobs, WorkerJobs, CallerJobs, CancelJobs, AllPCs, WorkerPCs, Holding
<1>3. SomebodyLooks' /\ PoolLife' /\ ConstructedOnce' BY DEF SomebodyLooks, PoolLife,
      ConstructedOnce
<1>4. Told' BY DEF Told
<1>5. OnePlace' BY DEF OnePlace, InCaller, InQueue, InWorker
<1>6. ExecutingIsRight' BY DEF InCaller, InQueue, InWorker, ExecutingIsRight
<1>7. StopIsCancel' BY DEF Jobs, WorkerJobs, CallerJobs, CancelJobs, StopIsCancel, Told, Marked
<1>8. QED BY <1>1, <1>2, <1>3, <1>4, <1>5, <1>6, <1>7

LEMMA PopPreserves ==
  ASSUME IInv, NEW w \in Workers, Pop(w)
  PROVE  IInv'
<1> USE ThreadPoolAssumption, Roles, PoolSize
      DEF IInv, Places, Threads, Goto, poolVars, queueVars, workVars, cancelVars, Pop
<1> DEFINE h == Head(queue)
<1>a. ASSUME queue = <<>> PROVE TypeOK' /\ OnePlace' /\ ExecutingIsRight'
  <2>1. UNCHANGED <<queue, job>> BY <1>a
  <2>2. TypeOK' BY <2>1 DEF TypeOK, Jobs, WorkerPCs
  <2>3. OnePlace' BY <2>1 DEF OnePlace, InCaller, InQueue, InWorker
  <2>4. ExecutingIsRight'
        BY <2>1, <1>a DEF ExecutingIsRight, InCaller, InQueue, InWorker, TypeOK, Jobs
  <2>5. QED BY <2>2, <2>3, <2>4
<1>b. ASSUME queue # <<>> PROVE TypeOK' /\ OnePlace' /\ ExecutingIsRight'
  <2>1. /\ Len(queue) \in Nat \ {0} /\ DOMAIN queue = 1..Len(queue)
        /\ queue' \in Seq(Items)
        /\ DOMAIN queue' = 1..(Len(queue) - 1)
        /\ \A k \in DOMAIN queue' : queue'[k] = queue[k + 1]
        /\ h = queue[1] /\ h \in Items
    <3>1. queue \in Seq(Items) /\ queue' = Tail(queue) BY <1>b DEF TypeOK
    <3>2. Len(queue) \in Nat \ {0} /\ DOMAIN queue = 1..Len(queue) BY <1>b, <3>1
    <3>3. queue' \in Seq(Items) /\ Len(queue') = Len(queue) - 1 BY <1>b, <3>1, <3>2
    <3>4. DOMAIN queue' = 1..(Len(queue) - 1) BY <3>3
    <3>5. \A k \in DOMAIN queue' : queue'[k] = queue[k + 1] BY <3>1, <3>2, <3>4
    <3>6. h = queue[1] /\ h \in Items BY <3>1, <3>2
    <3>7. QED BY <3>2, <3>3, <3>4, <3>5, <3>6
  <2>2. job' = [job EXCEPT ![w] = h] /\ job[w] = None /\ pc[w] = "pop"
        /\ pc' = [pc EXCEPT ![w] = "take"]
        BY <1>b DEF Jobs, WorkerJobs, Holding
  <2> HIDE DEF h
  <2>3. TypeOK'
    <3>1. job' \in [Threads -> Items \cup {None}] BY <2>1, <2>2 DEF TypeOK
    <3>2. QED BY <2>1, <2>2, <3>1 DEF TypeOK, Jobs, WorkerPCs
  <2>4. InQueue(h) BY <2>1 DEF InQueue
  <2>5. \A i \in Items : InQueue(i)' => InQueue(i) /\ i # h
        BY <2>1 DEF InQueue, OnePlace
  <2>6. \A c \in Callers : job'[c] = job[c] BY <2>2 DEF TypeOK
  <2>7. \A v \in Workers : job'[v] = IF v = w THEN h ELSE job[v] BY <2>2 DEF TypeOK
  <2>8. \A i \in Items : InCaller(i)' = InCaller(i) BY <2>6 DEF InCaller
  <2>9. \A i \in Items : InWorker(i)' => InWorker(i) \/ i = h BY <2>7 DEF InWorker
  <2>10. ~InCaller(h) /\ ~InWorker(h) BY <2>1, <2>4 DEF OnePlace
  <2>11. OnePlace'
    <3>1. ASSUME NEW k \in DOMAIN queue', NEW l \in DOMAIN queue', queue'[k] = queue'[l] PROVE k = l
      <4>1. k + 1 \in DOMAIN queue /\ l + 1 \in DOMAIN queue BY <2>1
      <4>2. queue[k + 1] = queue[l + 1] BY <2>1, <3>1
      <4>3. k \in Nat /\ l \in Nat /\ k + 1 = l + 1 BY <4>1, <4>2, <2>1 DEF OnePlace
      <4>4. QED BY <4>3
    <3>2. \A v, u \in Workers : job'[v] \in Items /\ job'[v] = job'[u] => v = u
          BY <2>7, <2>10 DEF OnePlace, InWorker
    <3>3. \A i \in Items : /\ ~(InCaller(i)' /\ InQueue(i)')
                          /\ ~(InCaller(i)' /\ InWorker(i)')
                          /\ ~(InQueue(i)' /\ InWorker(i)')
          BY <2>5, <2>8, <2>9, <2>10 DEF OnePlace
    <3>4. QED BY <2>6, <3>1, <3>2, <3>3 DEF OnePlace, InCaller, InQueue, InWorker
  <2>12. ExecutingIsRight'
    <3>1. \A i \in Items : executing[i] # None => ~InCaller(i)' /\ ~InQueue(i)'
          BY <2>5, <2>8 DEF ExecutingIsRight
    <3>2. executing[h] = None BY <2>1, <2>4 DEF ExecutingIsRight
    <3>3. \A v \in Workers : pc'[v] = IF v = w THEN "take" ELSE pc[v] BY <2>2 DEF Jobs
    <3>4. \A i \in finished : executing[i] # None /\ ~InWorker(i)'
          BY <2>9, <3>2 DEF ExecutingIsRight, TypeOK
    <3>5. \A i \in Items, v \in Workers :
              executing[i] = v /\ job'[v] # i => i \in finished \cup itemStop
          BY <2>2, <2>7 DEF ExecutingIsRight
    <3>6. QED
          BY <2>7, <3>1, <3>2, <3>3, <3>4, <3>5 DEF ExecutingIsRight, InCaller, InQueue, InWorker
  <2>13. QED BY <2>3, <2>11, <2>12
<1>1. TypeOK' BY <1>a, <1>b
<1>2. Jobs' BY DEF TypeOK, Jobs, WorkerJobs, CallerJobs, CancelJobs, AllPCs, WorkerPCs, Holding
<1>3. SomebodyLooks' /\ PoolLife' /\ ConstructedOnce' BY DEF SomebodyLooks, PoolLife,
      ConstructedOnce
<1>4. Told' BY DEF TypeOK, Told
<1>5. OnePlace' BY <1>a, <1>b
<1>6. ExecutingIsRight' BY <1>a, <1>b
<1>7. StopIsCancel' BY DEF TypeOK, StopIsCancel
<1>8. QED BY <1>1, <1>2, <1>3, <1>4, <1>5, <1>6, <1>7

LEMMA TakePreserves ==
  ASSUME IInv, NEW w \in Workers, Take(w)
  PROVE  IInv'
<1> USE ThreadPoolAssumption, Roles, PoolSize
      DEF IInv, Places, Threads, Goto, poolVars, queueVars, workVars, cancelVars, Take
<1>1. TypeOK' BY DEF TypeOK, WorkerPCs
<1>2. Jobs' BY DEF TypeOK, Jobs, WorkerJobs, CallerJobs, CancelJobs, AllPCs, WorkerPCs, Holding
<1>3. SomebodyLooks' /\ PoolLife' /\ ConstructedOnce' BY DEF SomebodyLooks, PoolLife,
      ConstructedOnce
<1>4. Told' BY DEF Told
<1>5. OnePlace' BY DEF OnePlace, InCaller, InQueue, InWorker
<1>6. ExecutingIsRight' BY DEF InCaller, InQueue, InWorker, ExecutingIsRight
<1>7. StopIsCancel' BY DEF StopIsCancel
<1>8. QED BY <1>1, <1>2, <1>3, <1>4, <1>5, <1>6, <1>7

LEMMA PublishPreserves ==
  ASSUME IInv, NEW w \in Workers, Publish(w)
  PROVE  IInv'
<1> USE ThreadPoolAssumption, Roles, PoolSize
      DEF IInv, Places, Threads, Goto, poolVars, queueVars, workVars, cancelVars, Publish
<1>1. TypeOK' BY DEF TypeOK, Jobs, WorkerPCs
<1>2. Jobs' BY DEF Jobs, WorkerJobs, CallerJobs, CancelJobs, AllPCs, WorkerPCs, Holding
<1>3. SomebodyLooks' /\ PoolLife' /\ ConstructedOnce' BY DEF SomebodyLooks, PoolLife,
      ConstructedOnce
<1>4. Told' BY DEF Told
<1>5. OnePlace' BY DEF OnePlace, InCaller, InQueue, InWorker
<1>6. ExecutingIsRight' BY DEF TypeOK, Jobs, WorkerJobs, OnePlace, InCaller, InQueue, InWorker,
      Holding, ExecutingIsRight
<1>7. StopIsCancel' BY DEF StopIsCancel
<1>8. QED BY <1>1, <1>2, <1>3, <1>4, <1>5, <1>6, <1>7

LEMMA TestStopPreserves ==
  ASSUME IInv, NEW w \in Workers, TestStop(w)
  PROVE  IInv'
<1> USE ThreadPoolAssumption, Roles, PoolSize
      DEF IInv, Places, Threads, Goto, poolVars, queueVars, workVars, cancelVars, TestStop
<1>1. TypeOK' BY DEF TypeOK, WorkerPCs
<1>2. Jobs' BY DEF TypeOK, Jobs, WorkerJobs, CallerJobs, CancelJobs, AllPCs, WorkerPCs, Holding
<1>3. SomebodyLooks' /\ PoolLife' /\ ConstructedOnce' BY DEF SomebodyLooks, PoolLife,
      ConstructedOnce
<1>4. Told' BY DEF Told
<1>5. OnePlace' BY DEF OnePlace, InCaller, InQueue, InWorker
<1>6. ExecutingIsRight' BY DEF TypeOK, Jobs, InCaller, InQueue, InWorker, ExecutingIsRight
<1>7. StopIsCancel' BY DEF StopIsCancel
<1>8. QED BY <1>1, <1>2, <1>3, <1>4, <1>5, <1>6, <1>7

LEMMA OnAPCPreserves ==
  ASSUME IInv, NEW w \in Workers, OnAPC(w)
  PROVE  IInv'
<1> USE ThreadPoolAssumption, Roles, PoolSize
      DEF IInv, Places, Threads, Goto, poolVars, queueVars, workVars, cancelVars, OnAPC
<1>1. TypeOK' BY DEF TypeOK, Jobs, WorkerJobs, Holding
<1>2. Jobs' BY DEF Jobs, WorkerJobs, CallerJobs, CancelJobs
<1>3. SomebodyLooks' /\ PoolLife' /\ ConstructedOnce' BY DEF SomebodyLooks, PoolLife,
      ConstructedOnce
<1>4. Told' BY DEF Jobs, WorkerJobs, Told, Holding
<1>5. OnePlace' BY DEF OnePlace, InCaller, InQueue, InWorker
<1>6. ExecutingIsRight' BY DEF InCaller, InQueue, InWorker, ExecutingIsRight
<1>7. StopIsCancel' BY DEF StopIsCancel
<1>8. QED BY <1>1, <1>2, <1>3, <1>4, <1>5, <1>6, <1>7

LEMMA FinishPreserves ==
  ASSUME IInv, NEW w \in Workers, Finish(w)
  PROVE  IInv'
<1> USE ThreadPoolAssumption, Roles, PoolSize
      DEF IInv, Places, Threads, Goto, poolVars, queueVars, workVars, cancelVars, Finish
<1>1. TypeOK' BY DEF TypeOK, Jobs, WorkerJobs, WorkerPCs, Holding
<1>2. Jobs' BY DEF TypeOK, Jobs, WorkerJobs, CallerJobs, CancelJobs, AllPCs, WorkerPCs, Holding
<1>3. SomebodyLooks' /\ PoolLife' /\ ConstructedOnce' BY DEF SomebodyLooks, PoolLife,
      ConstructedOnce
<1>4. Told' BY DEF Told
<1>5. OnePlace' BY DEF OnePlace, InCaller, InQueue, InWorker
<1>6. ExecutingIsRight' BY DEF TypeOK, Jobs, WorkerJobs, InCaller, InQueue, InWorker, Holding,
      ExecutingIsRight
<1>7. StopIsCancel' BY DEF StopIsCancel
<1>8. QED BY <1>1, <1>2, <1>3, <1>4, <1>5, <1>6, <1>7

LEMMA ClearCurrentPreserves ==
  ASSUME IInv, NEW w \in Workers, ClearCurrent(w)
  PROVE  IInv'
<1> USE ThreadPoolAssumption, Roles, PoolSize
      DEF IInv, Places, Threads, Goto, poolVars, queueVars, workVars, cancelVars, ClearCurrent
<1>1. TypeOK' BY DEF TypeOK, WorkerPCs
<1>2. Jobs' BY DEF Jobs, WorkerJobs, CallerJobs, CancelJobs, AllPCs, WorkerPCs, Holding
<1>3. SomebodyLooks' /\ PoolLife' /\ ConstructedOnce' BY DEF SomebodyLooks, PoolLife,
      ConstructedOnce
<1>4. Told' BY DEF Told
<1>5. OnePlace' BY DEF OnePlace, InCaller, InQueue, InWorker
<1>6. ExecutingIsRight' BY DEF InCaller, InQueue, InWorker, ExecutingIsRight
<1>7. StopIsCancel' BY DEF StopIsCancel
<1>8. QED BY <1>1, <1>2, <1>3, <1>4, <1>5, <1>6, <1>7

LEMMA ForgetPreserves ==
  ASSUME IInv, NEW w \in Workers, Forget(w)
  PROVE  IInv'
<1> USE ThreadPoolAssumption, Roles, PoolSize
      DEF IInv, Places, Threads, Goto, poolVars, queueVars, workVars, cancelVars, Forget
<1>1. TypeOK' BY DEF TypeOK, WorkerPCs
<1>2. Jobs' BY DEF Jobs, WorkerJobs, CallerJobs, CancelJobs, AllPCs, WorkerPCs, Holding
<1>3. SomebodyLooks' /\ PoolLife' /\ ConstructedOnce' BY DEF SomebodyLooks, PoolLife,
      ConstructedOnce
<1>4. Told' BY DEF Told
<1>5. OnePlace' BY DEF OnePlace, InCaller, InQueue, InWorker
<1>6. ExecutingIsRight' BY DEF InCaller, InQueue, InWorker, ExecutingIsRight
<1>7. StopIsCancel' BY DEF StopIsCancel
<1>8. QED BY <1>1, <1>2, <1>3, <1>4, <1>5, <1>6, <1>7

LEMMA WaitPreserves ==
  ASSUME IInv, NEW w \in Workers, Wait(w)
  PROVE  IInv'
<1> USE ThreadPoolAssumption, Roles, PoolSize
      DEF IInv, Places, Threads, Goto, poolVars, queueVars, workVars, cancelVars, Wait
<1>1. TypeOK' BY DEF TypeOK, WorkerPCs
<1>2. Jobs' BY DEF Jobs, WorkerJobs, CallerJobs, CancelJobs, AllPCs, WorkerPCs, Holding
<1>3. SomebodyLooks' /\ PoolLife' /\ ConstructedOnce' BY DEF Jobs, SomebodyLooks, PoolLife,
      ConstructedOnce
<1>4. Told' BY DEF Told
<1>5. OnePlace' BY DEF OnePlace, InCaller, InQueue, InWorker
<1>6. ExecutingIsRight' BY DEF InCaller, InQueue, InWorker, ExecutingIsRight
<1>7. StopIsCancel' BY DEF StopIsCancel
<1>8. QED BY <1>1, <1>2, <1>3, <1>4, <1>5, <1>6, <1>7

-----------------------------------------------------------------------------
(* Cancel() and the destructor.                                            *)

LEMMA CancelStartPreserves ==
  ASSUME IInv, NEW x \in Cancellers, NEW i \in Items, CancelStart(x, i)
  PROVE  IInv'
<1> USE ThreadPoolAssumption, Roles, PoolSize
      DEF IInv, Places, Threads, Goto, poolVars, queueVars, workVars, cancelVars, CancelStart
<1>1. TypeOK' BY DEF TypeOK
<1>2. Jobs' BY DEF TypeOK, Jobs, WorkerJobs, CallerJobs, CancelJobs, AllPCs, WorkerPCs
<1>3. SomebodyLooks' /\ PoolLife' /\ ConstructedOnce' BY DEF SomebodyLooks, PoolLife,
      ConstructedOnce
<1>4. Told' BY DEF Told, Marked
<1>5. OnePlace' BY DEF OnePlace, InCaller, InQueue, InWorker
<1>6. ExecutingIsRight' BY DEF InCaller, InQueue, InWorker, ExecutingIsRight
<1>7. StopIsCancel' BY DEF StopIsCancel, Marked
<1>8. QED BY <1>1, <1>2, <1>3, <1>4, <1>5, <1>6, <1>7

LEMMA CancelStopPreserves ==
  ASSUME IInv, NEW x \in Cancellers, CancelStop(x)
  PROVE  IInv'
<1> USE ThreadPoolAssumption, Roles, PoolSize
      DEF IInv, Places, Threads, Goto, poolVars, queueVars, workVars, cancelVars, CancelStop
<1>1. TypeOK' BY DEF TypeOK, Jobs, CancelJobs
<1>2. Jobs' BY DEF Jobs, WorkerJobs, CallerJobs, CancelJobs, AllPCs, Marked
<1>3. SomebodyLooks' /\ PoolLife' /\ ConstructedOnce' BY DEF SomebodyLooks, PoolLife,
      ConstructedOnce
<1>4. Told' BY DEF Told
<1>5. OnePlace' BY DEF OnePlace, InCaller, InQueue, InWorker
<1>6. ExecutingIsRight' BY DEF InCaller, InQueue, InWorker, ExecutingIsRight
<1>7. StopIsCancel' BY DEF Jobs, StopIsCancel, Marked
<1>8. QED BY <1>1, <1>2, <1>3, <1>4, <1>5, <1>6, <1>7

LEMMA CancelReadPreserves ==
  ASSUME IInv, NEW x \in Cancellers, CancelRead(x)
  PROVE  IInv'
<1> USE ThreadPoolAssumption, Roles, PoolSize
      DEF IInv, Places, Threads, Goto, poolVars, queueVars, workVars, cancelVars, CancelRead
<1>1. TypeOK' BY DEF TypeOK, Jobs, CancelJobs
<1>2. Jobs' BY DEF TypeOK, Jobs, WorkerJobs, CallerJobs, CancelJobs, AllPCs, Marked
<1>3. SomebodyLooks' /\ PoolLife' /\ ConstructedOnce' BY DEF SomebodyLooks, PoolLife,
      ConstructedOnce
<1>4. Told' BY DEF Told, Marked
<1>5. OnePlace' BY DEF OnePlace, InCaller, InQueue, InWorker
<1>6. ExecutingIsRight' BY DEF InCaller, InQueue, InWorker, ExecutingIsRight
<1>7. StopIsCancel' BY DEF StopIsCancel, Marked
<1>8. QED BY <1>1, <1>2, <1>3, <1>4, <1>5, <1>6, <1>7

LEMMA CancelMarkPreserves ==
  ASSUME IInv, NEW x \in Cancellers, CancelMark(x)
  PROVE  IInv'
<1> USE ThreadPoolAssumption, Roles, PoolSize
      DEF IInv, Places, Threads, Goto, poolVars, queueVars, workVars, cancelVars, CancelMark
<1>1. TypeOK' BY DEF TypeOK, Jobs, WorkerPCs
<1>2. Jobs' BY DEF Jobs, WorkerJobs, CallerJobs, CancelJobs, AllPCs, Marked
<1>3. SomebodyLooks' /\ PoolLife' /\ ConstructedOnce' BY DEF SomebodyLooks, PoolLife,
      ConstructedOnce
<1>4. Told' BY DEF Told, Marked
<1>5. OnePlace' BY DEF OnePlace, InCaller, InQueue, InWorker
<1>6. ExecutingIsRight' BY DEF InCaller, InQueue, InWorker, ExecutingIsRight
<1>7. StopIsCancel' BY DEF StopIsCancel, Marked
<1>8. QED BY <1>1, <1>2, <1>3, <1>4, <1>5, <1>6, <1>7

LEMMA CancelApcPreserves ==
  ASSUME IInv, NEW x \in Cancellers, CancelApc(x)
  PROVE  IInv'
<1> USE ThreadPoolAssumption, Roles, PoolSize
      DEF IInv, Places, Threads, Goto, poolVars, queueVars, workVars, cancelVars, CancelApc
<1>1. TypeOK' BY DEF TypeOK, Jobs, CancelJobs
<1>2. Jobs' BY DEF Jobs, WorkerJobs, CallerJobs, CancelJobs, AllPCs, Marked
<1>3. SomebodyLooks' /\ PoolLife' /\ ConstructedOnce' BY DEF SomebodyLooks, PoolLife,
      ConstructedOnce
<1>4. Told' BY DEF Told, Marked
<1>5. OnePlace' BY DEF OnePlace, InCaller, InQueue, InWorker
<1>6. ExecutingIsRight' BY DEF InCaller, InQueue, InWorker, ExecutingIsRight
<1>7. StopIsCancel' BY DEF StopIsCancel, Marked
<1>8. QED BY <1>1, <1>2, <1>3, <1>4, <1>5, <1>6, <1>7

LEMMA CancelDonePreserves ==
  ASSUME IInv, NEW x \in Cancellers, CancelDone(x)
  PROVE  IInv'
<1> USE ThreadPoolAssumption, Roles, PoolSize
      DEF IInv, Places, Threads, Goto, poolVars, queueVars, workVars, cancelVars, CancelDone
<1>1. TypeOK' BY DEF TypeOK, Jobs, CancelJobs
<1>2. Jobs' BY DEF Jobs, WorkerJobs, CallerJobs, CancelJobs, AllPCs, WorkerPCs
<1>3. SomebodyLooks' /\ PoolLife' /\ ConstructedOnce' BY DEF SomebodyLooks, PoolLife,
      ConstructedOnce
<1>4. Told' BY DEF Jobs, Told, Marked
<1>5. OnePlace' BY DEF OnePlace, InCaller, InQueue, InWorker
<1>6. ExecutingIsRight' BY DEF InCaller, InQueue, InWorker, ExecutingIsRight
<1>7. StopIsCancel' BY DEF StopIsCancel, Told, Marked
<1>8. QED BY <1>1, <1>2, <1>3, <1>4, <1>5, <1>6, <1>7

LEMMA ShutdownPreserves ==
  ASSUME IInv, Shutdown
  PROVE  IInv'
<1> USE ThreadPoolAssumption, Roles, PoolSize
      DEF IInv, Places, Threads, Goto, poolVars, queueVars, workVars, cancelVars, Shutdown
<1>1. TypeOK' BY DEF TypeOK
<1>2. Jobs' BY DEF Jobs, WorkerJobs, CallerJobs, CancelJobs
<1>3. SomebodyLooks' /\ PoolLife' /\ ConstructedOnce' BY DEF SomebodyLooks, PoolLife,
      ConstructedOnce
<1>4. Told' BY DEF Told
<1>5. OnePlace' BY DEF OnePlace, InCaller, InQueue, InWorker
<1>6. ExecutingIsRight' BY DEF InCaller, InQueue, InWorker, ExecutingIsRight
<1>7. StopIsCancel' BY DEF StopIsCancel
<1>8. QED BY <1>1, <1>2, <1>3, <1>4, <1>5, <1>6, <1>7

LEMMA InterruptPreserves ==
  ASSUME IInv, NEW w \in Workers, Interrupt(w)
  PROVE  IInv'
<1> USE ThreadPoolAssumption, Roles, PoolSize
      DEF IInv, Places, Threads, Goto, poolVars, queueVars, workVars, cancelVars, Interrupt
<1>1. TypeOK' BY DEF TypeOK
<1>2. Jobs' BY DEF Jobs, WorkerJobs, CallerJobs, CancelJobs
<1>3. SomebodyLooks' /\ PoolLife' /\ ConstructedOnce' BY DEF SomebodyLooks, PoolLife,
      ConstructedOnce
<1>4. Told' BY DEF Told
<1>5. OnePlace' BY DEF OnePlace, InCaller, InQueue, InWorker
<1>6. ExecutingIsRight' BY DEF InCaller, InQueue, InWorker, ExecutingIsRight
<1>7. StopIsCancel' BY DEF StopIsCancel
<1>8. QED BY <1>1, <1>2, <1>3, <1>4, <1>5, <1>6, <1>7

LEMMA GonePreserves ==
  ASSUME IInv, Gone
  PROVE  IInv'
<1> USE ThreadPoolAssumption, Roles, PoolSize
      DEF IInv, Places, Threads, Goto, poolVars, queueVars, workVars, cancelVars, Gone
<1>1. TypeOK' BY DEF TypeOK
<1>2. Jobs' BY DEF Jobs, WorkerJobs, CallerJobs, CancelJobs
<1>3. SomebodyLooks' /\ PoolLife' /\ ConstructedOnce' BY DEF SomebodyLooks, PoolLife,
      ConstructedOnce
<1>4. Told' BY DEF Told
<1>5. OnePlace' BY DEF OnePlace, InCaller, InQueue, InWorker
<1>6. ExecutingIsRight' BY DEF InCaller, InQueue, InWorker, ExecutingIsRight
<1>7. StopIsCancel' BY DEF StopIsCancel
<1>8. QED BY <1>1, <1>2, <1>3, <1>4, <1>5, <1>6, <1>7

LEMMA StutterPreserves ==
  ASSUME IInv, UNCHANGED vars
  PROVE  IInv'
<1> USE ThreadPoolAssumption, Roles, PoolSize
      DEF IInv, Places, Threads, Goto, poolVars, queueVars, workVars, cancelVars, vars
<1>1. TypeOK' BY DEF TypeOK
<1>2. Jobs' BY DEF Jobs, WorkerJobs, CallerJobs, CancelJobs
<1>3. SomebodyLooks' /\ PoolLife' /\ ConstructedOnce' BY DEF SomebodyLooks, PoolLife,
      ConstructedOnce
<1>4. Told' BY DEF Told
<1>5. OnePlace' BY DEF OnePlace, InCaller, InQueue, InWorker
<1>6. ExecutingIsRight' BY DEF InCaller, InQueue, InWorker, ExecutingIsRight
<1>7. StopIsCancel' BY DEF StopIsCancel
<1>8. QED BY <1>1, <1>2, <1>3, <1>4, <1>5, <1>6, <1>7

-----------------------------------------------------------------------------

LEMMA InitHolds == Init => IInv
<1> SUFFICES ASSUME Init PROVE IInv
    OBVIOUS
<1> USE ThreadPoolAssumption, Roles, PoolSize DEF Init, Threads
<1>1. TypeOK
  <2>1. queue \in Seq(Items) /\ sem \in 0..PoolThreads OBVIOUS
  <2>2. threwFull \in BOOLEAN /\ assertFailed \in BOOLEAN /\ evStop \in BOOLEAN BY Zenon
  <2>3. instance \in {"null", "up"} /\ \A w \in Workers : pc[w] \in WorkerPCs BY DEF WorkerPCs
  <2>4. job \in [Threads -> Items \cup {None}] /\ curWi \in [Workers -> Items \cup {None}]
        OBVIOUS
  <2>5. /\ wiToCancel \in [Workers -> Items \cup {None}]
        /\ executing \in [Items -> Workers \cup {None}]
        /\ target \in [Cancellers -> Workers \cup {None}]
        OBVIOUS
  <2>6. /\ mStop \subseteq Workers /\ apc \subseteq Workers
        /\ itemStop \cup finished \cup told \cup cancelled \subseteq Items
        OBVIOUS
  <2>7. QED BY <2>1, <2>2, <2>3, <2>4, <2>5, <2>6 DEF TypeOK
<1>2. pc \in [Threads -> AllPCs] BY DEF AllPCs, WorkerPCs
<1>3. WorkerJobs /\ CallerJobs /\ CancelJobs
      BY DEF WorkerJobs, CallerJobs, CancelJobs, Holding, Marked
<1>4. SomebodyLooks /\ PoolLife /\ ConstructedOnce
      BY DEF SomebodyLooks, PoolLife, ConstructedOnce
<1>5. Told BY DEF Told, Marked
<1>6. OnePlace BY DEF OnePlace, InCaller, InQueue, InWorker
<1>7. ExecutingIsRight BY DEF ExecutingIsRight, InCaller, InQueue, InWorker
<1>8. StopIsCancel BY DEF StopIsCancel, Marked
<1>9. QED BY <1>1, <1>2, <1>3, <1>4, <1>5, <1>6, <1>7, <1>8 DEF IInv, Jobs, Places

LEMMA StepPreserves == IInv /\ [Next]_vars => IInv'
<1> SUFFICES ASSUME IInv, [Next]_vars PROVE IInv'
    OBVIOUS
<1>1. ASSUME NEW c \in Callers, NEW i \in Items, Ensure(c, i) PROVE IInv'
      BY <1>1, EnsurePreserves
<1>2. ASSUME NEW c \in Callers, Construct(c) \/ Push(c) PROVE IInv'
      BY <1>2, ConstructPreserves, PushPreserves
<1>3. ASSUME NEW w \in Workers, Work(w) PROVE IInv'
      BY <1>3, CheckStopPreserves, PopPreserves, TakePreserves, PublishPreserves,
         TestStopPreserves, OnAPCPreserves, FinishPreserves, ClearCurrentPreserves,
         ForgetPreserves, WaitPreserves DEF Work
<1>4. ASSUME NEW w \in Workers, Interrupt(w) PROVE IInv'
      BY <1>4, InterruptPreserves
<1>5. ASSUME NEW x \in Cancellers, NEW i \in Items, CancelStart(x, i) PROVE IInv'
      BY <1>5, CancelStartPreserves
<1>6. ASSUME NEW x \in Cancellers, CancelStep(x) PROVE IInv'
      BY <1>6, CancelStopPreserves, CancelReadPreserves, CancelMarkPreserves,
         CancelApcPreserves, CancelDonePreserves DEF CancelStep
<1>7. CASE Shutdown BY <1>7, ShutdownPreserves
<1>8. CASE Gone BY <1>8, GonePreserves
<1>9. CASE UNCHANGED vars BY <1>9, StutterPreserves
<1>10. QED BY <1>1, <1>2, <1>3, <1>4, <1>5, <1>6, <1>7, <1>8, <1>9 DEF Next

(* The inductive invariant holds for any number of threads and items.      *)
THEOREM InductiveInvariant == Spec => []IInv
BY InitHolds, StepPreserves, PTL DEF Spec

(* Type correctness of the thread pool.                                    *)
THEOREM TypeCorrect == Spec => []TypeOK
<1>1. IInv => TypeOK BY DEF IInv
<1>2. QED BY <1>1, InductiveInvariant, PTL

(* However many pool threads there are and however late each of them goes  *)
(* to sleep, no item waits for a thread that nothing will wake.            *)
THEOREM NothingIsStranded == Spec => []NoStrandedItem
<1>1. IInv => NoStrandedItem BY DEF IInv, SomebodyLooks, NoStrandedItem
<1>2. QED BY <1>1, InductiveInvariant, PTL

(* However many threads cancel, OnAPC() reaches no item that was not       *)
(* cancelled itself.                                                       *)
THEOREM OnlyTheCancelled == Spec => []OnlyCancelledAreTold
<1>1. IInv => OnlyCancelledAreTold BY DEF IInv, Told, OnlyCancelledAreTold
<1>2. QED BY <1>1, InductiveInvariant, PTL

(* An application that creates the pool before the threads that use it     *)
(* never fails the ASSERT of the constructor.                              *)
THEOREM SingletonWhenCreatedFirst ==
  ASSUME StartsUp
  PROVE  Spec => []PoolIsSingleton
<1>1. IInv => PoolIsSingleton BY DEF IInv, ConstructedOnce, PoolIsSingleton
<1>2. QED BY <1>1, InductiveInvariant, PTL

-----------------------------------------------------------------------------
(* Cancel() with a single canceller.                                       *)

LEMMA CancelStepPreserves ==
  ASSUME IInv, IInv', CancelInv, SingleCanceller, Next
  PROVE  CancelInv'
<1> USE ThreadPoolAssumption, Roles DEF CancelInv
<1>1. ASSUME NEW c \in Callers, NEW i \in Items, Ensure(c, i) PROVE CancelInv'
  <2>1. CancelIsNotMissed' BY <1>1 DEF Goto, Ensure, CancelIsNotMissed, cancelVars
  <2>2. Cancelling' BY <1>1 DEF Goto, Ensure, Cancelling, Covered, workVars, cancelVars
  <2>3. QED BY <2>1, <2>2
<1>2. ASSUME NEW c \in Callers, Construct(c) PROVE CancelInv'
  <2>1. CancelIsNotMissed' BY <1>2 DEF Construct, CancelIsNotMissed, Threads, cancelVars
  <2>2. Cancelling' BY <1>2 DEF Construct, Cancelling, Covered, Threads, workVars, cancelVars
  <2>3. QED BY <2>1, <2>2
<1>3. ASSUME NEW c \in Callers, Push(c) PROVE CancelInv'
  <2>1. CancelIsNotMissed' BY <1>3 DEF Goto, Push, CancelIsNotMissed, cancelVars
  <2>2. Cancelling' BY <1>3 DEF Goto, Push, Cancelling, Covered, workVars, cancelVars
  <2>3. QED BY <2>1, <2>2
<1>4. ASSUME NEW w \in Workers, CheckStop(w) PROVE CancelInv'
  <2>1. CancelIsNotMissed' BY <1>4 DEF Goto, CheckStop, CancelIsNotMissed, cancelVars
  <2>2. Cancelling' BY <1>4 DEF Goto, CheckStop, Cancelling, Covered, workVars, cancelVars
  <2>3. QED BY <2>1, <2>2
<1>5. ASSUME NEW w \in Workers, Pop(w) PROVE CancelInv'
  <2>1. CancelIsNotMissed' BY <1>5 DEF Goto, Pop, CancelIsNotMissed, IInv, Jobs, WorkerJobs,
        workVars, cancelVars
  <2>2. Cancelling' BY <1>5 DEF Goto, Pop, Cancelling, Covered, IInv, TypeOK, Threads,
        workVars, cancelVars
  <2>3. QED BY <2>1, <2>2
<1>6. ASSUME NEW w \in Workers, Take(w) PROVE CancelInv'
  <2>1. CancelIsNotMissed' BY <1>6 DEF Goto, Take, CancelIsNotMissed, cancelVars
  <2>2. Cancelling' BY <1>6 DEF Goto, Take, Cancelling, Covered, cancelVars
  <2>3. QED BY <2>1, <2>2
<1>7. ASSUME NEW w \in Workers, Publish(w) PROVE CancelInv'
  <2>1. CancelIsNotMissed' BY <1>7 DEF Goto, Publish, CancelIsNotMissed, cancelVars
  <2>2. Cancelling' BY <1>7 DEF Goto, Publish, Cancelling, Covered, IInv, Places, Jobs,
        CancelJobs, ExecutingIsRight, cancelVars
  <2>3. QED BY <2>1, <2>2
<1>8. ASSUME NEW w \in Workers, TestStop(w) PROVE CancelInv'
  <2>1. CancelIsNotMissed' BY <1>8 DEF Goto, TestStop, CancelIsNotMissed, IInv, Places,
        ExecutingIsRight, StopIsCancel, InWorker, cancelVars
  <2>2. Cancelling' BY <1>8 DEF Goto, TestStop, Cancelling, Covered, IInv, Places,
        ExecutingIsRight, StopIsCancel, Told, InWorker, Marked, workVars, cancelVars
  <2>3. QED BY <2>1, <2>2
<1>9. ASSUME NEW w \in Workers, OnAPC(w) PROVE CancelInv'
  <2>1. CancelIsNotMissed' BY <1>9 DEF OnAPC, CancelIsNotMissed, IInv, Jobs, WorkerJobs,
        Holding
  <2>2. Cancelling' BY <1>9 DEF OnAPC, Cancelling, Covered, IInv, Jobs, WorkerJobs, Holding,
        workVars
  <2>3. QED BY <2>1, <2>2
<1>10. ASSUME NEW w \in Workers, Finish(w) PROVE CancelInv'
  <2>1. CancelIsNotMissed' BY <1>10 DEF Goto, Finish, CancelIsNotMissed, IInv, Jobs, cancelVars
  <2>2. Cancelling' BY <1>10 DEF Goto, Finish, Cancelling, Covered, IInv, Jobs, cancelVars
  <2>3. QED BY <2>1, <2>2
<1>11. ASSUME NEW w \in Workers, ClearCurrent(w) PROVE CancelInv'
  <2>1. CancelIsNotMissed' BY <1>11 DEF Goto, ClearCurrent, CancelIsNotMissed, cancelVars
  <2>2. Cancelling' BY <1>11 DEF Goto, ClearCurrent, Cancelling, Covered, cancelVars
  <2>3. QED BY <2>1, <2>2
<1>12. ASSUME NEW w \in Workers, Forget(w) PROVE CancelInv'
  <2>1. CancelIsNotMissed' BY <1>12 DEF Goto, Forget, CancelIsNotMissed
  <2>2. Cancelling' BY <1>12 DEF Goto, Forget, Cancelling, Covered, workVars
  <2>3. QED BY <2>1, <2>2
<1>13. ASSUME NEW w \in Workers, Wait(w) PROVE CancelInv'
  <2>1. CancelIsNotMissed' BY <1>13 DEF Goto, Wait, CancelIsNotMissed, cancelVars
  <2>2. Cancelling' BY <1>13 DEF Goto, Wait, Cancelling, Covered, workVars, cancelVars
  <2>3. QED BY <2>1, <2>2
<1>14. ASSUME NEW w \in Workers, Interrupt(w) PROVE CancelInv'
  <2>1. CancelIsNotMissed' BY <1>14 DEF Interrupt, CancelIsNotMissed
  <2>2. Cancelling' BY <1>14 DEF Interrupt, Cancelling, Covered, workVars
  <2>3. QED BY <2>1, <2>2
<1>15. ASSUME NEW x \in Cancellers, NEW i \in Items, CancelStart(x, i) PROVE CancelInv'
  <2>1. CancelIsNotMissed' BY <1>15 DEF Goto, CancelStart, CancelIsNotMissed, IInv, Places,
        ExecutingIsRight, InWorker
  <2>2. Cancelling' BY <1>15 DEF Goto, CancelStart, Cancelling, IInv, Places, TypeOK,
        ExecutingIsRight, StopIsCancel, Marked, SingleCanceller, workVars
  <2>3. QED BY <2>1, <2>2
<1>16. ASSUME NEW x \in Cancellers, CancelStop(x) PROVE CancelInv'
  <2>1. CancelIsNotMissed' BY <1>16 DEF Goto, CancelStop, CancelIsNotMissed
  <2>2. Cancelling' BY <1>16 DEF Goto, CancelStop, Cancelling, SingleCanceller, workVars
  <2>3. QED BY <2>1, <2>2
<1>17. ASSUME NEW x \in Cancellers, CancelRead(x) PROVE CancelInv'
  <2>1. CancelIsNotMissed' BY <1>17 DEF Goto, CancelRead, CancelIsNotMissed
  <2>2. Cancelling' BY <1>17 DEF Goto, CancelRead, Cancelling, Covered, IInv, Places, TypeOK,
        ExecutingIsRight, workVars
  <2>3. QED BY <2>1, <2>2
<1>18. ASSUME NEW x \in Cancellers, CancelMark(x) PROVE CancelInv'
  <2>1. CancelIsNotMissed' BY <1>18 DEF Goto, CancelMark, CancelIsNotMissed, Cancelling
  <2>2. Cancelling' BY <1>18 DEF Goto, CancelMark, Cancelling, IInv, Places, TypeOK,
        ExecutingIsRight, SingleCanceller, workVars
  <2>3. QED BY <2>1, <2>2
<1>19. ASSUME NEW x \in Cancellers, CancelApc(x) PROVE CancelInv'
  <2>1. CancelIsNotMissed' BY <1>19 DEF Goto, CancelApc, CancelIsNotMissed
  <2>2. Cancelling' BY <1>19 DEF Goto, CancelApc, Cancelling, Covered, IInv, Places,
        ExecutingIsRight, workVars
  <2>3. QED BY <2>1, <2>2
<1>20. ASSUME NEW x \in Cancellers, CancelDone(x) PROVE CancelInv'
  <2>1. CancelIsNotMissed' BY <1>20 DEF Goto, CancelDone, CancelIsNotMissed, Cancelling,
        Covered
  <2>2. Cancelling' BY <1>20 DEF CancelDone, Cancelling, IInv, TypeOK, Jobs, CancelJobs,
        SingleCanceller
  <2>3. QED BY <2>1, <2>2
<1>21. ASSUME Shutdown PROVE CancelInv'
  <2>1. CancelIsNotMissed' BY <1>21 DEF Shutdown, CancelIsNotMissed, cancelVars
  <2>2. Cancelling' BY <1>21 DEF Shutdown, Cancelling, Covered, workVars, cancelVars
  <2>3. QED BY <2>1, <2>2
<1>22. ASSUME Gone PROVE CancelInv'
  <2>1. CancelIsNotMissed' BY <1>22 DEF Gone, CancelIsNotMissed
  <2>2. Cancelling' BY <1>22 DEF Gone, Cancelling, Covered, workVars, cancelVars
  <2>3. QED BY <2>1, <2>2
<1>23. QED
      BY <1>1, <1>2, <1>3, <1>4, <1>5, <1>6, <1>7, <1>8, <1>9, <1>10, <1>11, <1>12,
         <1>13, <1>14, <1>15, <1>16, <1>17, <1>18, <1>19, <1>20, <1>21, <1>22
      DEF Next, Work, CancelStep

(* With a single canceller Cancel() is never missed: whoever executes an   *)
(* item when its Cancel() has returned was told, or its APC is queued.     *)
THEOREM CancellationTheorem ==
  ASSUME SingleCanceller
  PROVE  Spec => []CancelIsNotMissed
<1>1. Init => CancelInv
  <2> SUFFICES ASSUME Init PROVE CancelInv
      OBVIOUS
  <2>1. CancelIsNotMissed BY DEF Init, CancelIsNotMissed
  <2>2. Cancelling BY ThreadPoolAssumption DEF Init, Cancelling, Threads
  <2>3. QED BY <2>1, <2>2 DEF CancelInv
<1>2. IInv /\ IInv' /\ CancelInv /\ [Next]_vars => CancelInv'
  <2> SUFFICES ASSUME IInv, IInv', CancelInv, [Next]_vars PROVE CancelInv'
      OBVIOUS
  <2>1. CASE Next BY <2>1, CancelStepPreserves
  <2>2. CASE UNCHANGED vars
        BY <2>2 DEF vars, poolVars, queueVars, workVars, cancelVars,
           CancelInv, CancelIsNotMissed, Cancelling, Covered
  <2>3. QED BY <2>1, <2>2
<1>3. CancelInv => CancelIsNotMissed BY DEF CancelInv
<1>4. QED BY <1>1, <1>2, <1>3, InductiveInvariant, PTL DEF Spec

-----------------------------------------------------------------------------
(* The pool implements WorkQueue.                                          *)

(* A step that leaves the queue, the cancellations and the items of the    *)
(* workers as they are is none of the queue's.                             *)
LEMMA NoStageMoves ==
  ASSUME UNCHANGED <<queue, itemStop, executing, finished>>,
         \A w \in Workers : job'[w] = job[w] /\ (pc'[w] = "execute" <=> pc[w] = "execute")
  PROVE  UNCHANGED Abstract!vars
<1>1. \A i \in Items : Stage(i)' = Stage(i) BY DEF Stage
<1>2. QED BY <1>1 DEF Abstract!vars

(* An item stays where it is if no worker takes it, lets go of it or goes  *)
(* on with it.                                                             *)
LEMMA StageStays ==
  ASSUME NEW j \in Items, executing'[j] = executing[j], j \in finished' <=> j \in finished,
         \A v \in Workers : (job'[v] = j <=> job[v] = j) /\ (job[v] = j => pc'[v] = pc[v])
  PROVE  Stage(j)' = Stage(j)
BY DEF Stage

(* A step at which the worker's item alone goes on.                        *)
LEMMA OneStageMoves ==
  ASSUME NEW i \in Items, NEW from, NEW to, Stage(i) = from, Stage(i)' = to,
         \A j \in Items \ {i} : Stage(j)' = Stage(j)
  PROVE  Abstract!Moves(i, from, to)
BY DEF Abstract!Moves

(* QueueUserWorkItem() of an item that is nowhere yet.                     *)
LEMMA PushImplements ==
  ASSUME IInv, NEW c \in Callers, Push(c)
  PROVE  Abstract!Next
<1> PICK i \in Items : i = job[c]
    BY DEF IInv, Jobs, CallerJobs, Push, Goto
<1>1. i = job[c] /\ InCaller(i)
      BY DEF IInv, Jobs, CallerJobs, Push, Goto, InCaller
<1>2. ~InQueue(i) /\ ~InWorker(i) /\ executing[i] = None /\ i \notin finished
      BY <1>1 DEF IInv, Places, OnePlace, ExecutingIsRight
<1>3. Stage(i) = "new" BY <1>2 DEF Stage, InWorker
<1>4. \A w \in Workers : job'[w] = job[w] /\ pc'[w] = pc[w]
      BY <1>1, ThreadPoolAssumption DEF IInv, TypeOK, Jobs, Push, Goto, Threads
<1>5. \A j \in Items : Stage(j)' = Stage(j)
      BY <1>4 DEF Stage, Push, workVars
<1>6. Abstract!Submit(i)
      BY <1>1, <1>2, <1>3, <1>5 DEF Abstract!Submit, InQueue, Push, cancelVars
<1>7. QED BY <1>1, <1>6 DEF Abstract!Next

(* An empty queue moves nothing, and a popped item waits no more.          *)
LEMMA PopImplements ==
  ASSUME IInv, NEW w \in Workers, Pop(w)
  PROVE  [Abstract!Next]_Abstract!vars
<1> USE DEF IInv, TypeOK
<1>1. /\ pc[w] = "pop" /\ w \in Threads /\ job[w] = None
      BY DEF Pop, Goto, Threads, Jobs, WorkerJobs, Holding
<1>2. CASE queue = <<>>
  <2>1. \A v \in Workers : job'[v] = job[v] /\ (pc'[v] = "execute" <=> pc[v] = "execute")
        BY <1>1, <1>2 DEF Pop, Goto, Jobs
  <2>2. QED BY <2>1, <1>2, NoStageMoves DEF Pop, workVars, cancelVars
<1>3. CASE queue # <<>>
  <2> PICK i \in Items : i = Head(queue) BY <1>3
  <2>1. /\ i = Head(queue) /\ InQueue(i) /\ queue' = Tail(queue)
        /\ \A v \in Workers : job'[v] = IF v = w THEN i ELSE job[v]
        /\ \A v \in Workers : pc'[v] = IF v = w THEN "take" ELSE pc[v]
    <3>1. i = Head(queue) /\ 1 \in DOMAIN queue /\ queue[1] = i BY <1>3
    <3>2. QED BY <1>1, <1>3, <3>1 DEF InQueue, Pop, Goto, Jobs, Threads
  <2>2. ~InWorker(i) /\ executing[i] = None /\ i \notin finished
        BY <2>1 DEF Places, OnePlace, ExecutingIsRight
  <2>3. UNCHANGED <<finished, executing, itemStop>>
        BY DEF Pop, workVars, cancelVars
  <2>4. Stage(i) = "new" BY <2>2 DEF Stage, InWorker
  <2>5. Stage(i)' = "taken"
    <3>1. job'[w] = i BY <2>1
    <3>2. ~\E v \in Workers : job'[v] = i /\ pc'[v] = "execute"
          BY <2>1, <2>2 DEF InWorker
    <3>3. QED BY <2>2, <2>3, <3>1, <3>2 DEF Stage
  <2>6. ASSUME NEW j \in Items \ {i} PROVE Stage(j)' = Stage(j)
    <3>1. \A v \in Workers : (job'[v] = j <=> job[v] = j) /\ (job[v] = j => pc'[v] = pc[v])
          BY <1>1, <2>1, ThreadPoolAssumption
    <3>2. QED BY <2>3, <3>1, StageStays
  <2>7. Abstract!Take(i)
        BY <1>3, <2>1, <2>3, <2>4, <2>5, <2>6, OneStageMoves DEF Abstract!Take
  <2>8. QED BY <2>1, <2>7 DEF Abstract!Next
<1>4. QED BY <1>2, <1>3

(* The test of m_bStop decides whether the item begins.                    *)
LEMMA TestStopImplements ==
  ASSUME IInv, NEW w \in Workers, TestStop(w)
  PROVE  Abstract!Next
<1> USE DEF IInv, TypeOK
<1> PICK i \in Items : i = job[w]
    BY ThreadPoolAssumption DEF TestStop, Goto, Jobs, WorkerJobs, Holding
<1>1. /\ pc[w] = "testStop" /\ w \in Threads /\ i = job[w] /\ executing[i] = w
      /\ \A v \in Workers : job[v] = i => v = w
      BY DEF TestStop, Goto, Threads, Jobs, WorkerJobs, Holding, Places, OnePlace, ExecutingIsRight
<1>2. i \notin finished BY <1>1 DEF Places, ExecutingIsRight, InWorker
<1>3. UNCHANGED <<queue, finished, executing, itemStop>>
      BY DEF TestStop, queueVars, workVars, cancelVars
<1>4. Stage(i) = "taken" BY <1>1, <1>2 DEF Stage
<1>5. /\ \A v \in Workers : job'[v] = IF v = w /\ i \in itemStop THEN None ELSE job[v]
      /\ \A v \in Workers : pc'[v] = IF v = w THEN (IF i \in itemStop THEN "top" ELSE "execute")
                                             ELSE pc[v]
      BY <1>1 DEF TestStop, Goto, Jobs, Threads
<1>6. ASSUME NEW j \in Items \ {i} PROVE Stage(j)' = Stage(j)
  <2>1. \A v \in Workers : (job'[v] = j <=> job[v] = j) /\ (job[v] = j => pc'[v] = pc[v])
        BY <1>1, <1>5, ThreadPoolAssumption
  <2>2. QED BY <1>3, <2>1, StageStays
<1>7. CASE i \in itemStop
  <2>1. ~\E v \in Workers : job'[v] = i BY <1>1, <1>5, <1>7, ThreadPoolAssumption
  <2>2. Stage(i)' = "dropped" BY <1>1, <1>2, <1>3, <2>1, ThreadPoolAssumption DEF Stage
  <2>3. Abstract!Drop(i) BY <1>1, <1>3, <1>4, <1>6, <1>7, <2>2, OneStageMoves DEF Abstract!Drop
  <2>4. QED BY <1>1, <2>3 DEF Abstract!Next
<1>8. CASE i \notin itemStop
  <2>1. Stage(i)' = "runs" BY <1>1, <1>2, <1>3, <1>5, <1>8 DEF Stage
  <2>2. Abstract!Begin(i) BY <1>1, <1>3, <1>4, <1>6, <1>8, <2>1, OneStageMoves DEF Abstract!Begin
  <2>3. QED BY <1>1, <2>2 DEF Abstract!Next
<1>9. QED BY <1>7, <1>8

(* The item ends, and ends once.                                           *)
LEMMA FinishImplements ==
  ASSUME IInv, NEW w \in Workers, Finish(w)
  PROVE  Abstract!Next
<1> USE DEF IInv, TypeOK
<1> PICK i \in Items : i = job[w]
    BY ThreadPoolAssumption DEF Finish, Goto, Jobs, WorkerJobs, Holding
<1>1. /\ pc[w] = "execute" /\ w \in Threads /\ i = job[w]
      /\ \A v \in Workers : job[v] = i => v = w
      BY DEF Finish, Goto, Threads, Jobs, WorkerJobs, Holding, Places, OnePlace
<1>2. i \notin finished BY <1>1 DEF Places, ExecutingIsRight, InWorker
<1>3. UNCHANGED <<queue, executing, itemStop>> /\ finished' = finished \cup {i}
      BY DEF Finish, queueVars, cancelVars
<1>4. Stage(i) = "runs" /\ Stage(i)' = "ended" BY <1>1, <1>2, <1>3 DEF Stage
<1>5. /\ \A v \in Workers : job'[v] = IF v = w THEN None ELSE job[v]
      /\ \A v \in Workers : v # w => pc'[v] = pc[v]
      BY <1>1 DEF Finish, Goto, Jobs, Threads
<1>6. ASSUME NEW j \in Items \ {i} PROVE Stage(j)' = Stage(j)
  <2>1. \A v \in Workers : (job'[v] = j <=> job[v] = j) /\ (job[v] = j => pc'[v] = pc[v])
        BY <1>1, <1>5, ThreadPoolAssumption
  <2>2. QED BY <1>3, <2>1, StageStays
<1>7. Abstract!End(i) BY <1>1, <1>3, <1>4, <1>6, OneStageMoves DEF Abstract!End
<1>8. QED BY <1>1, <1>7 DEF Abstract!Next

(* ExecutingThread is set while the worker has the item in hand.           *)
LEMMA PublishImplements ==
  ASSUME IInv, NEW w \in Workers, Publish(w)
  PROVE  UNCHANGED Abstract!vars
<1> USE DEF IInv, TypeOK
<1> PICK i \in Items : i = job[w]
    BY ThreadPoolAssumption DEF Publish, Goto, Jobs, WorkerJobs, Holding
<1>1. pc[w] = "publish" /\ w \in Threads /\ i = job[w]
      BY DEF Publish, Goto, Threads, Jobs, WorkerJobs, Holding
<1>2. UNCHANGED <<queue, finished, itemStop, job>>
      BY DEF Publish, queueVars, cancelVars
<1>3. \A v \in Workers : pc'[v] = "execute" <=> pc[v] = "execute"
      BY <1>1 DEF Publish, Goto, Jobs
<1>4. \A j \in Items : j # i => executing'[j] = executing[j]
      BY <1>1 DEF Publish
<1>5. ASSUME NEW j \in Items PROVE Stage(j)' = Stage(j)
  <2>1. CASE j = i BY <1>1, <1>2, <1>3, <2>1 DEF Stage
  <2>2. CASE j # i BY <1>2, <1>3, <1>4, <2>2 DEF Stage
  <2>3. QED BY <2>1, <2>2
<1>6. QED BY <1>2, <1>5 DEF Abstract!vars

(* The other steps of a worker.                                            *)
LEMMA WorkImplements ==
  ASSUME IInv, NEW w \in Workers, Work(w) \/ Interrupt(w)
  PROVE  [Abstract!Next]_Abstract!vars
<1> USE DEF IInv, TypeOK, Jobs, Goto, poolVars, queueVars, workVars, cancelVars
<1>1. CASE \/ CheckStop(w) \/ Take(w) \/ ClearCurrent(w) \/ OnAPC(w) \/ Forget(w) \/ Wait(w)
           \/ Interrupt(w)
  <2>1. \A v \in Workers : job'[v] = job[v] /\ (pc'[v] = "execute" <=> pc[v] = "execute")
        BY <1>1, ThreadPoolAssumption
           DEF Threads, CheckStop, Take, ClearCurrent, OnAPC, Forget, Wait, Interrupt
  <2>2. UNCHANGED <<queue, itemStop, executing, finished>>
        BY <1>1 DEF CheckStop, Take, ClearCurrent, OnAPC, Forget, Wait, Interrupt
  <2>3. QED BY <2>1, <2>2, NoStageMoves
<1>2. CASE Pop(w) BY <1>2, PopImplements
<1>3. CASE Publish(w) BY <1>3, PublishImplements
<1>4. CASE TestStop(w) BY <1>4, TestStopImplements
<1>5. CASE Finish(w) BY <1>5, FinishImplements
<1>6. QED BY <1>1, <1>2, <1>3, <1>4, <1>5 DEF Work

(* CancelStop() is the moment of a cancellation.                           *)
LEMMA CancelImplements ==
  ASSUME IInv, NEW x \in Cancellers, (\E i \in Items : CancelStart(x, i)) \/ CancelStep(x)
  PROVE  [Abstract!Next]_Abstract!vars
<1> USE DEF IInv, TypeOK, Jobs, Goto, poolVars, queueVars, workVars, cancelVars
<1>1. CASE CancelStop(x)
  <2>1. job[x] \in Items BY <1>1 DEF CancelStop, CancelJobs
  <2>2. \A w \in Workers : job'[w] = job[w] /\ pc'[w] = pc[w]
        BY <1>1, ThreadPoolAssumption DEF Threads, CancelStop
  <2>3. \A i \in Items : Stage(i)' = Stage(i) BY <1>1, <2>2 DEF CancelStop, Stage
  <2>4. Abstract!Cancel(job[x]) BY <1>1, <2>3 DEF CancelStop, Abstract!Cancel
  <2>5. QED BY <2>1, <2>4 DEF Abstract!Next
<1>2. CASE \/ \E i \in Items : CancelStart(x, i)
           \/ CancelRead(x) \/ CancelMark(x) \/ CancelApc(x) \/ CancelDone(x)
  <2>1. /\ \A w \in Workers : job'[w] = job[w] /\ pc'[w] = pc[w]
        /\ UNCHANGED <<queue, itemStop, executing, finished>>
        BY <1>2, ThreadPoolAssumption
           DEF Threads, CancelStart, CancelRead, CancelMark, CancelApc, CancelDone
  <2>2. QED BY <2>1, NoStageMoves
<1>3. QED BY <1>1, <1>2 DEF CancelStep

LEMMA StepImplements == IInv /\ [Next]_vars => [Abstract!Next]_Abstract!vars
<1> SUFFICES ASSUME IInv, [Next]_vars PROVE [Abstract!Next]_Abstract!vars
    OBVIOUS
<1> USE DEF poolVars, queueVars, workVars, cancelVars
<1>1. ASSUME NEW c \in Callers, (\E i \in Items : Ensure(c, i)) \/ Construct(c) \/ Push(c)
      PROVE  [Abstract!Next]_Abstract!vars
  <2>1. CASE Push(c) BY <2>1, PushImplements
  <2>2. CASE (\E i \in Items : Ensure(c, i)) \/ Construct(c)
    <3>1. /\ \A w \in Workers : job'[w] = job[w] /\ (pc'[w] = "execute" <=> pc[w] = "execute")
          /\ UNCHANGED <<queue, itemStop, executing, finished>>
          BY <2>2, ThreadPoolAssumption DEF Ensure, Construct, Goto, IInv, TypeOK, Jobs, Threads
    <3>2. QED BY <3>1, NoStageMoves
  <2>3. QED BY <1>1, <2>1, <2>2
<1>2. ASSUME NEW w \in Workers, Work(w) \/ Interrupt(w)
      PROVE  [Abstract!Next]_Abstract!vars
      BY <1>2, WorkImplements
<1>3. ASSUME NEW x \in Cancellers, (\E i \in Items : CancelStart(x, i)) \/ CancelStep(x)
      PROVE  [Abstract!Next]_Abstract!vars
      BY <1>3, CancelImplements
<1>4. CASE Shutdown \/ Gone \/ UNCHANGED vars
      BY <1>4, NoStageMoves DEF Shutdown, Gone, vars
<1>5. QED BY <1>1, <1>2, <1>3, <1>4 DEF Next

LEMMA InitImplements == Init => Abstract!Init
<1> SUFFICES ASSUME Init PROVE Abstract!Init
    OBVIOUS
<1>1. ASSUME NEW i \in Items PROVE Stage(i) = "new"
  <2>1. \A w \in Workers : job[w] # i BY ThreadPoolAssumption DEF Init, Threads
  <2>2. QED BY <2>1 DEF Init, Stage
<1>2. QED BY <1>1 DEF Init, Abstract!Init

(* The pool threads execute the items as one queue would, for any number   *)
(* of them and of callers and cancellers: each item once, in their order,  *)
(* and none that was cancelled before it begins.                           *)
THEOREM QueueTheorem == Spec => ImplementsWorkQueue
<1>1. QED
      BY InitHolds, StepPreserves, InitImplements, StepImplements, PTL
      DEF Spec, ImplementsWorkQueue, Abstract!Spec
=============================================================================
