-------------------------- MODULE SharedMutexProofs --------------------------
(***************************************************************************)
(* Proofs about SharedMutex for any finite set of threads.                 *)
(***************************************************************************)
EXTENDS SharedMutex, FiniteSetTheorems, TLAPS

\* The counted readers are finitely many.
LEMMA CountedFinite ==
  ASSUME TypeOK
  PROVE  /\ IsFiniteSet(Counted) /\ Cardinality(Counted) \in Nat
         /\ Cardinality(Counted) = 0 <=> Counted = {}
<1>1. Counted \subseteq Threads BY DEF Counted
<1>2. QED BY <1>1, FS_Subset, FS_CardinalityType, FS_EmptySet, SharedMutexAssumption

\* A step that leaves the counted readers and the counter alone keeps the
\* counter exact.
LEMMA SameCount ==
  ASSUME CountIsExact, Counted' = Counted, activeReaders' = activeReaders
  PROVE  CountIsExact'
BY DEF CountIsExact

\* A thread enters lock(): it is blocked on the mutex and nothing shared changes.
LEMMA LockPreserves ==
  ASSUME IInv, NEW t \in Threads, Lock(t)
  PROVE  IInv'
<1> USE SharedMutexAssumption DEF IInv, Lock, Goto
<1>1. TypeOK' BY DEF TypeOK
<1>2. MutexOwner' BY DEF MutexOwner, Holding, TypeOK
<1>3. Counted' = Counted BY DEF Counted, TypeOK
<1>4. CountIsExact' BY <1>3, SameCount
<1>5. NoLostWakeup' BY <1>3 DEF NoLostWakeup, Counted, TypeOK
<1>6. EventTellsTruth'
  BY <1>3 DEF EventTellsTruth, Counted, Writers, MutexOwner, Holding, TypeOK
<1>7. QED BY <1>1, <1>2, <1>4, <1>5, <1>6

\* The writer has the mutex: nobody else is between its lock and unlock.
LEMMA LockMutexPreserves ==
  ASSUME IInv, NEW t \in Threads, LockMutex(t)
  PROVE  IInv'
<1> USE SharedMutexAssumption DEF IInv, LockMutex, Acquire, Goto
<1>1. TypeOK' BY DEF TypeOK
<1>2. MutexOwner' BY DEF MutexOwner, Holding, TypeOK
<1>3. Counted' = Counted BY DEF Counted, TypeOK
<1>4. CountIsExact' BY <1>3, SameCount
<1>5. NoLostWakeup' BY <1>3 DEF NoLostWakeup, Counted, TypeOK
<1>6. EventTellsTruth'
  BY <1>3 DEF EventTellsTruth, Counted, Writers, MutexOwner, Holding, TypeOK
<1>7. QED BY <1>1, <1>2, <1>4, <1>5, <1>6

\* try_lock() takes the free mutex or changes nothing.
LEMMA TryLockPreserves ==
  ASSUME IInv, NEW t \in Threads, TryLock(t)
  PROVE  IInv'
<1> USE SharedMutexAssumption DEF IInv, TryLock, Acquire, Goto
<1>1. TypeOK' BY DEF TypeOK
<1>2. MutexOwner' BY DEF MutexOwner, Holding, TypeOK
<1>3. Counted' = Counted BY DEF Counted, TypeOK
<1>4. CountIsExact' BY <1>3, SameCount
<1>5. NoLostWakeup' BY <1>3 DEF NoLostWakeup, Counted, TypeOK
<1>6. EventTellsTruth'
  BY <1>3 DEF EventTellsTruth, Counted, Writers, MutexOwner, Holding, TypeOK
<1>7. QED BY <1>1, <1>2, <1>4, <1>5, <1>6

\* The event is set, so the writer that passes it is alone.
LEMMA WaitNoReadsPreserves ==
  ASSUME IInv, NEW t \in Threads, WaitNoReads(t)
  PROVE  IInv'
<1> USE SharedMutexAssumption DEF IInv, WaitNoReads, Goto
<1>1. TypeOK' BY DEF TypeOK
<1>2. MutexOwner' BY DEF MutexOwner, Holding, TypeOK
<1>3. Counted' = Counted BY DEF Counted, TypeOK
<1>4. CountIsExact' BY <1>3, SameCount
<1>5. NoLostWakeup' BY <1>3 DEF NoLostWakeup, Counted, TypeOK
<1>6. EventTellsTruth'
  BY <1>3 DEF EventTellsTruth, Counted, Writers, MutexOwner, Holding, TypeOK
<1>7. QED BY <1>1, <1>2, <1>4, <1>5, <1>6

\* The writer gives the mutex back.
LEMMA UnlockPreserves ==
  ASSUME IInv, NEW t \in Threads, Unlock(t)
  PROVE  IInv'
<1> USE SharedMutexAssumption DEF IInv, Unlock, Goto
<1>1. TypeOK' BY DEF TypeOK
<1>2. MutexOwner' BY DEF MutexOwner, Holding, TypeOK
<1>3. Counted' = Counted BY DEF Counted, TypeOK
<1>4. CountIsExact' BY <1>3, SameCount
<1>5. NoLostWakeup' BY <1>3 DEF NoLostWakeup, Counted, TypeOK
<1>6. EventTellsTruth'
  BY <1>3 DEF EventTellsTruth, Counted, Writers, MutexOwner, Holding, TypeOK
<1>7. QED BY <1>1, <1>2, <1>4, <1>5, <1>6

\* A thread enters lock_shared(): nothing shared changes.
LEMMA LockSharedPreserves ==
  ASSUME IInv, NEW t \in Threads, LockShared(t)
  PROVE  IInv'
<1> USE SharedMutexAssumption DEF IInv, LockShared, Goto
<1>1. TypeOK' BY DEF TypeOK
<1>2. MutexOwner' BY DEF MutexOwner, Holding, TypeOK
<1>3. Counted' = Counted BY DEF Counted, TypeOK
<1>4. CountIsExact' BY <1>3, SameCount
<1>5. NoLostWakeup' BY <1>3 DEF NoLostWakeup, Counted, TypeOK
<1>6. EventTellsTruth'
  BY <1>3 DEF EventTellsTruth, Counted, Writers, MutexOwner, Holding, TypeOK
<1>7. QED BY <1>1, <1>2, <1>4, <1>5, <1>6

\* The reader has the mutex: no writer is inside.
LEMMA LockSharedMutexPreserves ==
  ASSUME IInv, NEW t \in Threads, LockSharedMutex(t)
  PROVE  IInv'
<1> USE SharedMutexAssumption DEF IInv, LockSharedMutex, Acquire, Goto
<1>1. TypeOK' BY DEF TypeOK
<1>2. MutexOwner' BY DEF MutexOwner, Holding, TypeOK
<1>3. Counted' = Counted BY DEF Counted, TypeOK
<1>4. CountIsExact' BY <1>3, SameCount
<1>5. NoLostWakeup' BY <1>3 DEF NoLostWakeup, Counted, TypeOK
<1>6. EventTellsTruth'
  BY <1>3 DEF EventTellsTruth, Counted, Writers, MutexOwner, Holding, TypeOK
<1>7. QED BY <1>1, <1>2, <1>4, <1>5, <1>6

\* try_lock_shared() takes the free mutex or changes nothing.
LEMMA TryLockSharedPreserves ==
  ASSUME IInv, NEW t \in Threads, TryLockShared(t)
  PROVE  IInv'
<1> USE SharedMutexAssumption DEF IInv, TryLockShared, Acquire, Goto
<1>1. TypeOK' BY DEF TypeOK
<1>2. MutexOwner' BY DEF MutexOwner, Holding, TypeOK
<1>3. Counted' = Counted BY DEF Counted, TypeOK
<1>4. CountIsExact' BY <1>3, SameCount
<1>5. NoLostWakeup' BY <1>3 DEF NoLostWakeup, Counted, TypeOK
<1>6. EventTellsTruth'
  BY <1>3 DEF EventTellsTruth, Counted, Writers, MutexOwner, Holding, TypeOK
<1>7. QED BY <1>1, <1>2, <1>4, <1>5, <1>6

\* The first reader resets the event with the mutex held.
LEMMA ResetEventPreserves ==
  ASSUME IInv, NEW t \in Threads, ResetEvent(t)
  PROVE  IInv'
<1> USE SharedMutexAssumption DEF IInv, ResetEvent, Goto
<1>1. TypeOK' BY DEF TypeOK
<1>2. MutexOwner' BY DEF MutexOwner, Holding, TypeOK
<1>3. Counted' = Counted BY DEF Counted, TypeOK
<1>4. CountIsExact' BY <1>3, SameCount
<1>5. NoLostWakeup' BY <1>3 DEF NoLostWakeup, Counted, TypeOK
<1>6. EventTellsTruth'
  BY <1>3 DEF EventTellsTruth, Counted, Writers, MutexOwner, Holding, TypeOK
<1>7. QED BY <1>1, <1>2, <1>4, <1>5, <1>6

\* The counted reader gives the mutex back.
LEMMA UnlockMutexPreserves ==
  ASSUME IInv, NEW t \in Threads, UnlockMutex(t)
  PROVE  IInv'
<1> USE SharedMutexAssumption DEF IInv, UnlockMutex, Goto
<1>1. TypeOK' BY DEF TypeOK
<1>2. MutexOwner' BY DEF MutexOwner, Holding, TypeOK
<1>3. Counted' = Counted BY DEF Counted, TypeOK
<1>4. CountIsExact' BY <1>3, SameCount
<1>5. NoLostWakeup' BY <1>3 DEF NoLostWakeup, Counted, TypeOK
<1>6. EventTellsTruth'
  BY <1>3 DEF EventTellsTruth, Counted, Writers, MutexOwner, Holding, TypeOK
<1>7. QED BY <1>1, <1>2, <1>4, <1>5, <1>6

\* The Set() of the last reader that left.
LEMMA SetEventPreserves ==
  ASSUME IInv, NEW t \in Threads, SetEvent(t)
  PROVE  IInv'
<1> USE SharedMutexAssumption DEF IInv, SetEvent, Goto
<1>1. TypeOK' BY DEF TypeOK
<1>2. MutexOwner' BY DEF MutexOwner, Holding, TypeOK
<1>3. Counted' = Counted BY DEF Counted, TypeOK
<1>4. CountIsExact' BY <1>3, SameCount
<1>5. NoLostWakeup' BY <1>3 DEF NoLostWakeup, Counted, TypeOK
<1>6. EventTellsTruth'
  BY <1>3 DEF EventTellsTruth, Counted, Writers, MutexOwner, Holding, TypeOK
<1>7. QED BY <1>1, <1>2, <1>4, <1>5, <1>6

\* A reader counts itself in while it holds the mutex.
LEMMA CountInPreserves ==
  ASSUME IInv, NEW t \in Threads, CountIn(t)
  PROVE  IInv'
<1> USE SharedMutexAssumption DEF IInv, CountIn, Goto
<1>1. TypeOK' BY DEF TypeOK
<1>2. MutexOwner' BY DEF MutexOwner, Holding, TypeOK
<1>3. t \notin Counted /\ Counted' = Counted \cup {t} BY DEF Counted, TypeOK
<1>4. CountIsExact'
  BY <1>3, CountedFinite, FS_AddElement DEF CountIsExact
<1>5. NoLostWakeup' BY <1>3 DEF NoLostWakeup
<1>6. EventTellsTruth'
  <2>1. activeReaders = 0 <=> Counted = {} BY CountedFinite DEF CountIsExact
  <2>2. QED
    BY <1>3, <2>1 DEF EventTellsTruth, Counted, Writers, MutexOwner, Holding, TypeOK
<1>7. QED BY <1>1, <1>2, <1>4, <1>5, <1>6

\* A reader counts itself out; the last one is left with the Set() to do.
LEMMA CountOutPreserves ==
  ASSUME IInv, NEW t \in Threads, CountOut(t)
  PROVE  IInv'
<1> USE SharedMutexAssumption DEF IInv, CountOut, Goto
<1>1. t \in Counted /\ Counted' = Counted \ {t} BY DEF Counted, TypeOK
<1>2. /\ Cardinality(Counted') = Cardinality(Counted) - 1
      /\ Cardinality(Counted) # 0
      /\ Cardinality(Counted') = 0 <=> Counted' = {}
  <2>1. Cardinality(Counted') = Cardinality(Counted) - 1 /\ IsFiniteSet(Counted')
    BY <1>1, CountedFinite, FS_RemoveElement
  <2>2. Cardinality(Counted') = 0 <=> Counted' = {} BY <2>1, FS_EmptySet
  <2>3. QED BY <1>1, <2>1, <2>2, CountedFinite
<1>3. TypeOK' BY <1>2, CountedFinite DEF TypeOK, CountIsExact
<1>4. MutexOwner' BY DEF MutexOwner, Holding, TypeOK
<1>5. CountIsExact' BY <1>2 DEF CountIsExact
<1>6. activeReaders = 1 <=> Counted' = {}
  BY <1>2, CountedFinite DEF CountIsExact
<1>7. NoLostWakeup' BY <1>6 DEF NoLostWakeup, TypeOK
<1>8. EventTellsTruth'
  BY <1>1, <1>6 DEF EventTellsTruth, Counted, Writers, TypeOK
<1>9. QED BY <1>3, <1>4, <1>5, <1>7, <1>8

\* The lock starts free, with the event set.
LEMMA InitEstablishes == Init => IInv
<1> SUFFICES ASSUME Init PROVE IInv OBVIOUS
<1>1. Counted = {} /\ Writers = {} BY DEF Init, Counted, Writers
<1>2. QED
  BY <1>1, FS_EmptySet, SharedMutexAssumption
  DEF IInv, Init, TypeOK, MutexOwner, Holding, CountIsExact, NoLostWakeup, EventTellsTruth

\* Every step preserves the inductive invariant.
LEMMA NextPreserves == IInv /\ [Next]_vars => IInv'
<1> SUFFICES ASSUME IInv, [Next]_vars PROVE IInv' OBVIOUS
<1>1. ASSUME NEW t \in Threads, Call(t) \/ Run(t) PROVE IInv'
  BY <1>1, LockPreserves, LockMutexPreserves, TryLockPreserves, WaitNoReadsPreserves,
     UnlockPreserves, LockSharedPreserves, LockSharedMutexPreserves,
     TryLockSharedPreserves, CountInPreserves, ResetEventPreserves,
     UnlockMutexPreserves, CountOutPreserves, SetEventPreserves
  DEF Call, Run
<1>2. CASE UNCHANGED vars
  BY <1>2 DEF vars, IInv, TypeOK, MutexOwner, CountIsExact, NoLostWakeup, EventTellsTruth,
     Counted, Writers
<1>3. QED BY <1>1, <1>2 DEF Next

\* Every reachable state satisfies the inductive invariant.
THEOREM InductiveInvariant == Spec => []IInv
BY InitEstablishes, NextPreserves, PTL DEF Spec

\* Type correctness; in particular m_aActiveReaders never falls below 0.
THEOREM TypeCorrect == Spec => []TypeOK
<1>1. IInv => TypeOK BY DEF IInv
<1>2. QED BY <1>1, InductiveInvariant, PTL

\* The lock excludes readers from writers as long as no lock_shared() comes
\* between the two steps of an unlock_shared(): that race is the only flaw.
THEOREM ExclusionTheorem == Spec => []ExclusiveUnlessOvertaken
<1>1. IInv => ExclusiveUnlessOvertaken
  BY DEF IInv, ExclusiveUnlessOvertaken, EventTellsTruth, Readers, Writers, Counted,
     MutexOwner, Holding
<1>2. QED BY <1>1, InductiveInvariant, PTL

\* No writer waits for an event that nobody is going to set.
THEOREM WakeupTheorem == Spec => []NoLostWakeup
<1>1. IInv => NoLostWakeup BY DEF IInv
<1>2. QED BY <1>1, InductiveInvariant, PTL

\* The threads between the beginning of lock_shared() and the end of
\* unlock_shared(), and a use of the lock with one of them at a time.
Sharing == {t \in Threads : pc[t] \in {"lockShared", "countIn", "resetEvent",
                                       "unlockMutex", "reading", "setEvent"}}
OneSharer == \A s, t \in Sharing : s = t

\* A single sharer is not overtaken: who counts itself in is no other than
\* who would have to set the event.
LEMMA SharerIsNotOvertaken == ~overtaken /\ OneSharer /\ [Next]_vars => ~overtaken'
<1> SUFFICES ASSUME ~overtaken, OneSharer, [Next]_vars PROVE ~overtaken' OBVIOUS
<1>1. ASSUME NEW t \in Threads, CountIn(t) PROVE ~overtaken'
  <2>1. t \in Sharing /\ pc[t] = "countIn" BY <1>1 DEF CountIn, Goto, Sharing
  <2>2. ASSUME NEW s \in Threads, pc[s] = "setEvent" PROVE FALSE
    <3>1. s \in Sharing BY <2>2 DEF Sharing
    <3>2. QED BY <2>1, <2>2, <3>1 DEF OneSharer
  <2>3. QED BY <1>1, <2>2 DEF CountIn
<1>2. CASE UNCHANGED overtaken BY <1>2
<1>3. QED
  BY <1>1, <1>2 DEF Next, vars, Call, Run, Lock, TryLock, LockShared, TryLockShared,
     LockMutex, WaitNoReads, Unlock, LockSharedMutex, ResetEvent, UnlockMutex, CountOut,
     SetEvent

\* What the class promises is true of a lock that at most one thread shares
\* at a time, against any number of writers.
THEOREM OneSharerTheorem == Spec /\ []OneSharer => []ReadersExcludeWriters
<1>1. Init => ~overtaken BY DEF Init
<1>2. ExclusiveUnlessOvertaken /\ ~overtaken => ReadersExcludeWriters
  BY DEF ExclusiveUnlessOvertaken, ReadersExcludeWriters
<1>3. QED BY <1>1, <1>2, SharerIsNotOvertaken, ExclusionTheorem, PTL DEF Spec
=============================================================================
