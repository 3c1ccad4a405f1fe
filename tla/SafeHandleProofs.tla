-------------------------- MODULE SafeHandleProofs --------------------------
(***************************************************************************)
(* Proofs about SafeHandle for every number of threads, handles and        *)
(* operations: one lemma per action shows that it preserves IInv, and the  *)
(* safety properties follow from IInv.                                     *)
(***************************************************************************)
EXTENDS SafeHandleInductive, FiniteSetTheorems, TLAPS

\* The count is wide enough for every thread's reference and the object's.
LEMMA RefModLarge == RefMod \in Nat /\ RefMod > 2
BY ThreadsAssumption, FS_CardinalityType

\* Entering AddRef() touches nothing shared.
LEMMA BeginAccessPreserves ==
  ASSUME NEW t \in Threads, IInv, BeginAccess(t)
  PROVE  IInv'
<1> USE ThreadsAssumption, HandlesAssumption, ContractAssumption DEF IInv
<1>1. TypeOK'
  BY DEF TypeOK, PCs, StateWord, BeginAccess, Start, Goto, shared, os
<1>2. Roles'
  BY DEF Roles, TypeOK, Threads, BeginAccess, Start, Goto, shared, os
<1>3. Frames'
  BY DEF Frames, TypeOK, Closed, Disposed, BeginAccess, Start, Goto, shared,
         os
<1>4. Opening'
  BY DEF Opening, Turn, Roles, Frames, TypeOK, Closed, Threads, BeginAccess,
         Start, Goto, shared, os
<1>5. Custody'
  BY DEF Custody, Frames, TypeOK, BeginAccess, Start, Goto, shared, os
<1>6. Lifetime'
  BY DEF Lifetime, Exclusive, TypeOK, BeginAccess, Start, Goto, shared, os
<1>7. RefHolders' = RefHolders
  BY DEF RefHolders, Frames, TypeOK, BeginAccess, Start, Goto, shared, os
<1>8. RefCountIsExact'
  BY <1>7 DEF RefCountIsExact, Closed, Disposed, BeginAccess, Start, Goto,
         shared, os
<1>9. QED BY <1>1, <1>2, <1>3, <1>4, <1>5, <1>6, <1>8

\* Entering Close() touches nothing shared.
LEMMA BeginClosePreserves ==
  ASSUME NEW t \in Threads, IInv, BeginClose(t)
  PROVE  IInv'
<1> USE ThreadsAssumption, HandlesAssumption, ContractAssumption DEF IInv
<1>1. TypeOK'
  BY DEF TypeOK, PCs, StateWord, BeginClose, Start, Goto, shared, os
<1>2. Roles'
  BY DEF Roles, TypeOK, Threads, BeginClose, Start, Goto, shared, os
<1>3. Frames'
  BY DEF Frames, TypeOK, Closed, Disposed, BeginClose, Start, Goto, shared,
         os
<1>4. Opening'
  BY DEF Opening, Turn, Roles, Frames, TypeOK, Closed, Threads, BeginClose,
         Start, Goto, shared, os
<1>5. Custody'
  BY DEF Custody, Frames, TypeOK, BeginClose, Start, Goto, shared, os
<1>6. Lifetime'
  BY DEF Lifetime, Exclusive, TypeOK, BeginClose, Start, Goto, shared, os
<1>7. RefHolders' = RefHolders
  BY DEF RefHolders, Frames, TypeOK, BeginClose, Start, Goto, shared, os
<1>8. RefCountIsExact'
  BY <1>7 DEF RefCountIsExact, Closed, Disposed, BeginClose, Start, Goto, shared,
         os
<1>9. QED BY <1>1, <1>2, <1>3, <1>4, <1>5, <1>6, <1>8

\* The load of AddRef()'s loop.
LEMMA AddRefLoadPreserves ==
  ASSUME NEW t \in Threads, IInv, AddRefLoad(t)
  PROVE  IInv'
<1> USE ThreadsAssumption, HandlesAssumption, ContractAssumption DEF IInv
<1>1. TypeOK'
  BY DEF TypeOK, PCs, StateWord, AddRefLoad, Goto, shared, os
<1>2. Roles'
  BY DEF Roles, TypeOK, Threads, AddRefLoad, Goto, shared, os
<1>3. Frames'
  BY DEF Frames, TypeOK, Closed, Disposed, AddRefLoad, Goto, shared, os
<1>4. Opening'
  BY DEF Opening, Turn, Roles, Frames, TypeOK, Closed, Threads, AddRefLoad,
         Goto, shared, os
<1>5. Custody'
  BY DEF Custody, Frames, TypeOK, AddRefLoad, Goto, shared, os
<1>6. Lifetime'
  BY DEF Lifetime, Exclusive, TypeOK, AddRefLoad, Goto, shared, os
<1>7. RefHolders' = RefHolders
  BY DEF RefHolders, Frames, TypeOK, AddRefLoad, Goto, shared, os
<1>8. RefCountIsExact'
  BY <1>7 DEF RefCountIsExact, Closed, Disposed, AddRefLoad, Goto, shared, os
<1>9. QED BY <1>1, <1>2, <1>3, <1>4, <1>5, <1>6, <1>8

\* An access without a reference converts to 0.
LEMMA GetZeroPreserves ==
  ASSUME NEW t \in Threads, IInv, GetZero(t)
  PROVE  IInv'
<1> USE ThreadsAssumption, HandlesAssumption, ContractAssumption DEF IInv
<1>1. TypeOK'
  BY DEF TypeOK, PCs, StateWord, GetZero, Goto, shared, os
<1>2. Roles'
  BY DEF Roles, TypeOK, Threads, GetZero, Goto, shared, os
<1>3. Frames'
  BY DEF Frames, TypeOK, Closed, Disposed, GetZero, Goto, shared, os
<1>4. Opening'
  BY DEF Opening, Turn, Roles, Frames, TypeOK, Closed, Threads, GetZero,
         Goto, shared, os
<1>5. Custody'
  BY DEF Custody, Frames, TypeOK, GetZero, Goto, shared, os
<1>6. Lifetime'
  BY DEF Lifetime, Exclusive, TypeOK, GetZero, Goto, shared, os
<1>7. RefHolders' = RefHolders
  BY DEF RefHolders, Frames, TypeOK, GetZero, Goto, shared, os
<1>8. RefCountIsExact'
  BY <1>7 DEF RefCountIsExact, Closed, Disposed, GetZero, Goto, shared, os
<1>9. QED BY <1>1, <1>2, <1>3, <1>4, <1>5, <1>6, <1>8

\* The test of DangerousGetHandle().
LEMMA CheckDisposedPreserves ==
  ASSUME NEW t \in Threads, IInv, CheckDisposed(t)
  PROVE  IInv'
<1> USE ThreadsAssumption, HandlesAssumption, ContractAssumption DEF IInv
<1>1. TypeOK'
  BY DEF TypeOK, PCs, StateWord, CheckDisposed, Goto, shared, os
<1>2. Roles'
  BY DEF Roles, TypeOK, Threads, CheckDisposed, Goto, shared, os
<1>3. Frames'
  BY DEF Frames, TypeOK, Closed, Disposed, CheckDisposed, Goto, shared, os
<1>4. Opening'
  BY DEF Opening, Turn, Roles, Frames, TypeOK, Closed, Threads,
         CheckDisposed, Goto, shared, os
<1>5. Custody'
  BY DEF Custody, Frames, TypeOK, CheckDisposed, Goto, shared, os
<1>6. Lifetime'
  BY DEF Lifetime, Exclusive, TypeOK, CheckDisposed, Goto, shared, os
<1>7. RefHolders' = RefHolders
  BY DEF RefHolders, Frames, TypeOK, CheckDisposed, Goto, shared, os
<1>8. RefCountIsExact'
  BY <1>7 DEF RefCountIsExact, Closed, Disposed, CheckDisposed, Goto, shared, os
<1>9. QED BY <1>1, <1>2, <1>3, <1>4, <1>5, <1>6, <1>8

\* DangerousGetHandle() loads the handle word.
LEMMA LoadHandlePreserves ==
  ASSUME NEW t \in Threads, IInv, LoadHandle(t)
  PROVE  IInv'
<1> USE ThreadsAssumption, HandlesAssumption, ContractAssumption DEF IInv
<1>1. TypeOK'
  BY DEF TypeOK, PCs, StateWord, LoadHandle, Goto, shared, os
<1>2. Roles'
  BY DEF Roles, TypeOK, Threads, LoadHandle, Goto, shared, os
<1>3. Frames'
  BY DEF Frames, TypeOK, Closed, Disposed, LoadHandle, Goto, shared, os
<1>4. Opening'
  BY DEF Opening, Turn, Roles, Frames, TypeOK, Closed, Threads, LoadHandle,
         Goto, shared, os
<1>5. Custody'
  BY DEF Custody, Frames, TypeOK, LoadHandle, Goto, shared, os
<1>6. Lifetime'
  BY DEF Lifetime, Exclusive, TypeOK, LoadHandle, Goto, shared, os
<1>7. RefHolders' = RefHolders
  BY DEF RefHolders, Frames, TypeOK, LoadHandle, Goto, shared, os
<1>8. RefCountIsExact'
  BY <1>7 DEF RefCountIsExact, Closed, Disposed, LoadHandle, Goto, shared, os
<1>9. QED BY <1>1, <1>2, <1>3, <1>4, <1>5, <1>6, <1>8

\* The system call returns.
LEMMA CallReturnsPreserves ==
  ASSUME NEW t \in Threads, IInv, CallReturns(t)
  PROVE  IInv'
<1> USE ThreadsAssumption, HandlesAssumption, ContractAssumption DEF IInv
<1>1. TypeOK'
  BY DEF TypeOK, PCs, StateWord, CallReturns, Goto, shared, os
<1>2. Roles'
  BY DEF Roles, TypeOK, Threads, CallReturns, Goto, shared, os
<1>3. Frames'
  BY DEF Frames, TypeOK, Closed, Disposed, CallReturns, Goto, shared, os
<1>4. Opening'
  BY DEF Opening, Turn, Roles, Frames, TypeOK, Closed, Threads, CallReturns,
         Goto, shared, os
<1>5. Custody'
  BY DEF Custody, Frames, TypeOK, CallReturns, Goto, shared, os
<1>6. Lifetime'
  BY DEF Lifetime, Exclusive, TypeOK, CallReturns, Goto, shared, os
<1>7. RefHolders' = RefHolders
  BY DEF RefHolders, Frames, TypeOK, CallReturns, Goto, shared, os
<1>8. RefCountIsExact'
  BY <1>7 DEF RefCountIsExact, Closed, Disposed, CallReturns, Goto, shared, os
<1>9. QED BY <1>1, <1>2, <1>3, <1>4, <1>5, <1>6, <1>8

\* The APC resets m_bIncremented; the reference is still counted.
LEMMA ReleaseFromAPCPreserves ==
  ASSUME NEW t \in Threads, IInv, ReleaseFromAPC(t)
  PROVE  IInv'
<1> USE ThreadsAssumption, HandlesAssumption, ContractAssumption DEF IInv
<1>1. TypeOK'
  BY DEF TypeOK, PCs, StateWord, ReleaseFromAPC, Goto, shared, os
<1>2. Roles'
  BY DEF Roles, TypeOK, Threads, ReleaseFromAPC, Goto, shared, os
<1>3. Frames'
  BY DEF Frames, TypeOK, Closed, Disposed, ReleaseFromAPC, Goto, shared, os
<1>4. Opening'
  BY DEF Opening, Turn, Roles, Frames, TypeOK, Closed, Threads,
         ReleaseFromAPC, Goto, shared, os
<1>5. Custody'
  BY DEF Custody, Frames, TypeOK, ReleaseFromAPC, Goto, shared, os
<1>6. Lifetime'
  BY DEF Lifetime, Exclusive, TypeOK, ReleaseFromAPC, Goto, shared, os
<1>7. RefHolders' = RefHolders
  BY DEF RefHolders, Frames, TypeOK, ReleaseFromAPC, Goto, shared, os
<1>8. RefCountIsExact'
  BY <1>7 DEF RefCountIsExact, Closed, Disposed, ReleaseFromAPC, Goto, shared,
         os
<1>9. QED BY <1>1, <1>2, <1>3, <1>4, <1>5, <1>6, <1>8

\* The aborted system call returns.
LEMMA AbortedCallReturnsPreserves ==
  ASSUME NEW t \in Threads, IInv, AbortedCallReturns(t)
  PROVE  IInv'
<1> USE ThreadsAssumption, HandlesAssumption, ContractAssumption DEF IInv
<1>1. TypeOK'
  BY DEF TypeOK, PCs, StateWord, AbortedCallReturns, Goto, shared, os
<1>2. Roles'
  BY DEF Roles, TypeOK, Threads, AbortedCallReturns, Goto, shared, os
<1>3. Frames'
  BY DEF Frames, TypeOK, Closed, Disposed, AbortedCallReturns, Goto, shared,
         os
<1>4. Opening'
  BY DEF Opening, Turn, Roles, Frames, TypeOK, Closed, Threads,
         AbortedCallReturns, Goto, shared, os
<1>5. Custody'
  BY DEF Custody, Frames, TypeOK, AbortedCallReturns, Goto, shared, os
<1>6. Lifetime'
  BY DEF Lifetime, Exclusive, TypeOK, AbortedCallReturns, Goto, shared, os
<1>7. RefHolders' = RefHolders
  BY DEF RefHolders, Frames, TypeOK, AbortedCallReturns, Goto, shared, os
<1>8. RefCountIsExact'
  BY <1>7 DEF RefCountIsExact, Closed, Disposed, AbortedCallReturns, Goto,
         shared, os
<1>9. QED BY <1>1, <1>2, <1>3, <1>4, <1>5, <1>6, <1>8

\* ~HandleAccess() resets m_bIncremented; the reference is still counted.
LEMMA EndAccessPreserves ==
  ASSUME NEW t \in Threads, IInv, EndAccess(t)
  PROVE  IInv'
<1> USE ThreadsAssumption, HandlesAssumption, ContractAssumption DEF IInv
<1>1. TypeOK'
  BY DEF TypeOK, PCs, StateWord, EndAccess, Goto, shared, os
<1>2. Roles'
  BY DEF Roles, TypeOK, Threads, EndAccess, Goto, shared, os
<1>3. Frames'
  BY DEF Frames, TypeOK, Closed, Disposed, EndAccess, Goto, shared, os
<1>4. Opening'
  BY DEF Opening, Turn, Roles, Frames, TypeOK, Closed, Threads, EndAccess,
         Goto, shared, os
<1>5. Custody'
  BY DEF Custody, Frames, TypeOK, EndAccess, Goto, shared, os
<1>6. Lifetime'
  BY DEF Lifetime, Exclusive, TypeOK, EndAccess, Goto, shared, os
<1>7. RefHolders' = RefHolders
  BY DEF RefHolders, Frames, TypeOK, EndAccess, Goto, shared, os
<1>8. RefCountIsExact'
  BY <1>7 DEF RefCountIsExact, Closed, Disposed, EndAccess, Goto, shared, os
<1>9. QED BY <1>1, <1>2, <1>3, <1>4, <1>5, <1>6, <1>8

\* The load of Release(false)'s loop.
LEMMA ReleaseLoadPreserves ==
  ASSUME NEW t \in Threads, IInv, ReleaseLoad(t)
  PROVE  IInv'
<1> USE ThreadsAssumption, HandlesAssumption, ContractAssumption DEF IInv
<1>1. TypeOK'
  BY DEF TypeOK, PCs, StateWord, ReleaseLoad, Goto, shared, os
<1>2. Roles'
  BY DEF Roles, TypeOK, Threads, ReleaseLoad, Goto, shared, os
<1>3. Frames'
  BY DEF Frames, TypeOK, Closed, Disposed, ReleaseLoad, Goto, shared, os
<1>4. Opening'
  BY DEF Opening, Turn, Roles, Frames, TypeOK, Closed, Threads, ReleaseLoad,
         Goto, shared, os
<1>5. Custody'
  BY DEF Custody, Frames, TypeOK, ReleaseLoad, Goto, shared, os
<1>6. Lifetime'
  BY DEF Lifetime, Exclusive, TypeOK, ReleaseLoad, Goto, shared, os
<1>7. RefHolders' = RefHolders
  BY DEF RefHolders, Frames, TypeOK, ReleaseLoad, Goto, shared, os
<1>8. RefCountIsExact'
  BY <1>7 DEF RefCountIsExact, Closed, Disposed, ReleaseLoad, Goto, shared, os
<1>9. QED BY <1>1, <1>2, <1>3, <1>4, <1>5, <1>6, <1>8

\* The load of Release(true)'s loop.
LEMMA DisposeLoadPreserves ==
  ASSUME NEW t \in Threads, IInv, DisposeLoad(t)
  PROVE  IInv'
<1> USE ThreadsAssumption, HandlesAssumption, ContractAssumption DEF IInv
<1>1. TypeOK'
  BY DEF TypeOK, PCs, StateWord, DisposeLoad, Goto, shared, os
<1>2. Roles'
  BY DEF Roles, TypeOK, Threads, DisposeLoad, Goto, shared, os
<1>3. Frames'
  BY DEF Frames, TypeOK, Closed, Disposed, DisposeLoad, Goto, shared, os
<1>4. Opening'
  BY DEF Opening, Turn, Roles, Frames, TypeOK, Closed, Threads, DisposeLoad,
         Goto, shared, os
<1>5. Custody'
  BY DEF Custody, Frames, TypeOK, DisposeLoad, Goto, shared, os
<1>6. Lifetime'
  BY DEF Lifetime, Exclusive, TypeOK, DisposeLoad, Goto, shared, os
<1>7. RefHolders' = RefHolders
  BY DEF RefHolders, Frames, TypeOK, DisposeLoad, Goto, shared, os
<1>8. RefCountIsExact'
  BY <1>7 DEF RefCountIsExact, Closed, Disposed, DisposeLoad, Goto, shared, os
<1>9. QED BY <1>1, <1>2, <1>3, <1>4, <1>5, <1>6, <1>8

\* The thread that took the last reference empties the handle word.
LEMMA ExchangeHandlePreserves ==
  ASSUME NEW t \in Threads, IInv, ExchangeHandle(t)
  PROVE  IInv'
<1> USE ThreadsAssumption, HandlesAssumption, ContractAssumption DEF IInv
<1>1. life = "alive" /\ mOwn = TRUE
  BY DEF Lifetime, Exclusive, ExchangeHandle, Goto
<1>2. Closed(mState) /\ t \in Turn
  BY DEF Opening, Turn, ExchangeHandle, Goto
<1>3. incremented = {}
  BY <1>2 DEF RefCountIsExact, RefHolders, TypeOK
<1>4. TypeOK'
  BY <1>1, <1>2, <1>3 DEF TypeOK, PCs, StateWord, ExchangeHandle, Valid, AfterRelease, Goto,
         shared, os
<1>5. Roles'
  BY <1>1, <1>2, <1>3 DEF Roles, TypeOK, Threads, ExchangeHandle, Valid, AfterRelease, Goto,
         shared, os
<1>6. Frames'
  BY <1>1, <1>2, <1>3 DEF Frames, TypeOK, Closed, Disposed, ExchangeHandle, Valid,
         AfterRelease, Goto, shared, os
<1>7. Opening'
  BY <1>1, <1>2, <1>3 DEF Opening, Turn, Roles, Frames, TypeOK, Closed, Threads,
         ExchangeHandle, Valid, AfterRelease, Goto, shared, os
<1>8. Custody'
  BY <1>1, <1>2, <1>3 DEF Custody, Frames, TypeOK, ExchangeHandle, Valid, AfterRelease, Goto,
         shared, os
<1>9. Lifetime'
  BY <1>1, <1>2, <1>3 DEF Lifetime, Exclusive, TypeOK, ExchangeHandle, Valid, AfterRelease,
         Goto, shared, os
<1>10. RefHolders' = RefHolders
  BY <1>1, <1>2, <1>3 DEF RefHolders, Frames, TypeOK, ExchangeHandle, Valid, AfterRelease,
         Goto, shared, os
<1>11. RefCountIsExact'
  BY <1>10 DEF RefCountIsExact, Closed, Disposed, ExchangeHandle, Valid,
         AfterRelease, Goto, shared, os
<1>12. QED BY <1>4, <1>5, <1>6, <1>7, <1>8, <1>9, <1>11

\* The handle taken out of the object is closed.
LEMMA ReleaseHandlePreserves ==
  ASSUME NEW t \in Threads, IInv, ReleaseHandle(t)
  PROVE  IInv'
<1> USE ThreadsAssumption, HandlesAssumption, ContractAssumption DEF IInv
<1>1. life = "alive" /\ mOwn = TRUE
  BY DEF Lifetime, Exclusive, ReleaseHandle, Goto
<1>2. TypeOK'
  BY <1>1 DEF TypeOK, PCs, StateWord, Frames, ReleaseHandle, AfterRelease, Goto,
         shared, os
<1>3. Roles'
  BY <1>1 DEF Roles, TypeOK, Threads, ReleaseHandle, AfterRelease, Goto, shared,
         os
<1>4. Frames'
  BY <1>1 DEF Frames, TypeOK, Closed, Disposed, ReleaseHandle, AfterRelease,
         Goto, shared, os
<1>5. Opening'
  BY <1>1 DEF Opening, Turn, Roles, Frames, TypeOK, Closed, Threads,
         ReleaseHandle, AfterRelease, Goto, shared, os
<1>6. Custody'
  BY <1>1 DEF Custody, Frames, TypeOK, ReleaseHandle, AfterRelease, Goto, shared,
         os
<1>7. Lifetime'
  BY <1>1 DEF Lifetime, Exclusive, TypeOK, ReleaseHandle, AfterRelease, Goto,
         shared, os
<1>8. RefHolders' = RefHolders
  BY <1>1 DEF RefHolders, Frames, TypeOK, ReleaseHandle, AfterRelease, Goto,
         shared, os
<1>9. RefCountIsExact'
  BY <1>8 DEF RefCountIsExact, Closed, Disposed, ReleaseHandle, AfterRelease,
         Goto, shared, os
<1>10. QED BY <1>2, <1>3, <1>4, <1>5, <1>6, <1>7, <1>9

\* Attach() tests Valid().
LEMMA AttachCheckPreserves ==
  ASSUME NEW t \in Threads, IInv, AttachCheck(t)
  PROVE  IInv'
<1> USE ThreadsAssumption, HandlesAssumption, ContractAssumption DEF IInv
<1>1. life = "alive" /\ mOwn = TRUE
  BY DEF Lifetime, Exclusive, AttachCheck, Goto
<1>2. TypeOK'
  BY <1>1 DEF TypeOK, PCs, StateWord, AttachCheck, Valid, Goto, shared, os
<1>3. Roles'
  BY <1>1 DEF Roles, TypeOK, Threads, AttachCheck, Valid, Goto, shared, os
<1>4. Frames'
  BY <1>1 DEF Frames, TypeOK, Closed, Disposed, AttachCheck, Valid, Goto, shared,
         os
<1>5. Opening'
  BY <1>1 DEF Opening, Turn, Roles, Frames, TypeOK, Closed, Threads, AttachCheck,
         Valid, Goto, shared, os
<1>6. Custody'
  BY <1>1 DEF Custody, Frames, TypeOK, AttachCheck, Valid, Goto, shared, os
<1>7. Lifetime'
  BY <1>1 DEF Lifetime, Exclusive, TypeOK, AttachCheck, Valid, Goto, shared, os
<1>8. RefHolders' = RefHolders
  BY <1>1 DEF RefHolders, Frames, TypeOK, AttachCheck, Valid, Goto, shared, os
<1>9. RefCountIsExact'
  BY <1>8 DEF RefCountIsExact, Closed, Disposed, AttachCheck, Valid, Goto,
         shared, os
<1>10. QED BY <1>2, <1>3, <1>4, <1>5, <1>6, <1>7, <1>9

\* Attach() stores the handle.
LEMMA AttachStorePreserves ==
  ASSUME NEW t \in Threads, IInv, AttachStore(t)
  PROVE  IInv'
<1> USE ThreadsAssumption, HandlesAssumption, ContractAssumption DEF IInv
<1>1. life = "alive" /\ mOwn = TRUE
  BY DEF Lifetime, Exclusive, AttachStore, Goto
<1>2. Closed(mState) /\ t \in Turn
  BY DEF Opening, Turn, AttachStore, Goto
<1>3. mHandle = Invalid
  BY DEF Opening, AttachStore, Goto
<1>4. incremented = {}
  BY <1>2 DEF RefCountIsExact, RefHolders, TypeOK
<1>5. TypeOK'
  BY <1>1, <1>2, <1>3, <1>4 DEF TypeOK, PCs, StateWord, Frames, AttachStore, Goto, shared, os
<1>6. Roles'
  BY <1>1, <1>2, <1>3, <1>4 DEF Roles, TypeOK, Threads, AttachStore, Goto, shared, os
<1>7. Frames'
  BY <1>1, <1>2, <1>3, <1>4 DEF Frames, TypeOK, Closed, Disposed, AttachStore, Goto, shared, os
<1>8. Opening'
  BY <1>1, <1>2, <1>3, <1>4 DEF Opening, Turn, Roles, Frames, TypeOK, Closed, Threads, AttachStore,
         Goto, shared, os
<1>9. Custody'
  BY <1>1, <1>2, <1>3, <1>4 DEF Custody, Frames, TypeOK, AttachStore, Goto, shared, os
<1>10. Lifetime'
  BY <1>1, <1>2, <1>3, <1>4 DEF Lifetime, Exclusive, TypeOK, AttachStore, Goto, shared, os
<1>11. RefHolders' = RefHolders
  BY <1>1, <1>2, <1>3, <1>4 DEF RefHolders, Frames, TypeOK, AttachStore, Goto, shared, os
<1>12. RefCountIsExact'
  BY <1>11 DEF RefCountIsExact, Closed, Disposed, AttachStore, Goto, shared, os
<1>13. QED BY <1>5, <1>6, <1>7, <1>8, <1>9, <1>10, <1>12

\* The compare-and-swap of ThreadSafeAttach().
LEMMA ThreadSafeAttachPreserves ==
  ASSUME NEW t \in Threads, IInv, ThreadSafeAttach(t)
  PROVE  IInv'
<1> USE ThreadsAssumption, HandlesAssumption, ContractAssumption DEF IInv
<1>1. life = "alive" /\ mOwn = TRUE
  BY DEF Lifetime, Exclusive, ThreadSafeAttach, Goto
<1>2. ~Valid => Closed(mState) /\ incremented = {}
  BY <1>1 DEF Opening, Valid, RefCountIsExact, RefHolders, TypeOK
<1>3. TypeOK'
  BY <1>1, <1>2 DEF TypeOK, PCs, StateWord, Frames, ThreadSafeAttach, Valid, Goto,
         shared, os
<1>4. Roles'
  BY <1>1, <1>2 DEF Roles, TypeOK, Threads, ThreadSafeAttach, Valid, Goto, shared, os
<1>5. Frames'
  BY <1>1, <1>2 DEF Frames, TypeOK, Closed, Disposed, ThreadSafeAttach, Valid, Goto,
         shared, os
<1>6. Opening'
  BY <1>1, <1>2 DEF Opening, Turn, Roles, Frames, TypeOK, Closed, Threads,
         ThreadSafeAttach, Valid, Goto, shared, os
<1>7. Custody'
  BY <1>1, <1>2 DEF Custody, Frames, TypeOK, ThreadSafeAttach, Valid, Goto, shared, os
<1>8. Lifetime'
  BY <1>1, <1>2 DEF Lifetime, Exclusive, TypeOK, ThreadSafeAttach, Valid, Goto, shared,
         os
<1>9. RefHolders' = RefHolders
  BY <1>1, <1>2 DEF RefHolders, Frames, TypeOK, ThreadSafeAttach, Valid, Goto, shared,
         os
<1>10. RefCountIsExact'
  BY <1>9 DEF RefCountIsExact, Closed, Disposed, ThreadSafeAttach, Valid, Goto,
         shared, os
<1>11. QED BY <1>3, <1>4, <1>5, <1>6, <1>7, <1>8, <1>10

\* AfterAttach() sets m_bOwn.
LEMMA SetOwnPreserves ==
  ASSUME NEW t \in Threads, IInv, SetOwn(t)
  PROVE  IInv'
<1> USE ThreadsAssumption, HandlesAssumption, ContractAssumption DEF IInv
<1>1. TypeOK'
  BY DEF TypeOK, PCs, StateWord, SetOwn, Goto, shared, os
<1>2. Roles'
  BY DEF Roles, TypeOK, Threads, SetOwn, Goto, shared, os
<1>3. Frames'
  BY DEF Frames, TypeOK, Closed, Disposed, SetOwn, Goto, shared, os
<1>4. Opening'
  BY DEF Opening, Turn, Roles, Frames, TypeOK, Closed, Threads, SetOwn,
         Goto, shared, os
<1>5. Custody'
  BY DEF Custody, Frames, TypeOK, SetOwn, Goto, shared, os
<1>6. Lifetime'
  BY DEF Lifetime, Exclusive, TypeOK, SetOwn, Goto, shared, os
<1>7. RefHolders' = RefHolders
  BY DEF RefHolders, Frames, TypeOK, SetOwn, Goto, shared, os
<1>8. RefCountIsExact'
  BY <1>7 DEF RefCountIsExact, Closed, Disposed, SetOwn, Goto, shared, os
<1>9. QED BY <1>1, <1>2, <1>3, <1>4, <1>5, <1>6, <1>8

-----------------------------------------------------------------------------
(* The steps that change the state word, and so the count.                 *)

\* The set of reference holders is finite and no larger than the threads.
LEMMA HoldersFinite ==
  ASSUME TypeOK
  PROVE  /\ IsFiniteSet(RefHolders)
         /\ Cardinality(RefHolders) \in Nat
         /\ Cardinality(RefHolders) <= Cardinality(Threads)
         /\ Cardinality(Threads) \in Nat
         /\ Cardinality(RefHolders) = 0 <=> RefHolders = {}
<1>1. RefHolders \subseteq Threads BY DEF RefHolders
<1>2. QED
  BY <1>1, FS_Subset, FS_CardinalityType, FS_EmptySet, ThreadsAssumption

\* A thread that joins the holders adds one to their number.
LEMMA HolderJoins ==
  ASSUME TypeOK, NEW t \in Threads, t \notin RefHolders, RefHolders' = RefHolders \cup {t}
  PROVE  Cardinality(RefHolders') = Cardinality(RefHolders) + 1
BY HoldersFinite, FS_AddElement

\* A thread that leaves the holders takes one from their number.
LEMMA HolderLeaves ==
  ASSUME TypeOK, NEW t \in Threads, t \in RefHolders, RefHolders' = RefHolders \ {t}
  PROVE  /\ Cardinality(RefHolders') = Cardinality(RefHolders) - 1
         /\ Cardinality(RefHolders) >= 1
         /\ Cardinality(RefHolders') = 0 <=> RefHolders' = {}
<1>1. /\ IsFiniteSet(RefHolders') /\ Cardinality(RefHolders') \in Nat
      /\ Cardinality(RefHolders') = Cardinality(RefHolders) - 1
  BY HoldersFinite, FS_RemoveElement, FS_CardinalityType
<1>2. Cardinality(RefHolders') = 0 <=> RefHolders' = {}
  BY <1>1, FS_EmptySet
<1>3. QED BY <1>1, <1>2, HoldersFinite

\* The compare-and-swap of AddRef(): the count cannot wrap, and the thread
\* joins the holders of an open word.
LEMMA AddRefCasPreserves ==
  ASSUME NEW t \in Threads, IInv, AddRefCas(t)
  PROVE  IInv'
<1> USE ThreadsAssumption, HandlesAssumption, ContractAssumption DEF IInv
<1>1. Roles' /\ Custody' /\ Lifetime'
  BY DEF Roles, Custody, Lifetime, Exclusive, TypeOK, AddRefCas, Goto, os
<1>2. CASE mState # old[t]
  <2>1. TypeOK' BY <1>2 DEF TypeOK, PCs, AddRefCas, Goto, os
  <2>2. Frames' BY <1>2 DEF Frames, TypeOK, AddRefCas, Goto, os
  <2>3. Opening' BY <1>2 DEF Opening, Turn, TypeOK, AddRefCas, Goto, os
  <2>4. RefHolders' = RefHolders
    BY <1>2 DEF RefHolders, Frames, TypeOK, AddRefCas, Goto, os
  <2>5. RefCountIsExact' BY <1>2, <2>4 DEF RefCountIsExact, AddRefCas
  <2>6. QED BY <1>1, <2>1, <2>2, <2>3, <2>5
<1>3. CASE mState = old[t]
  <2>1. ~Closed(mState) /\ t \notin RefHolders
    BY <1>3 DEF Frames, RefHolders, AddRefCas, Goto
  <2>2. RefHolders' = RefHolders \cup {t}
    BY <1>3 DEF RefHolders, TypeOK, AddRefCas, Goto
  <2>3. Cardinality(RefHolders') = Cardinality(RefHolders) + 1
    BY <2>1, <2>2, HolderJoins
  <2>4. mState.refs \in Nat /\ mState.refs < RefMod - 1
    BY <2>1, HoldersFinite DEF RefCountIsExact, TypeOK, StateWord
  <2>5. /\ mState' = [refs |-> mState.refs + 1, bits |-> mState.bits]
        /\ Closed(mState') = Closed(mState) /\ Disposed(mState') = Disposed(mState)
    BY <1>3, <2>4 DEF AddRefCas, AddRefWord, Word, PlusOne, Closed, Disposed
  <2>6. TypeOK'
    BY <1>3, <2>4, <2>5 DEF TypeOK, PCs, StateWord, AddRefCas, Goto, os
  <2>7. Frames' BY <1>3 DEF Frames, TypeOK, AddRefCas, Goto, os
  <2>8. Opening'
    BY <1>3, <2>1, <2>4, <2>5 DEF Opening, Turn, TypeOK, Closed, AddRefCas, Goto, os
  <2>9. RefCountIsExact'
    BY <2>1, <2>3, <2>4, <2>5, HoldersFinite DEF RefCountIsExact, Closed, Disposed
  <2>10. QED BY <1>1, <2>6, <2>7, <2>8, <2>9
<1>4. QED BY <1>2, <1>3

\* The compare-and-swap of Release(false): a holder leaves; if it was the
\* last of a disposed word, the word is Closed and it is its turn to empty
\* the object.
LEMMA ReleaseCasPreserves ==
  ASSUME NEW t \in Threads, IInv, ReleaseCas(t)
  PROVE  IInv'
<1> USE ThreadsAssumption, HandlesAssumption, ContractAssumption
    DEF IInv, ReleaseCas, CasRelease, AfterRelease
<1>1. Roles' /\ Custody' /\ Lifetime'
  BY DEF Roles, Custody, Lifetime, Exclusive, TypeOK, os
<1>2. CASE mState # old[t]
  <2>1. TypeOK' BY <1>2 DEF TypeOK, PCs, os
  <2>2. Frames' BY <1>2 DEF Frames, TypeOK, os
  <2>3. Opening' BY <1>2 DEF Opening, Turn, TypeOK, os, Threads
  <2>4. RefHolders' = RefHolders BY <1>2 DEF RefHolders, Frames, TypeOK, os
  <2>5. RefCountIsExact' BY <1>2, <2>4 DEF RefCountIsExact
  <2>6. QED BY <1>1, <2>1, <2>2, <2>3, <2>5
<1>3. CASE mState = old[t]
  <2>1. t \in RefHolders /\ t \notin incremented BY DEF RefHolders, Frames
  <2>2. ~Closed(mState) /\ mState.refs \in Nat \ {0}
    BY <2>1 DEF RefCountIsExact, Opening, TypeOK, StateWord
  <2>3. life = "alive" /\ mHandle \in Handles /\ Turn = {}
    BY <2>2 DEF Opening, Lifetime, Exclusive
  <2>4. RefHolders' = RefHolders \ {t}
    BY <1>3, <2>1 DEF RefHolders, TypeOK, os
  <2>5. /\ Cardinality(RefHolders') = Cardinality(RefHolders) - 1
        /\ Cardinality(RefHolders) >= 1
        /\ Cardinality(RefHolders') = 0 <=> RefHolders' = {}
    BY <2>1, <2>4, HolderLeaves
  <2>6. mState.refs = Cardinality(RefHolders) + (IF Disposed(mState) THEN 0 ELSE 1)
    BY <2>2 DEF RefCountIsExact
  <2>7. mState' = [refs |-> mState.refs - 1,
                   bits |-> mState.bits \cup (IF mState.refs = 1 THEN {"Closed"} ELSE {})]
    BY <1>3, <2>2 DEF ReleaseWord, Word, MinusOne
  <2>8. /\ Closed(mState') <=> mState.refs = 1
        /\ Disposed(mState') <=> Disposed(mState)
    BY <2>2, <2>7 DEF Closed, Disposed
  <2>9. TypeOK'
    <3>1. mState' \in StateWord
      BY <2>2, <2>7 DEF TypeOK, StateWord
    <3>2. QED BY <1>3, <2>2, <3>1 DEF TypeOK, PCs, os
  <2>10. Frames' BY <1>3 DEF Frames, TypeOK, os
  <2>11. pc' = [pc EXCEPT ![t] = IF mState.refs = 1 THEN "exchange"
                                 ELSE IF got[t] = None THEN "idle" ELSE "aborted"]
    BY <1>3, <2>2 DEF IsLastRef
  <2>12. Turn' = IF mState.refs = 1 THEN {t} ELSE {}
    BY <2>3, <2>11 DEF Turn, TypeOK
  <2>13. Opening'
    <3>1. ~Closed(mState') => mState'.refs # 0 BY <2>2, <2>7, <2>8
    <3>2. \A s \in Threads : pc'[s] = "exchange" => mHandle' \in Handles BY <2>3
    <3>3. \A s \in Threads : pc'[s] \notin {"attachStore", "afterAttach"}
      BY <2>3, <2>11 DEF Turn, TypeOK
    <3>4. QED BY <2>3, <2>8, <2>12, <3>1, <3>2, <3>3 DEF Opening, Threads, os
  <2>14. RefCountIsExact'
    BY <2>2, <2>5, <2>6, <2>7, <2>8, HoldersFinite DEF RefCountIsExact
  <2>15. QED BY <1>1, <2>9, <2>10, <2>13, <2>14
<1>4. QED BY <1>2, <1>3

\* The compare-and-swap of Release(true): the object's own reference goes;
\* on a word that is Closed already nothing happens but the Disposed bit.
LEMMA DisposeCasPreserves ==
  ASSUME NEW t \in Threads, IInv, DisposeCas(t)
  PROVE  IInv'
<1> USE ThreadsAssumption, HandlesAssumption, ContractAssumption
    DEF IInv, DisposeCas, CasRelease, AfterRelease
<1>1. Roles' /\ Custody' /\ Lifetime'
  BY DEF Roles, Custody, Lifetime, Exclusive, TypeOK, os
<1>2. Frames' BY DEF Frames, TypeOK, os
<1>3. RefHolders' = RefHolders BY DEF RefHolders, Frames, TypeOK, os
<1>4. CASE mState # old[t]
  <2>1. TypeOK' BY <1>4 DEF TypeOK, PCs, os
  <2>2. Opening' BY <1>4 DEF Opening, Turn, TypeOK, os, Threads
  <2>3. RefCountIsExact' BY <1>3, <1>4 DEF RefCountIsExact
  <2>4. QED BY <1>1, <1>2, <2>1, <2>2, <2>3
<1>5. CASE mState = old[t]
  <2>1. ~Disposed(mState) /\ t \notin RefHolders /\ life = "alive"
    BY <1>5 DEF Frames, RefHolders, Lifetime, Exclusive
  <2>2. mState.refs \in 0..(RefMod - 1) /\ mState.bits \subseteq {"Closed", "Disposed"}
    BY DEF TypeOK, StateWord
  <2>3. mState' = [refs |-> IF mState.refs = 0 THEN RefMod - 1 ELSE mState.refs - 1,
                   bits |-> mState.bits \cup {"Disposed"}
                              \cup (IF mState.refs = 1 THEN {"Closed"} ELSE {})]
    BY <1>5 DEF ReleaseWord, Word, MinusOne
  <2>4. /\ Closed(mState') <=> Closed(mState) \/ mState.refs = 1
        /\ Disposed(mState')
    BY <2>3 DEF Closed, Disposed
  <2>5. TypeOK' BY <1>5, <2>2, <2>3 DEF TypeOK, PCs, StateWord, os
  <2>6. CASE Closed(mState)
    <3>1. Opening'
      BY <1>5, <2>4, <2>6 DEF Opening, Turn, TypeOK, IsLastRef, os, Threads
    <3>2. RefCountIsExact' BY <1>3, <2>4, <2>6 DEF RefCountIsExact
    <3>3. QED BY <1>1, <1>2, <2>5, <3>1, <3>2
  <2>7. CASE ~Closed(mState)
    <3>1. /\ mState.refs = Cardinality(RefHolders) + 1 /\ mState.refs # 0
          /\ mHandle \in Handles /\ Turn = {}
      BY <2>1, <2>7 DEF RefCountIsExact, Opening
    <3>2. pc' = [pc EXCEPT ![t] = IF mState.refs = 1 THEN "exchange"
                                  ELSE IF got[t] = None THEN "idle" ELSE "aborted"]
      BY <1>5, <2>7 DEF IsLastRef
    <3>3. Turn' = IF mState.refs = 1 THEN {t} ELSE {}
      BY <3>1, <3>2 DEF Turn, TypeOK
    <3>4. Opening'
      <4>1. ~Closed(mState') => mState'.refs # 0
        BY <2>2, <2>3, <2>4, <3>1
      <4>2. \A s \in Threads : pc'[s] = "exchange" => mHandle' \in Handles BY <3>1
      <4>3. \A s \in Threads : pc'[s] \notin {"attachStore", "afterAttach"}
        BY <3>1, <3>2 DEF Turn, TypeOK
      <4>4. QED BY <2>4, <2>7, <3>1, <3>3, <4>1, <4>2, <4>3 DEF Opening, Threads, os
    <3>5. RefCountIsExact'
      BY <1>3, <2>2, <2>3, <2>4, <3>1, HoldersFinite DEF RefCountIsExact
    <3>6. QED BY <1>1, <1>2, <2>5, <3>4, <3>5
  <2>8. QED BY <2>6, <2>7
<1>6. QED BY <1>4, <1>5

\* AfterAttach() opens the word: it was Closed, so no reference is around.
LEMMA AfterAttachPreserves ==
  ASSUME NEW t \in Threads, IInv, AfterAttach(t)
  PROVE  IInv'
<1> USE ThreadsAssumption, HandlesAssumption, ContractAssumption
    DEF IInv, AfterAttach, Goto, Valid
<1>1. life = "alive" /\ t \in Turn /\ Closed(mState)
  BY DEF Lifetime, Exclusive, Opening, Turn
<1>2. RefHolders = {} /\ RefHolders' = RefHolders
  BY <1>1 DEF RefCountIsExact, RefHolders, TypeOK, os
<1>3. TypeOK' BY RefModLarge DEF TypeOK, PCs, StateWord, Word, os
<1>4. Roles' BY DEF Roles, TypeOK
<1>5. Frames' BY DEF Frames, TypeOK, os
<1>6. Custody' BY DEF Custody, TypeOK, os
<1>7. Lifetime' BY <1>1 DEF Lifetime, TypeOK
<1>8. Turn' = {}
  BY <1>1 DEF Opening, Turn, TypeOK
<1>9. Opening'
  BY <1>1, <1>8 DEF Opening, Turn, TypeOK, Word, Closed, os, Threads
<1>10. RefCountIsExact'
  <2>1. CASE mHandle = Invalid
    BY <2>1, <1>1, <1>2 DEF RefCountIsExact
  <2>2. CASE mHandle # Invalid
    <3>1. mState'.refs = 1 /\ ~Closed(mState') /\ ~Disposed(mState')
      BY <2>2 DEF Word, Closed, Disposed
    <3>2. Cardinality(RefHolders') = 0 BY <1>2, FS_EmptySet
    <3>3. QED BY <3>1, <3>2 DEF RefCountIsExact
  <2>3. QED BY <2>1, <2>2
<1>11. QED BY <1>3, <1>4, <1>5, <1>6, <1>7, <1>9, <1>10

-----------------------------------------------------------------------------
(* Opening a handle, and the end of the object.                            *)

\* The caller opens a handle that was never opened before.
LEMMA BeginAttachPreserves ==
  ASSUME NEW t \in Threads, NEW h \in Handles \cup {Invalid}, IInv,
         BeginAttach(t, h) \/ BeginThreadSafeAttach(t, h)
  PROVE  IInv'
<1> USE ThreadsAssumption, HandlesAssumption, ContractAssumption
    DEF IInv, BeginAttach, BeginThreadSafeAttach, Start, Goto, shared
<1>1. TypeOK' BY DEF TypeOK, PCs
<1>2. Roles' BY DEF Roles, TypeOK
<1>3. Frames' BY DEF Frames, TypeOK
<1>4. Opening' BY DEF Opening, Turn, TypeOK, Threads
<1>5. Custody' BY DEF Custody, Frames, TypeOK
<1>6. Lifetime' BY DEF Lifetime, TypeOK
<1>7. RefHolders' = RefHolders BY DEF RefHolders, Frames, TypeOK
<1>8. RefCountIsExact' BY <1>7 DEF RefCountIsExact
<1>9. QED BY <1>1, <1>2, <1>3, <1>4, <1>5, <1>6, <1>8

\* Detach() hands the handle to the caller and leaves a closed word.
LEMMA DetachPreserves ==
  ASSUME IInv, Detach
  PROVE  IInv'
<1> USE ThreadsAssumption, HandlesAssumption, ContractAssumption DEF IInv, Detach
<1>1. incremented = {} /\ RefHolders' = {}
  BY DEF Exclusive, Frames, RefHolders, TypeOK
<1>2. TypeOK'
  <2>1. mState' \in StateWord BY RefModLarge DEF StateWord, Word
  <2>2. returned' \in SUBSET Handles BY DEF TypeOK
  <2>3. mOwn' \in BOOLEAN OBVIOUS
  <2>4. QED BY <2>1, <2>2, <2>3 DEF TypeOK
<1>3. Roles' BY DEF Roles
<1>4. Frames' BY <1>1 DEF Frames
<1>5. Opening' BY DEF Opening, Turn, Exclusive, Word, Closed, Threads
<1>6. Custody' BY DEF Custody, TypeOK
<1>7. Lifetime' BY DEF Lifetime, Exclusive
<1>8. RefCountIsExact' BY <1>1 DEF RefCountIsExact, Word, Closed
<1>9. QED BY <1>2, <1>3, <1>4, <1>5, <1>6, <1>7, <1>8

\* The destructor closes what the object still holds.
LEMMA DestroyPreserves ==
  ASSUME IInv, Destroy
  PROVE  IInv'
<1> USE ThreadsAssumption, HandlesAssumption, ContractAssumption DEF IInv, Destroy, Valid
<1>1. incremented = {} /\ RefHolders' = RefHolders
  BY DEF Exclusive, Frames, RefHolders, TypeOK
<1>2. TypeOK' BY DEF TypeOK
<1>3. Roles' BY DEF Roles
<1>4. Frames' BY <1>1 DEF Frames
<1>5. Opening' BY DEF Opening, Turn, Exclusive, Threads
<1>6. Custody' BY DEF Custody, Lifetime, TypeOK
<1>7. Lifetime' BY DEF Lifetime, Exclusive
<1>8. RefCountIsExact' BY <1>1 DEF RefCountIsExact
<1>9. QED BY <1>2, <1>3, <1>4, <1>5, <1>6, <1>7, <1>8

-----------------------------------------------------------------------------
(* The theorems.                                                           *)

\* The object is created closed and empty.
LEMMA InitEstablishes == Init => IInv
<1> SUFFICES ASSUME Init PROVE IInv OBVIOUS
<1> USE ThreadsAssumption, HandlesAssumption DEF Init
<1>1. TypeOK BY RefModLarge DEF TypeOK, PCs, StateWord, Word
<1>2. Roles /\ Frames /\ Lifetime BY DEF Roles, Frames, Lifetime
<1>3. Opening /\ Custody BY DEF Opening, Turn, Custody, Word, Closed, Threads
<1>4. RefCountIsExact BY DEF RefCountIsExact, RefHolders, Word, Closed
<1>5. QED BY <1>1, <1>2, <1>3, <1>4 DEF IInv

\* Every step of every thread preserves the inductive invariant.
LEMMA NextPreserves == IInv /\ [Next]_vars => IInv'
<1> SUFFICES ASSUME IInv, [Next]_vars PROVE IInv' OBVIOUS
<1>1. ASSUME NEW t \in Threads, Begin(t) PROVE IInv'
  BY <1>1, BeginAccessPreserves, BeginClosePreserves, BeginAttachPreserves DEF Begin
<1>2. ASSUME NEW t \in Threads, Step(t) PROVE IInv'
  BY <1>2, AddRefLoadPreserves, AddRefCasPreserves, GetZeroPreserves,
     CheckDisposedPreserves, LoadHandlePreserves, CallReturnsPreserves,
     ReleaseFromAPCPreserves, AbortedCallReturnsPreserves, EndAccessPreserves,
     ReleaseLoadPreserves, ReleaseCasPreserves, DisposeLoadPreserves,
     DisposeCasPreserves, ExchangeHandlePreserves, ReleaseHandlePreserves,
     AttachCheckPreserves, AttachStorePreserves, ThreadSafeAttachPreserves,
     AfterAttachPreserves, SetOwnPreserves
  DEF Step
<1>3. CASE UNCHANGED vars
  BY <1>3 DEF IInv, vars, TypeOK, Roles, Frames, RefCountIsExact, RefHolders, Opening,
     Turn, Custody, Lifetime, Exclusive
<1>4. QED
  BY <1>1, <1>2, <1>3, DetachPreserves, DestroyPreserves DEF Next, Gone

\* The invariant holds in every reachable state, for any number of threads,
\* handles and operations.
THEOREM InductiveInvariant == Spec => []IInv
BY InitEstablishes, NextPreserves, PTL DEF Spec

\* All variables keep their types.
THEOREM TypeCorrect == Spec => []TypeOK
<1>1. IInv => TypeOK BY DEF IInv
<1>2. QED BY <1>1, InductiveInvariant, PTL

\* The count is the number of outstanding references, in every reachable
\* state, for any number of threads below the width of the count.
THEOREM RefCountCorrect == Spec => []RefCountIsExact
<1>1. IInv => RefCountIsExact BY DEF IInv
<1>2. QED BY <1>1, InductiveInvariant, PTL

\* No thread's system call runs on a closed or replaced handle while its
\* access holds the reference.
THEOREM UseIsSafe == Spec => []HandleInUseIsOpen
<1>1. IInv => HandleInUseIsOpen
  <2> SUFFICES ASSUME IInv, NEW t \in incremented, pc[t] = "call"
               PROVE  got[t] \in opened /\ closes[got[t]] = 0 /\ got[t] = mHandle
    BY DEF HandleInUseIsOpen
  <2>1. t \in RefHolders BY DEF IInv, TypeOK, RefHolders
  <2>2. ~Closed(mState) BY <2>1 DEF IInv, RefCountIsExact
  <2>3. mHandle \in Handles
    BY <2>1, <2>2 DEF IInv, Opening, Lifetime, Exclusive, RefHolders
  <2>4. got[t] = mHandle BY <2>1 DEF IInv, Frames, RefHolders
  <2>5. QED BY <2>3, <2>4 DEF IInv, Custody
<1>2. QED BY <1>1, InductiveInvariant, PTL

\* No handle is closed twice, and none that went back to the caller at all.
THEOREM ReleaseIsUnique == Spec => []ReleasedAtMostOnce
<1>1. IInv => ReleasedAtMostOnce
  BY DEF IInv, Custody, ReleasedAtMostOnce, TypeOK
<1>2. QED BY <1>1, InductiveInvariant, PTL

\* A destroyed object has closed everything it was given.
THEOREM NothingLeaks == Spec => []NoHandleLeaks
<1>1. IInv => NoHandleLeaks
  <2> SUFFICES ASSUME IInv, life = "destroyed", NEW h \in opened \ returned
               PROVE  closes[h] = 1
    BY DEF NoHandleLeaks
  <2>1. mHandle = Invalid /\ \A t \in Threads : arg[t] = None
    BY DEF IInv, Lifetime, Exclusive, Frames
  <2>2. h \in Handles BY DEF IInv, TypeOK
  <2>3. QED BY <2>1, <2>2, HandlesAssumption DEF IInv, Custody
<1>2. QED BY <1>1, InductiveInvariant, PTL

-----------------------------------------------------------------------------
(* The object implements OwnedHandle.                                      *)

\* A handle stays where it is if nothing that says where it is changes.
LEMMA PlaceStays ==
  ASSUME NEW h \in Handles, closes'[h] = closes[h],
         h \in returned' <=> h \in returned, h \in opened' <=> h \in opened,
         h = mHandle' <=> h = mHandle,
         \A t \in Threads : arg'[t] = h /\ pc'[t] = "releaseHandle"
                              <=> arg[t] = h /\ pc[t] = "releaseHandle"
  PROVE  Place(h)' = Place(h)
BY DEF Place

\* A step that moves one handle.
LEMMA OnePlaceMoves ==
  ASSUME NEW h \in Handles, NEW from, NEW to, Place(h) \in from, Place(h)' = to,
         \A k \in Handles \ {h} : Place(k)' = Place(k)
  PROVE  Abstract!Moves(h, from, to)
BY DEF Abstract!Moves

\* The handles stay when the thread of a step keeps the one it has.
LEMMA PlacesStay ==
  ASSUME UNCHANGED <<mHandle, opened, closes, returned, arg>>,
         \A t \in Threads : pc'[t] = "releaseHandle" <=> pc[t] = "releaseHandle"
  PROVE  \A h \in Handles : Place(h)' = Place(h)
BY PlaceStays

\* A step that changes neither word, nor the references, moves nothing.
LEMMA NothingMoves ==
  ASSUME UNCHANGED mState, UNCHANGED mHandle, RefHolders' = RefHolders,
         \A h \in Handles : Place(h)' = Place(h)
  PROVE  UNCHANGED Abstract!vars
BY DEF Abstract!vars

\* The steps of an access and of Release() that only load, and those of an
\* access that end a call, are no steps of the owned handle.
LEMMA QuietImplements ==
  ASSUME IInv, NEW t \in Threads,
         \/ BeginAccess(t) \/ BeginClose(t) \/ AddRefLoad(t) \/ GetZero(t)
         \/ CheckDisposed(t) \/ LoadHandle(t) \/ CallReturns(t) \/ ReleaseFromAPC(t)
         \/ AbortedCallReturns(t) \/ EndAccess(t) \/ ReleaseLoad(t) \/ DisposeLoad(t)
         \/ SetOwn(t)
  PROVE  UNCHANGED Abstract!vars
<1> USE DEF Start, Goto, shared, os
<1>1. /\ UNCHANGED <<mState, mHandle, opened, closes, returned, arg>>
      /\ pc[t] # "releaseHandle"
      /\ \E to \in PCs \ {"releaseHandle"} : pc' = [pc EXCEPT ![t] = to]
  BY DEF BeginAccess, BeginClose, AddRefLoad, GetZero, CheckDisposed, LoadHandle,
     CallReturns, ReleaseFromAPC, AbortedCallReturns, EndAccess, ReleaseLoad,
     DisposeLoad, SetOwn, PCs
<1>2. RefHolders' = RefHolders
  <2>1. CASE BeginAccess(t) \/ BeginClose(t) \/ AddRefLoad(t) \/ GetZero(t)
             \/ CheckDisposed(t) \/ LoadHandle(t) \/ CallReturns(t)
    BY <2>1 DEF IInv, RefHolders, Frames, TypeOK, BeginAccess, BeginClose, AddRefLoad,
       GetZero, CheckDisposed, LoadHandle, CallReturns
  <2>2. CASE ReleaseFromAPC(t) \/ AbortedCallReturns(t) \/ EndAccess(t)
             \/ ReleaseLoad(t) \/ DisposeLoad(t) \/ SetOwn(t)
    BY <2>2 DEF IInv, RefHolders, Frames, TypeOK, ReleaseFromAPC, AbortedCallReturns,
       EndAccess, ReleaseLoad, DisposeLoad, SetOwn
  <2>3. QED BY <2>1, <2>2
<1>3. \A h \in Handles : Place(h)' = Place(h)
  BY <1>1, PlacesStay DEF IInv, TypeOK
<1>4. QED BY <1>1, <1>2, <1>3, NothingMoves

\* The thread that wins the compare-and-swap of AddRef() enters.
LEMMA AddRefCasImplements ==
  ASSUME IInv, NEW t \in Threads, AddRefCas(t)
  PROVE  Abstract!Next \/ UNCHANGED Abstract!vars
<1> USE HandlesAssumption DEF AddRefCas, Goto, os
<1>1. \A h \in Handles : Place(h)' = Place(h)
  BY PlacesStay DEF IInv, TypeOK
<1>2. CASE mState # old[t]
  <2>1. RefHolders' = RefHolders BY <1>2 DEF IInv, RefHolders, Frames, TypeOK
  <2>2. QED BY <1>1, <1>2, <2>1, NothingMoves
<1>3. CASE mState = old[t]
  <2>1. ~Closed(mState) /\ t \notin RefHolders /\ t \in Users
    BY <1>3 DEF IInv, Frames, Roles, RefHolders
  <2>2. RefHolders' = RefHolders \cup {t}
    BY <1>3 DEF IInv, RefHolders, TypeOK
  <2>3. mHandle \in Handles
    BY <2>1 DEF IInv, Opening, Lifetime, Exclusive
  <2>4. Closed(mState') = Closed(mState) /\ Disposed(mState') = Disposed(mState)
    BY <1>3 DEF AddRefWord, Word, Closed, Disposed
  <2>5. Abstract!Enter(t)
    BY <1>1, <2>1, <2>2, <2>3, <2>4 DEF Abstract!Enter
  <2>6. QED BY <2>1, <2>5 DEF Abstract!Next
<1>4. QED BY <1>2, <1>3

\* The thread that wins the compare-and-swap of Release(false) leaves, and
\* closes the word if it was the last of a disposed one.
LEMMA ReleaseCasImplements ==
  ASSUME IInv, NEW t \in Threads, ReleaseCas(t)
  PROVE  Abstract!Next \/ UNCHANGED Abstract!vars
<1> USE HandlesAssumption DEF ReleaseCas, CasRelease, AfterRelease, os
<1>1. \A h \in Handles : Place(h)' = Place(h)
  BY PlacesStay DEF IInv, TypeOK
<1>2. CASE mState # old[t]
  <2>1. RefHolders' = RefHolders BY <1>2 DEF IInv, RefHolders, Frames, TypeOK
  <2>2. QED BY <1>1, <1>2, <2>1, NothingMoves
<1>3. CASE mState = old[t]
  <2>1. t \in RefHolders /\ t \notin incremented /\ t \in Users
    BY DEF IInv, RefHolders, Frames, Roles
  <2>2. ~Closed(mState) /\ mState.refs \in Nat \ {0}
    BY <2>1 DEF IInv, RefCountIsExact, Opening, TypeOK, StateWord
  <2>3. RefHolders' = RefHolders \ {t}
    BY <1>3, <2>1 DEF IInv, RefHolders, TypeOK
  <2>4. /\ Cardinality(RefHolders) \in Nat
        /\ mState.refs = 1 <=> Disposed(mState) /\ RefHolders' = {}
    <3>1. /\ Cardinality(RefHolders) \in Nat /\ Cardinality(RefHolders) >= 1
          /\ Cardinality(RefHolders) = 1 <=> RefHolders' = {}
      BY <2>1, <2>3, HolderLeaves, HoldersFinite DEF IInv
    <3>2. mState.refs = Cardinality(RefHolders) + (IF Disposed(mState) THEN 0 ELSE 1)
      BY <2>2 DEF IInv, RefCountIsExact
    <3>3. QED BY <3>1, <3>2
  <2>5. /\ Closed(mState') <=> mState.refs = 1
        /\ Disposed(mState') <=> Disposed(mState)
    BY <1>3, <2>2 DEF ReleaseWord, Word, Closed, Disposed
  <2>6. Abstract!Leave(t)
    BY <1>1, <2>1, <2>2, <2>3, <2>4, <2>5 DEF Abstract!Leave
  <2>7. QED BY <2>1, <2>6 DEF Abstract!Next
<1>4. QED BY <1>2, <1>3

\* The thread that wins the compare-and-swap of Release(true) asks for the
\* close of an open word; on a Closed one there is nothing to ask.
LEMMA DisposeCasImplements ==
  ASSUME IInv, NEW t \in Threads, DisposeCas(t)
  PROVE  Abstract!Next \/ UNCHANGED Abstract!vars
<1> USE HandlesAssumption DEF DisposeCas, CasRelease, AfterRelease, os
<1>1. \A h \in Handles : Place(h)' = Place(h)
  BY PlacesStay DEF IInv, TypeOK
<1>2. RefHolders' = RefHolders BY DEF IInv, RefHolders, Frames, TypeOK
<1>3. CASE mState # old[t]
  BY <1>1, <1>2, <1>3, NothingMoves
<1>4. CASE mState = old[t]
  <2>1. ~Disposed(mState) BY <1>4 DEF IInv, Frames
  <2>2. /\ Closed(mState') <=> Closed(mState) \/ mState.refs = 1
        /\ Disposed(mState')
    BY <1>4 DEF ReleaseWord, Word, Closed, Disposed
  <2>3. CASE Closed(mState)
    BY <1>1, <1>2, <1>4, <2>2, <2>3 DEF Abstract!vars
  <2>4. CASE ~Closed(mState)
    <3>1. mHandle \in Handles
      BY <2>4 DEF IInv, Opening, Lifetime, Exclusive
    <3>2. mState.refs = 1 <=> RefHolders = {}
      BY <2>1, <2>4, HoldersFinite DEF IInv, RefCountIsExact
    <3>3. Abstract!AskClose
      BY <1>1, <1>2, <1>4, <2>1, <2>2, <2>4, <3>1, <3>2 DEF Abstract!AskClose
    <3>4. QED BY <3>3 DEF Abstract!Next
  <2>5. QED BY <2>3, <2>4
<1>5. QED BY <1>3, <1>4

\* Who has a handle that a thread has in hand, and who the object's.
LEMMA PlaceInHand ==
  ASSUME IInv, NEW t \in Threads, arg[t] \in Handles
  PROVE  Place(arg[t]) = IF pc[t] = "releaseHandle" THEN "leaving" ELSE "offered"
BY HandlesAssumption DEF IInv, TypeOK, Custody, Place

LEMMA PlaceOwned ==
  ASSUME IInv
  PROVE  /\ mHandle \in Handles => Place(mHandle) = "owned"
         /\ \A h \in Handles : Place(h) = "owned" => h = mHandle
BY HandlesAssumption DEF IInv, TypeOK, Custody, Place

\* The caller opens a handle, or has none to attach.
LEMMA BeginAttachImplements ==
  ASSUME IInv, NEW t \in Threads, NEW h \in Handles \cup {Invalid},
         BeginAttach(t, h) \/ BeginThreadSafeAttach(t, h)
  PROVE  Abstract!Next \/ UNCHANGED Abstract!vars
<1> USE HandlesAssumption DEF BeginAttach, BeginThreadSafeAttach, Start, Goto, shared
<1>1. RefHolders' = RefHolders BY DEF IInv, RefHolders, Frames, TypeOK
<1>2. /\ pc[t] = "idle" /\ arg[t] = None /\ arg' = [arg EXCEPT ![t] = h]
      /\ \A s \in Threads : pc'[s] = "releaseHandle" <=> pc[s] = "releaseHandle"
      /\ \A s \in Threads : pc[s] = "releaseHandle" => s # t
  BY DEF IInv, TypeOK, Frames
<1>3. \A k \in Handles \ {h} : Place(k)' = Place(k)
  <2> SUFFICES ASSUME NEW k \in Handles \ {h} PROVE Place(k)' = Place(k) OBVIOUS
  <2>1. \A s \in Threads : arg'[s] = k <=> arg[s] = k
    BY <1>2 DEF IInv, TypeOK
  <2>2. QED BY <1>2, <2>1, PlaceStays
<1>4. CASE h \in Handles
  <2>1. /\ h \notin opened /\ h \notin returned /\ closes[h] = 0 /\ h # mHandle
        /\ \A s \in Threads : arg[s] # h
    BY <1>4 DEF IInv, TypeOK, Custody
  <2>2. Place(h) = "new" BY <2>1 DEF Place
  <2>3. \A s \in Threads : ~(arg'[s] = h /\ pc'[s] = "releaseHandle")
    BY <1>2, <2>1 DEF IInv, TypeOK
  <2>4. Place(h)' = "offered" BY <1>4, <2>1, <2>3 DEF Place
  <2>5. Abstract!Open(h)
    BY <1>1, <1>3, <1>4, <2>2, <2>4, OnePlaceMoves DEF Abstract!Open, Abstract!Resting
  <2>6. QED BY <1>4, <2>5 DEF Abstract!Next
<1>5. CASE h = Invalid
  BY <1>1, <1>3, <1>5, NothingMoves
<1>6. QED BY <1>4, <1>5

\* Attach() refuses a handle that comes when the object has one.
LEMMA AttachCheckImplements ==
  ASSUME IInv, NEW t \in Threads, AttachCheck(t)
  PROVE  Abstract!Next \/ UNCHANGED Abstract!vars
<1> USE HandlesAssumption DEF AttachCheck, Goto, shared
<1>1. RefHolders' = RefHolders BY DEF IInv, RefHolders, Frames, TypeOK
<1>2. \A s \in Threads : /\ pc'[s] = "releaseHandle" <=> pc[s] = "releaseHandle"
                         /\ pc[s] = "releaseHandle" => arg'[s] = arg[s]
  BY DEF IInv, TypeOK
<1>3. \A k \in Handles : (k \in returned' <=> k \in returned) => Place(k)' = Place(k)
  BY <1>2, PlaceStays
<1>4. CASE Valid /\ arg[t] \in Handles
  <2> PICK h \in Handles : h = arg[t] BY <1>4
  <2>1. Place(h) = "offered" BY <1>4, PlaceInHand
  <2>2. Place(h)' = "returned" BY <1>4 DEF Place, IInv, Custody
  <2>3. \A k \in Handles \ {h} : Place(k)' = Place(k) BY <1>3
  <2>4. Abstract!Refuse(h)
    BY <1>1, <1>4, <2>1, <2>2, <2>3, OnePlaceMoves DEF Abstract!Refuse, Abstract!Resting
  <2>5. QED BY <1>4, <2>4 DEF Abstract!Next
<1>5. CASE ~(Valid /\ arg[t] \in Handles)
  <2>1. returned' = returned BY <1>5
  <2>2. QED BY <1>1, <1>3, <2>1, NothingMoves
<1>6. QED BY <1>4, <1>5

\* A handle moves into the empty object.
LEMMA StoreImplements ==
  ASSUME IInv, NEW t \in Threads, mHandle = Invalid, Closed(mState), arg[t] \in Handles,
         pc[t] # "releaseHandle", mHandle' = arg[t], arg' = [arg EXCEPT ![t] = None],
         \A s \in Threads : pc'[s] = "releaseHandle" <=> pc[s] = "releaseHandle",
         UNCHANGED <<mState, opened, closes, returned>>, RefHolders' = RefHolders
  PROVE  Abstract!Next
<1> USE HandlesAssumption
<1> PICK h \in Handles : h = arg[t] OBVIOUS
<1>1. Place(h) = "offered" BY PlaceInHand
<1>2. Place(h)' = "owned" BY DEF Place, IInv, Custody
<1>3. ASSUME NEW k \in Handles \ {h} PROVE Place(k)' = Place(k)
  <2>1. \A s \in Threads : arg'[s] = k <=> arg[s] = k BY <1>3 DEF IInv, TypeOK
  <2>2. QED BY <1>3, <2>1, PlaceStays
<1>4. \A k \in Handles : Place(k) # "owned" BY PlaceOwned
<1>5. Abstract!Store(h)
  BY <1>1, <1>2, <1>3, <1>4, OnePlaceMoves DEF Abstract!Store, Abstract!Resting
<1>6. QED BY <1>5 DEF Abstract!Next

\* Attach() stores the handle, or nothing if opening it failed.
LEMMA AttachStoreImplements ==
  ASSUME IInv, NEW t \in Threads, AttachStore(t)
  PROVE  Abstract!Next \/ UNCHANGED Abstract!vars
<1> USE HandlesAssumption DEF AttachStore, Goto, os
<1>1. RefHolders' = RefHolders BY DEF IInv, RefHolders, Frames, TypeOK
<1>2. Closed(mState) /\ mHandle = Invalid
  BY DEF IInv, Opening, Turn
<1>3. \A s \in Threads : pc'[s] = "releaseHandle" <=> pc[s] = "releaseHandle"
  BY DEF IInv, TypeOK
<1>4. CASE arg[t] \in Handles
  BY <1>1, <1>2, <1>3, <1>4, StoreImplements
<1>5. CASE arg[t] = Invalid
  <2>1. ASSUME NEW k \in Handles PROVE Place(k)' = Place(k)
    <3>1. \A s \in Threads : arg'[s] = k <=> arg[s] = k BY <1>5 DEF IInv, TypeOK
    <3>2. QED BY <1>2, <1>3, <1>5, <3>1, PlaceStays
  <2>2. QED BY <1>1, <1>2, <1>5, <2>1, NothingMoves
<1>6. QED BY <1>4, <1>5 DEF IInv, TypeOK, Frames

\* ThreadSafeAttach() stores the handle, or closes it if another was first.
LEMMA ThreadSafeAttachImplements ==
  ASSUME IInv, NEW t \in Threads, ThreadSafeAttach(t)
  PROVE  Abstract!Next
<1> USE HandlesAssumption DEF ThreadSafeAttach, Goto
<1>1. RefHolders' = RefHolders BY DEF IInv, RefHolders, Frames, TypeOK
<1>2. arg[t] \in Handles /\ life = "alive"
  BY DEF IInv, Frames, Lifetime, Exclusive
<1>3. \A s \in Threads : pc'[s] = "releaseHandle" <=> pc[s] = "releaseHandle"
  BY DEF IInv, TypeOK
<1>4. CASE ~Valid
  <2>1. Closed(mState) BY <1>2, <1>4 DEF IInv, Opening, Valid
  <2>2. QED BY <1>1, <1>2, <1>3, <1>4, <2>1, StoreImplements DEF Valid
<1>5. CASE Valid
  <2> PICK h \in Handles : h = arg[t] BY <1>2
  <2>1. Place(h) = "offered" BY <1>2, PlaceInHand
  <2>2. closes'[h] = 1 /\ \A k \in Handles \ {h} : closes'[k] = closes[k]
    BY <1>2, <1>5 DEF IInv, TypeOK, Custody
  <2>3. Place(h)' = "closed" BY <2>2 DEF Place
  <2>4. ASSUME NEW k \in Handles \ {h} PROVE Place(k)' = Place(k)
    <3>1. \A s \in Threads : arg'[s] = k <=> arg[s] = k BY <2>4 DEF IInv, TypeOK
    <3>2. QED BY <1>3, <1>5, <2>2, <2>4, <3>1, PlaceStays
  <2>5. Abstract!Close(h)
    BY <1>1, <1>2, <1>5, <2>1, <2>3, <2>4, OnePlaceMoves
    DEF Abstract!Close, Abstract!Resting
  <2>6. QED BY <1>2, <2>5 DEF Abstract!Next
<1>6. QED BY <1>4, <1>5

\* AfterAttach() publishes the handle; the word it opens had no reference.
LEMMA AfterAttachImplements ==
  ASSUME IInv, NEW t \in Threads, AfterAttach(t)
  PROVE  Abstract!Next \/ UNCHANGED Abstract!vars
<1> USE HandlesAssumption DEF AfterAttach, Goto, os
<1>1. Closed(mState) /\ RefHolders = {}
  BY DEF IInv, Opening, Turn, RefCountIsExact
<1>2. RefHolders' = RefHolders BY DEF IInv, RefHolders, Frames, TypeOK
<1>3. \A h \in Handles : Place(h)' = Place(h)
  BY PlacesStay DEF IInv, TypeOK
<1>4. CASE Valid
  <2>1. mHandle \in Handles BY <1>4 DEF IInv, TypeOK, Valid
  <2>2. ~Closed(mState') /\ ~Disposed(mState')
    BY <1>4 DEF Word, Closed, Disposed
  <2>3. Abstract!Publish(mHandle)
    BY <1>1, <1>2, <1>3, <2>1, <2>2, PlaceOwned DEF Abstract!Publish
  <2>4. QED BY <2>1, <2>3 DEF Abstract!Next
<1>5. CASE ~Valid
  BY <1>2, <1>3, <1>5, NothingMoves
<1>6. QED BY <1>4, <1>5

\* The thread that closed the word takes the handle out.
LEMMA ExchangeHandleImplements ==
  ASSUME IInv, NEW t \in Threads, ExchangeHandle(t)
  PROVE  Abstract!Next
<1> USE HandlesAssumption DEF ExchangeHandle, Goto, os, Valid
<1>1. Closed(mState) /\ mHandle \in Handles /\ arg[t] = None
  BY DEF IInv, Opening, Turn, Frames
<1>2. RefHolders' = RefHolders BY <1>1 DEF IInv, RefHolders, Frames, TypeOK
<1>3. arg' = [arg EXCEPT ![t] = mHandle] /\ pc' = [pc EXCEPT ![t] = "releaseHandle"]
  BY <1>1
<1> PICK h \in Handles : h = mHandle BY <1>1
<1>4. Place(h) = "owned" BY <1>1, PlaceOwned
<1>5. Place(h)' = "leaving"
  <2>1. arg'[t] = h /\ pc'[t] = "releaseHandle" BY <1>3 DEF IInv, TypeOK
  <2>2. /\ h \in opened' /\ h \notin returned' /\ closes'[h] = 0
        /\ h # mHandle'
    BY <1>1 DEF IInv, Custody
  <2>3. QED BY <2>1, <2>2 DEF Place
<1>6. ASSUME NEW k \in Handles \ {h} PROVE Place(k)' = Place(k)
  <2>1. \A s \in Threads : arg'[s] = k /\ pc'[s] = "releaseHandle"
                             <=> arg[s] = k /\ pc[s] = "releaseHandle"
    BY <1>1, <1>3, <1>6 DEF IInv, TypeOK
  <2>2. QED BY <1>6, <2>1, PlaceStays
<1>7. Abstract!Take(h)
  BY <1>1, <1>2, <1>4, <1>5, <1>6, OnePlaceMoves DEF Abstract!Take, Abstract!Resting
<1>8. QED BY <1>1, <1>7 DEF Abstract!Next

\* The handle that was taken out is closed.
LEMMA ReleaseHandleImplements ==
  ASSUME IInv, NEW t \in Threads, ReleaseHandle(t)
  PROVE  Abstract!Next
<1> USE HandlesAssumption DEF ReleaseHandle, AfterRelease, Goto, shared
<1>1. mOwn = TRUE /\ arg[t] \in Handles
  BY DEF IInv, Lifetime, Exclusive, Frames
<1> PICK h \in Handles : h = arg[t] BY <1>1
<1>2. RefHolders' = RefHolders BY DEF IInv, RefHolders, Frames, TypeOK
<1>3. Place(h) = "leaving" BY <1>1, PlaceInHand
<1>4. closes'[h] = 1 /\ \A k \in Handles \ {h} : closes'[k] = closes[k]
  BY <1>1 DEF IInv, TypeOK, Custody
<1>5. Place(h)' = "closed" BY <1>4 DEF Place
<1>6. ASSUME NEW k \in Handles \ {h} PROVE Place(k)' = Place(k)
  <2>1. \A s \in Threads : arg'[s] = k /\ pc'[s] = "releaseHandle"
                             <=> arg[s] = k /\ pc[s] = "releaseHandle"
    BY <1>6 DEF IInv, TypeOK
  <2>2. QED BY <1>4, <1>6, <2>1, PlaceStays
<1>7. Abstract!Close(h)
  BY <1>1, <1>2, <1>3, <1>5, <1>6, OnePlaceMoves DEF Abstract!Close, Abstract!Resting
<1>8. QED BY <1>1, <1>7 DEF Abstract!Next

\* Detach() and the destructor empty the object when nobody uses it.
LEMMA EndImplements ==
  ASSUME IInv, Detach \/ Destroy
  PROVE  Abstract!Next \/ UNCHANGED Abstract!vars
<1> USE HandlesAssumption DEF Detach, Destroy, Valid
<1>1. /\ Exclusive /\ mHandle' = Invalid
      /\ UNCHANGED <<incremented, pc, arg, opened>>
  OBVIOUS
<1>2. RefHolders = {} /\ RefHolders' = {}
  BY <1>1 DEF IInv, Exclusive, Frames, RefHolders, TypeOK
<1>3. ~(Disposed(mState) /\ ~Closed(mState)) /\ ~(Disposed(mState') /\ ~Closed(mState'))
  <2>1. Cardinality(RefHolders) = 0 BY <1>2, FS_EmptySet
  <2>2. ~(Disposed(mState) /\ ~Closed(mState))
    BY <2>1 DEF IInv, RefCountIsExact, Opening
  <2>3. QED BY <2>2 DEF Word, Closed
<1>4. \A k \in Handles \ {mHandle} : Place(k)' = Place(k)
  <2>1. ASSUME NEW k \in Handles \ {mHandle} PROVE closes'[k] = closes[k]
    BY <2>1 DEF IInv, TypeOK
  <2>2. \A k \in Handles \ {mHandle} : k \in returned' <=> k \in returned OBVIOUS
  <2>3. QED BY <1>1, <2>1, <2>2, PlaceStays
<1>5. CASE mHandle \in Handles
  <2> PICK h \in Handles : h = mHandle BY <1>5
  <2>1. mOwn = TRUE BY <1>5 DEF IInv, Lifetime
  <2>2. Place(h) = "owned" BY <1>5, PlaceOwned
  <2>3. CASE Detach
    <3>1. Place(h)' = "returned" BY <1>5, <2>3 DEF Place, IInv, Custody
    <3>2. Abstract!Empty(h, "returned")
      BY <1>1, <1>2, <1>3, <1>4, <1>5, <2>2, <3>1, OnePlaceMoves DEF Abstract!Empty
    <3>3. QED BY <1>5, <3>2 DEF Abstract!Next
  <2>4. CASE Destroy
    <3>1. closes'[h] = 1 BY <1>5, <2>1, <2>4 DEF IInv, TypeOK, Custody
    <3>2. Place(h)' = "closed" BY <3>1 DEF Place
    <3>3. Abstract!Empty(h, "closed")
      BY <1>1, <1>2, <1>3, <1>4, <1>5, <2>2, <3>2, OnePlaceMoves DEF Abstract!Empty
    <3>4. QED BY <1>5, <3>3 DEF Abstract!Next
  <2>5. QED BY <2>3, <2>4
<1>6. CASE mHandle = Invalid
  BY <1>1, <1>2, <1>3, <1>4, <1>6 DEF Abstract!vars
<1>7. QED BY <1>5, <1>6 DEF IInv, TypeOK

LEMMA InitImplements == Init => Abstract!Init
<1> SUFFICES ASSUME Init PROVE Abstract!Init OBVIOUS
<1> USE HandlesAssumption DEF Init
<1>1. \A h \in Handles : Place(h) = "new" BY DEF Place
<1>2. Closed(mState) /\ RefHolders = {} BY DEF Word, Closed, RefHolders
<1>3. QED BY <1>1, <1>2 DEF Abstract!Init

LEMMA StepImplements == IInv /\ [Next]_vars => [Abstract!Next]_Abstract!vars
<1> SUFFICES ASSUME IInv, [Next]_vars PROVE Abstract!Next \/ UNCHANGED Abstract!vars
  OBVIOUS
<1>1. ASSUME NEW t \in Threads, Begin(t)
      PROVE  Abstract!Next \/ UNCHANGED Abstract!vars
  BY <1>1, QuietImplements, BeginAttachImplements DEF Begin
<1>2. ASSUME NEW t \in Threads, Step(t)
      PROVE  Abstract!Next \/ UNCHANGED Abstract!vars
  BY <1>2, QuietImplements, AddRefCasImplements, ReleaseCasImplements,
     DisposeCasImplements, ExchangeHandleImplements, ReleaseHandleImplements,
     AttachCheckImplements, AttachStoreImplements, ThreadSafeAttachImplements,
     AfterAttachImplements
  DEF Step
<1>3. CASE UNCHANGED vars
  <2>1. RefHolders' = RefHolders BY <1>3 DEF vars, RefHolders
  <2>2. \A h \in Handles : Place(h)' = Place(h) BY <1>3 DEF vars, Place
  <2>3. QED BY <1>3, <2>1, <2>2, NothingMoves DEF vars
<1>4. QED BY <1>1, <1>2, <1>3, EndImplements DEF Next, Gone

\* For any number of threads and handles, the two words that the threads
\* change one at a time are one handle that is owned, used and closed: calls
\* and closes happen as OwnedHandle has them, and a Closed word is opened
\* again only when no call of the previous handle is left.
THEOREM HandleTheorem == Spec => ImplementsOwnedHandle
BY InitEstablishes, NextPreserves, InitImplements, StepImplements, PTL
DEF Spec, ImplementsOwnedHandle, Abstract!Spec

=============================================================================
