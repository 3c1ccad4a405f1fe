----------------------------- MODULE SafeHandle -----------------------------
(***************************************************************************)
(* The reference-counted owner of one operating-system handle              *)
(* (libext/safehandle.cpp, libext/safehandle.h).  One word, m_aState,      *)
(* packs a reference count and the bits Closed and Disposed; it is changed *)
(* by compare-and-swap loops.  The handle itself is a second word,         *)
(* m_aHandle.  Threads use the handle through a HandleAccess (AddRef,      *)
(* DangerousGetHandle, the system call, Release), while others Close,      *)
(* attach or finally destroy the object.                                   *)
(*                                                                         *)
(* Every access to m_aState, m_aHandle and m_bOwn is a step of its own.  A *)
(* spurious failure of compare_exchange_weak returns to the load it came   *)
(* from, which changes nothing another thread sees, and is not a step.     *)
(***************************************************************************)
EXTENDS Integers, FiniteSets

CONSTANTS
    Users,      \* threads that make system calls through a HandleAccess
    Closers,    \* threads that call Close()
    Openers,    \* threads that call the unsynchronised Attach() and Detach()
    Attachers,  \* threads that call ThreadSafeAttach()
    Handles,    \* operating-system handles; each is opened at most once
    Invalid,    \* m_invalidHandleValue
    Zero,       \* the 0 that an unreferenced HandleAccess converts to
    None,       \* "no handle" in a thread's frame
    RefMod,     \* the count field is 30 bits wide: it wraps modulo RefMod
    MaxOps      \* bound: operations started by each thread

Threads == Users \cup Closers \cup Openers \cup Attachers

ASSUME ThreadsAssumption ==
    /\ IsFiniteSet(Threads)
    /\ RefMod \in Nat
    /\ Cardinality(Threads) + 2 < RefMod
    /\ MaxOps \in Nat

ASSUME HandlesAssumption ==
    /\ Invalid \notin Handles
    /\ Zero \notin Handles
    /\ None \notin Handles
    /\ Invalid # None
    /\ Zero # None

\* Attach() is not synchronised: an object that is attached with it has one
\* opening thread.  Objects with several use ThreadSafeAttach().
ASSUME ContractAssumption ==
    Openers # {} => Attachers = {} /\ \E o \in Openers : Openers = {o}

VARIABLES
    mState,       \* m_aState: [refs, bits]
    mHandle,      \* m_aHandle
    mOwn,         \* m_bOwn
    incremented,  \* the threads whose HandleAccess has m_bIncremented
    pc,           \* where each thread is
    old,          \* oldState of the thread's compare-and-swap loop
    got,          \* the handle value the thread passed to its system call
    arg,          \* the handle a thread attaches, or took out to release
    opened,       \* operating-system handles that were opened
    closes,       \* how often the system was told to close each handle
    returned,     \* handles given back to the caller: Detach, failed Attach
    life,         \* "alive", "detached" or "destroyed"
    ops           \* operations each thread has started

shared == <<mState, mHandle, mOwn>>
os     == <<opened, closes, returned>>
vars   == <<mState, mHandle, mOwn, incremented, pc, old, got, arg,
            opened, closes, returned, life, ops>>

-----------------------------------------------------------------------------
(* The word m_aState.                                                      *)

StateWord == [refs : 0..(RefMod - 1), bits : SUBSET {"Closed", "Disposed"}]

Word(n, b) == [refs |-> n, bits |-> b]

Closed(w)   == "Closed" \in w.bits
Disposed(w) == "Disposed" \in w.bits

\* Mutant of MinusOne: the count is not modular.
MinusOneNoWrap(n) == n - 1

\* SH_RefCountOne added to or subtracted from the word, in 32 bits.
PlusOne(n)  == IF n = RefMod - 1 THEN 0 ELSE n + 1
MinusOne(n) == IF n = 0 THEN RefMod - 1 ELSE n - 1

AddRefWord(w) == Word(PlusOne(w.refs), w.bits)

\* newState of Release(): mask is {"Disposed"} or {}.
ReleaseWord(w, mask) ==
    Word(MinusOne(w.refs),
         w.bits \cup mask \cup (IF w.refs = 1 THEN {"Closed"} ELSE {}))

\* Mutants of IsLastRef: one reference too early, and not after a Dispose.
IsLastRefEarly(w) == w.refs <= 2 /\ ~Closed(w)
IsLastRefUndisposed(w) == w.refs = 1 /\ w.bits = {}

\* (oldState & (RefCount | Closed)) == RefCountOne.
IsLastRef(w) == w.refs = 1 /\ ~Closed(w)

Valid == mHandle # Invalid

-----------------------------------------------------------------------------
Init ==
    /\ mState = Word(0, {"Closed"})
    /\ mHandle = Invalid
    /\ mOwn = TRUE
    /\ incremented = {}
    /\ pc = [t \in Threads |-> "idle"]
    /\ old = [t \in Threads |-> Word(0, {})]
    /\ got = [t \in Threads |-> None]
    /\ arg = [t \in Threads |-> None]
    /\ opened = {}
    /\ closes = [h \in Handles |-> 0]
    /\ returned = {}
    /\ life = "alive"
    /\ ops = [t \in Threads |-> 0]

Goto(t, from, to) == pc[t] = from /\ pc' = [pc EXCEPT ![t] = to]

Start(t, to) ==
    /\ life = "alive"
    /\ ops[t] < MaxOps
    /\ ops' = [ops EXCEPT ![t] = @ + 1]
    /\ Goto(t, "idle", to)

-----------------------------------------------------------------------------
(* A system call through a HandleAccess.                                   *)

BeginAccess(t) ==
    /\ t \in Users
    /\ Start(t, "addRef")
    /\ UNCHANGED <<shared, incremented, old, got, arg, os, life>>

AddRefLoad(t) ==
    /\ Goto(t, "addRef", IF Closed(mState) THEN "getHandle" ELSE "addRefCas")
    /\ old' = [old EXCEPT ![t] = mState]
    /\ UNCHANGED <<shared, incremented, got, arg, os, life, ops>>

AddRefCas(t) ==
    /\ Goto(t, "addRefCas", IF mState = old[t] THEN "getHandle" ELSE "addRef")
    /\ \/ /\ mState = old[t]
          /\ mState' = AddRefWord(mState)
          /\ incremented' = incremented \cup {t}
       \/ /\ mState # old[t]
          /\ UNCHANGED <<mState, incremented>>
    /\ UNCHANGED <<mHandle, mOwn, old, got, arg, os, life, ops>>

\* operator handle_type() of an access that holds no reference.
GetZero(t) ==
    /\ t \notin incremented
    /\ Goto(t, "getHandle", "call")
    /\ got' = [got EXCEPT ![t] = Zero]
    /\ UNCHANGED <<shared, incremented, old, arg, os, life, ops>>

\* The test of DangerousGetHandle(); the exception unwinds the access.
CheckDisposed(t) ==
    /\ t \in incremented
    /\ Goto(t, "getHandle",
            IF mState.refs = 0 \/ Disposed(mState) THEN "endAccess" ELSE "loadHandle")
    /\ UNCHANGED <<shared, incremented, old, got, arg, os, life, ops>>

LoadHandle(t) ==
    /\ Goto(t, "loadHandle", "call")
    /\ got' = [got EXCEPT ![t] = mHandle]
    /\ UNCHANGED <<shared, incremented, old, arg, os, life, ops>>

CallReturns(t) ==
    /\ Goto(t, "call", "endAccess")
    /\ got' = [got EXCEPT ![t] = None]
    /\ UNCHANGED <<shared, incremented, old, arg, os, life, ops>>

\* Socket::ReleaseFromAPC(): the APC that Stop() queued runs on the calling
\* thread, inside its blocking call, and drops the reference of that call.
ReleaseFromAPC(t) ==
    /\ t \in incremented
    /\ Goto(t, "call", "release")
    /\ incremented' = incremented \ {t}
    /\ UNCHANGED <<shared, old, got, arg, os, life, ops>>

AbortedCallReturns(t) ==
    /\ Goto(t, "aborted", "endAccess")
    /\ got' = [got EXCEPT ![t] = None]
    /\ UNCHANGED <<shared, incremented, old, arg, os, life, ops>>

\* Mutant of EndAccess: m_bIncremented is not reset.
EndAccessAgain(t) ==
    /\ Goto(t, "endAccess", IF t \in incremented THEN "release" ELSE "idle")
    /\ UNCHANGED <<shared, incremented, old, got, arg, os, life, ops>>

\* ~HandleAccess(): CHandleKeeper::Release(), once per access.
EndAccess(t) ==
    /\ Goto(t, "endAccess", IF t \in incremented THEN "release" ELSE "idle")
    /\ incremented' = incremented \ {t}
    /\ UNCHANGED <<shared, old, got, arg, os, life, ops>>

-----------------------------------------------------------------------------
(* Release(fDispose) and InternalReleaseHandle().                          *)

\* Where Release() returns to: into the aborted call, or to the caller.
AfterRelease(t) == IF got[t] = None THEN "idle" ELSE "aborted"

BeginClose(t) ==
    /\ t \in Closers
    /\ Start(t, "dispose")
    /\ UNCHANGED <<shared, incremented, old, got, arg, os, life>>

ReleaseLoad(t) ==
    /\ Goto(t, "release", "releaseCas")
    /\ old' = [old EXCEPT ![t] = mState]
    /\ UNCHANGED <<shared, incremented, got, arg, os, life, ops>>

DisposeLoad(t) ==
    /\ Goto(t, "dispose", IF Disposed(mState) THEN "idle" ELSE "disposeCas")
    /\ old' = [old EXCEPT ![t] = mState]
    /\ UNCHANGED <<shared, incremented, got, arg, os, life, ops>>

CasRelease(t, at, mask, retry) ==
    /\ pc[t] = at
    /\ \/ /\ mState = old[t]
          /\ mState' = ReleaseWord(mState, mask)
          /\ pc' = [pc EXCEPT ![t] =
                      IF IsLastRef(mState) THEN "exchange" ELSE AfterRelease(t)]
       \/ /\ mState # old[t]
          /\ mState' = mState
          /\ pc' = [pc EXCEPT ![t] = retry]
    /\ UNCHANGED <<mHandle, mOwn, incremented, old, got, arg, os, life, ops>>

ReleaseCas(t) == CasRelease(t, "releaseCas", {}, "release")
DisposeCas(t) == CasRelease(t, "disposeCas", {"Disposed"}, "dispose")

\* Mutant of ExchangeHandle: a load instead of the exchange.
ExchangeHandleLoads(t) ==
    /\ Goto(t, "exchange", IF Valid THEN "releaseHandle" ELSE AfterRelease(t))
    /\ arg' = [arg EXCEPT ![t] = IF Valid THEN mHandle ELSE None]
    /\ UNCHANGED <<shared, incremented, old, got, os, life, ops>>

ExchangeHandle(t) ==
    /\ Goto(t, "exchange", IF Valid THEN "releaseHandle" ELSE AfterRelease(t))
    /\ arg' = [arg EXCEPT ![t] = IF Valid THEN mHandle ELSE None]
    /\ mHandle' = Invalid
    /\ UNCHANGED <<mState, mOwn, incremented, old, got, os, life, ops>>

ReleaseHandle(t) ==
    /\ Goto(t, "releaseHandle", AfterRelease(t))
    /\ closes' = IF mOwn THEN [closes EXCEPT ![arg[t]] = @ + 1] ELSE closes
    /\ arg' = [arg EXCEPT ![t] = None]
    /\ UNCHANGED <<shared, incremented, old, got, opened, returned, life, ops>>

-----------------------------------------------------------------------------
(* Attach(), ThreadSafeAttach() and AfterAttach().                         *)

\* The caller opens h, or fails to and passes the invalid value on.
BeginAttach(t, h) ==
    /\ t \in Openers
    /\ h \in (Handles \ opened) \cup {Invalid}
    /\ Start(t, "attach")
    /\ arg' = [arg EXCEPT ![t] = h]
    /\ opened' = opened \cup ({h} \cap Handles)
    /\ UNCHANGED <<shared, incremented, old, got, closes, returned, life>>

\* Attach() throws AlreadyOpened and the caller keeps its handle.
AttachCheck(t) ==
    /\ Goto(t, "attach", IF Valid THEN "idle" ELSE "attachStore")
    /\ returned' = IF Valid THEN returned \cup ({arg[t]} \cap Handles) ELSE returned
    /\ arg' = [arg EXCEPT ![t] = IF Valid THEN None ELSE @]
    /\ UNCHANGED <<shared, incremented, old, got, opened, closes, life, ops>>

AttachStore(t) ==
    /\ Goto(t, "attachStore", "afterAttach")
    /\ mHandle' = arg[t]
    /\ arg' = [arg EXCEPT ![t] = None]
    /\ UNCHANGED <<mState, mOwn, incremented, old, got, os, life, ops>>

BeginThreadSafeAttach(t, h) ==
    /\ t \in Attachers
    /\ h \in Handles \ opened
    /\ Start(t, "threadSafeAttach")
    /\ arg' = [arg EXCEPT ![t] = h]
    /\ opened' = opened \cup {h}
    /\ UNCHANGED <<shared, incremented, old, got, closes, returned, life>>

\* Mutant of ThreadSafeAttach: the loser forgets its handle.
ThreadSafeAttachLeaks(t) ==
    /\ Goto(t, "threadSafeAttach", IF Valid THEN "idle" ELSE "afterAttach")
    /\ mHandle' = IF Valid THEN mHandle ELSE arg[t]
    /\ arg' = [arg EXCEPT ![t] = None]
    /\ UNCHANGED <<mState, mOwn, incremented, old, got, os, life, ops>>

\* The loser of the compare-and-swap closes its own handle.
ThreadSafeAttach(t) ==
    /\ Goto(t, "threadSafeAttach", IF Valid THEN "idle" ELSE "afterAttach")
    /\ mHandle' = IF Valid THEN mHandle ELSE arg[t]
    /\ closes' = IF Valid THEN [closes EXCEPT ![arg[t]] = @ + 1] ELSE closes
    /\ arg' = [arg EXCEPT ![t] = None]
    /\ UNCHANGED <<mState, mOwn, incremented, old, got, opened, returned, life, ops>>

\* Mutant of AfterAttach: the handle is not tested.
AfterAttachUnchecked(t) ==
    /\ Goto(t, "afterAttach", "setOwn")
    /\ mState' = Word(1, {})
    /\ UNCHANGED <<mHandle, mOwn, incremented, old, got, arg, os, life, ops>>

\* AfterAttach(): the state word first, m_bOwn after it.
AfterAttach(t) ==
    /\ Goto(t, "afterAttach", IF Valid THEN "setOwn" ELSE "idle")
    /\ mState' = IF Valid THEN Word(1, {}) ELSE mState
    /\ UNCHANGED <<mHandle, mOwn, incremented, old, got, arg, os, life, ops>>

\* Every caller in the repository leaves bOwn at its default, true.
SetOwn(t) ==
    /\ Goto(t, "setOwn", "idle")
    /\ mOwn' = TRUE
    /\ UNCHANGED <<mState, mHandle, incremented, old, got, arg, os, life, ops>>

-----------------------------------------------------------------------------
(* Detach() and the destructor run when no other thread is inside the      *)
(* object; every caller in the repository detaches a local object that it  *)
(* then destroys.                                                          *)

Exclusive == \A t \in Threads : pc[t] = "idle"

Detach ==
    /\ Exclusive
    /\ life = "alive"
    /\ Openers # {}
    /\ life' = "detached"
    /\ mState' = Word(0, {"Closed", "Disposed"})
    /\ mOwn' = FALSE
    /\ mHandle' = Invalid
    /\ returned' = returned \cup ({mHandle} \cap Handles)
    /\ UNCHANGED <<incremented, pc, old, got, arg, opened, closes, ops>>

Destroy ==
    /\ Exclusive
    /\ life # "destroyed"
    /\ life' = "destroyed"
    /\ mHandle' = Invalid
    /\ closes' = IF Valid /\ mOwn THEN [closes EXCEPT ![mHandle] = @ + 1] ELSE closes
    /\ UNCHANGED <<mState, mOwn, incremented, pc, old, got, arg, opened, returned, ops>>

-----------------------------------------------------------------------------
Begin(t) ==
    \/ BeginAccess(t)
    \/ BeginClose(t)
    \/ \E h \in Handles \cup {Invalid} : BeginAttach(t, h)
    \/ \E h \in Handles : BeginThreadSafeAttach(t, h)

\* A step of an operation that has begun.
Step(t) ==
    \/ AddRefLoad(t) \/ AddRefCas(t)
    \/ GetZero(t) \/ CheckDisposed(t) \/ LoadHandle(t)
    \/ CallReturns(t) \/ ReleaseFromAPC(t) \/ AbortedCallReturns(t) \/ EndAccess(t)
    \/ ReleaseLoad(t) \/ ReleaseCas(t) \/ DisposeLoad(t) \/ DisposeCas(t)
    \/ ExchangeHandle(t) \/ ReleaseHandle(t)
    \/ AttachCheck(t) \/ AttachStore(t) \/ ThreadSafeAttach(t)
    \/ AfterAttach(t) \/ SetOwn(t)

\* The destroyed object is gone: nothing happens to it any more.
Gone == life = "destroyed" /\ UNCHANGED vars

Next ==
    \/ \E t \in Threads : Begin(t) \/ Step(t)
    \/ Detach
    \/ Destroy
    \/ Gone

Spec == Init /\ [][Next]_vars

\* Threads that are inside an operation are scheduled, and a system call
\* returns or is aborted by the APC.  Nobody is obliged to start anything.
FairSpec == Spec /\ \A t \in Threads : WF_vars(Step(t))

-----------------------------------------------------------------------------
(* What the object promises.                                               *)

PCs == {"idle", "addRef", "addRefCas", "getHandle", "loadHandle", "call",
        "aborted", "endAccess", "release", "releaseCas", "dispose",
        "disposeCas", "exchange", "releaseHandle", "attach", "attachStore",
        "threadSafeAttach", "afterAttach", "setOwn"}

\* Every variable has its type.
TypeOK ==
    /\ mState \in StateWord
    /\ mHandle \in Handles \cup {Invalid}
    /\ mOwn \in BOOLEAN
    /\ incremented \in SUBSET Threads
    /\ pc \in [Threads -> PCs]
    /\ old \in [Threads -> StateWord]
    /\ got \in [Threads -> Handles \cup {Invalid, Zero, None}]
    /\ arg \in [Threads -> Handles \cup {Invalid, None}]
    /\ opened \in SUBSET Handles
    /\ closes \in [Handles -> Nat]
    /\ returned \in SUBSET Handles
    /\ life \in {"alive", "detached", "destroyed"}
    /\ ops \in [Threads -> Nat]

\* A thread in a system call whose access still holds its reference is using
\* a handle that is open and is the one the object holds: no Close, Release
\* or re-Attach of another thread takes it away (AddRef/Release/Exchange).
HandleInUseIsOpen ==
    \A t \in incremented :
        pc[t] = "call" => got[t] \in opened /\ closes[got[t]] = 0 /\ got[t] = mHandle

\* No handle is closed twice, whichever threads race in Release(),
\* ThreadSafeAttach() and the destructor, and none that was given back to
\* the caller is closed at all.
ReleasedAtMostOnce ==
    \A h \in Handles : closes[h] <= (IF h \in returned THEN 0 ELSE 1)

\* When the object has been destroyed, every handle it was given is closed,
\* also one whose Close() came in the middle of an Attach and was lost.
NoHandleLeaks ==
    life = "destroyed" => \A h \in opened \ returned : closes[h] = 1

\* The threads whose reference is part of the count: m_bIncremented is reset
\* before the count is decremented.
RefHolders == {t \in Threads : t \in incremented \/ pc[t] \in {"release", "releaseCas"}}

\* While the word is not Closed, the count is the number of references that
\* threads hold, plus the object's own until it is disposed; a Closed word
\* has no reference outstanding.
RefCountIsExact ==
    IF Closed(mState)
    THEN RefHolders = {}
    ELSE mState.refs = Cardinality(RefHolders) + (IF Disposed(mState) THEN 0 ELSE 1)

\* Who keeps a handle.
Place(h) ==
    IF closes[h] > 0 THEN "closed"
    ELSE IF h \in returned THEN "returned"
    ELSE IF h = mHandle THEN "owned"
    ELSE IF h \notin opened THEN "new"
    ELSE IF \E t \in Threads : arg[t] = h /\ pc[t] = "releaseHandle" THEN "leaving"
    ELSE "offered"

Abstract ==
    INSTANCE OwnedHandle WITH
        Callers <- Users, Nothing <- Invalid,
        place <- [h \in Handles |-> Place(h)],
        current <- IF Closed(mState) THEN Invalid ELSE mHandle,
        calling <- RefHolders,
        asked <- Disposed(mState) /\ ~Closed(mState)

\* The two words, changed one at a time by any thread, are one owned handle:
\* a Closed word is opened again only by an attach that finds no reference of
\* the previous handle, and a handle goes when its last reference does.
ImplementsOwnedHandle == Abstract!Spec

\* A Close() that found references outstanding is carried out: the handle is
\* closed when the last access ends.
DisposedIsReleased ==
    \A h \in Handles :
        (mHandle = h /\ Disposed(mState) /\ ~Closed(mState)) ~> (closes[h] = 1)
=============================================================================
