------------------------ MODULE SafeHandleInductive ------------------------
(***************************************************************************)
(* The inductive invariant behind the safety properties of SafeHandle: who *)
(* holds each reference, who holds each operating-system handle, and which *)
(* thread is the one that will open or empty the object next.              *)
(***************************************************************************)
EXTENDS SafeHandle

\* The program counters a role can be at; only a system call passes a handle.
Roles ==
    \A t \in Threads :
        /\ pc[t] \in {"addRef", "addRefCas", "getHandle", "loadHandle", "call", "aborted",
                     "endAccess", "release", "releaseCas"} => t \in Users
        /\ got[t] # None => t \in Users
        /\ pc[t] \in {"attach", "attachStore"} => t \in Openers
        /\ pc[t] = "threadSafeAttach" => t \in Attachers
        /\ pc[t] \in {"afterAttach", "setOwn"} => t \in Openers \cup Attachers

\* What each program counter implies of the thread's frame.
Frames ==
    \A t \in Threads :
        /\ t \in incremented => pc[t] \in {"getHandle", "loadHandle", "call", "endAccess"}
        /\ t \in incremented /\ pc[t] = "call" => got[t] = mHandle
        /\ pc[t] = "addRefCas" => ~Closed(old[t])
        /\ pc[t] = "disposeCas" => ~Disposed(old[t])
        /\ pc[t] \in {"releaseHandle", "threadSafeAttach"} => arg[t] \in Handles
        /\ pc[t] \in {"attach", "attachStore"} => arg[t] # None
        /\ pc[t] \notin {"releaseHandle", "threadSafeAttach", "attach", "attachStore"}
             => arg[t] = None

\* The threads that are about to empty the object or to publish its state.
Turn == {t \in Threads : pc[t] \in {"exchange", "afterAttach", "attachStore"}}

\* An open word belongs to a live handle and nobody is about to change that;
\* the handle of a closed word is in the hands of one thread.
Opening ==
    /\ ~Closed(mState) => mState.refs # 0
    /\ life = "alive" /\ ~Closed(mState) => mHandle \in Handles /\ Turn = {}
    /\ \A t \in Turn : Closed(mState) /\ \A s \in Turn : s = t
    /\ \A t \in Threads : pc[t] = "exchange" => mHandle \in Handles
    /\ \A t \in Threads : pc[t] = "attachStore" => mHandle = Invalid
    /\ \A t \in Attachers : pc[t] = "afterAttach" => mHandle \in Handles

\* Every opened handle is in exactly one place.
Custody ==
    /\ returned \subseteq opened
    /\ \A h \in Handles : closes[h] \in {0, 1}
    /\ \A h \in Handles : closes[h] = 1 => h \in opened /\ h \notin returned
    /\ mHandle \in Handles => /\ mHandle \in opened /\ mHandle \notin returned
                              /\ closes[mHandle] = 0
                              /\ \A t \in Threads : arg[t] # mHandle
    /\ \A t \in Threads : arg[t] \in Handles =>
          /\ arg[t] \in opened /\ arg[t] \notin returned /\ closes[arg[t]] = 0
          /\ \A s \in Threads : arg[s] = arg[t] => s = t
    /\ \A h \in opened :
          h \in returned \/ closes[h] = 1 \/ mHandle = h \/ \E t \in Threads : arg[t] = h

\* The object owns its handle until it is detached, and is empty afterwards.
Lifetime ==
    /\ life = "alive" => mOwn = TRUE
    /\ life # "alive" => mHandle = Invalid /\ Exclusive

IInv == TypeOK /\ Roles /\ Frames /\ RefCountIsExact /\ Opening /\ Custody /\ Lifetime
=============================================================================
