---------------------------- MODULE ThreadGroup ----------------------------
(***************************************************************************)
(* thread_group and the life of a ThreadBase in it (libext/threader.cpp,   *)
(* libext/ext-thread.h): Start() enters the thread in the group and        *)
(* creates it, the new thread runs and leaves the group by itself, and     *)
(* StopChilds() in the group's destructor interrupts and joins the rest.   *)
(* The destructor's thread is the Owner; an executing thread may start     *)
(* further threads of its own group, as ListeningThread does.              *)
(*                                                                         *)
(* A step is one section under m_cs, or one access to shared state outside *)
(* it.                                                                     *)
(***************************************************************************)
EXTENDS Integers, FiniteSets

CONSTANTS
    Kids,         \* the threads that may be started in the group
    Owner,        \* the thread that owns the group
    CanFail,      \* TRUE: the system may refuse to create a thread
    CanTimeOut    \* TRUE: StopChild() is called with a timeout

ASSUME ThreadGroupAssumption ==
    /\ IsFiniteSet(Kids)
    /\ Owner \notin Kids
    /\ CanFail \in BOOLEAN /\ CanTimeOut \in BOOLEAN

VARIABLES
    start,        \* where the Start() of each thread is
    starter,      \* who called it
    run,          \* where each new thread is in CppThreadThunk()
    ref,          \* the reference count of each ThreadBase
    valid,        \* threads with a handle: Valid()
    mStop,        \* m_bStop
    autoDelete,   \* m_bAutoDelete
    members,      \* m_threads
    extRef,       \* m_aRef of the group
    evFinal,      \* m_evFinal
    joinList,     \* the set ar of join_all()
    phase,        \* what the Owner does with the group
    victim,       \* the thread that StopChild() stops
    late          \* history: threads that StopChild(s) found not yet created,
                  \* or that were added after interrupt_all()

groupVars == <<members, extRef, evFinal>>
ownerVars == <<joinList, phase, victim>>
vars == <<start, starter, run, ref, valid, mStop, autoDelete, groupVars, ownerVars, late>>

Init ==
    /\ start = [k \in Kids |-> "none"] /\ starter = [k \in Kids |-> Owner]
    /\ run = [k \in Kids |-> "none"]
    /\ ref = [k \in Kids |-> 0]
    /\ valid = {} /\ mStop = {} /\ autoDelete = Kids
    /\ members = {} /\ extRef = 0 /\ evFinal = FALSE
    /\ joinList = {} /\ phase = "up" /\ victim = Owner
    /\ late = {}

Starting(k) == start[k] \in {"begun", "added", "created"}

\* What a thread does with a group that is destroyed is undefined: it does
\* not get further in the model.
GroupLives == phase # "destroyed"

\* The thread s is inside no Start().
Free(s) == \A k \in Kids : ~(Starting(k) /\ starter[k] = s)

StartGoto(k, from, to) == start[k] = from /\ start' = [start EXCEPT ![k] = to]
RunGoto(k, from, to)   == run[k] = from /\ run' = [run EXCEPT ![k] = to]

-----------------------------------------------------------------------------
(* Start() and Create().                                                   *)

\* tSelf: the object lives as long as its Start().
Begin(s, k) ==
    /\ IF s = Owner THEN phase = "up" ELSE run[s] = "executing" /\ GroupLives
    /\ Free(s)
    /\ StartGoto(k, "none", "begun")
    /\ starter' = [starter EXCEPT ![k] = s]
    /\ ref' = [ref EXCEPT ![k] = @ + 1]
    /\ UNCHANGED <<run, valid, mStop, autoDelete, groupVars, ownerVars, late>>

AddThread(k) ==
    /\ GroupLives
    /\ StartGoto(k, "begun", "added")
    /\ members' = members \cup {k}
    /\ ref' = [ref EXCEPT ![k] = @ + 1]
    /\ extRef' = extRef + 1
    /\ late' = IF phase \in {"up", "stopJoin"} THEN late ELSE late \cup {k}
    /\ UNCHANGED <<starter, run, valid, mStop, autoDelete, evFinal, ownerVars>>

\* Mutant of CreateThread: the new thread runs without a reference.
CreateThreadUncounted(k) ==
    /\ StartGoto(k, "added", "created")
    /\ RunGoto(k, "none", "spawned")
    /\ UNCHANGED <<starter, ref, valid, mStop, autoDelete, groupVars, ownerVars, late>>

\* ++m_aRef on behalf of the new thread, which begins to run.
CreateThread(k) ==
    /\ StartGoto(k, "added", "created")
    /\ RunGoto(k, "none", "spawned")
    /\ ref' = [ref EXCEPT ![k] = @ + 1]
    /\ UNCHANGED <<starter, valid, mStop, autoDelete, groupVars, ownerVars, late>>

\* The creation fails: Start() throws, but the object stays in the group.
CreateFails(k) ==
    /\ CanFail
    /\ StartGoto(k, "added", "failed")
    /\ ref' = [ref EXCEPT ![k] = @ - 1]
    /\ UNCHANGED <<starter, run, valid, mStop, autoDelete, groupVars, ownerVars, late>>

\* The creator stores the new thread's handle and leaves Start().
AttachByCreator(k) ==
    /\ StartGoto(k, "created", "done")
    /\ valid' = valid \cup {k}
    /\ ref' = [ref EXCEPT ![k] = @ - 1]
    /\ UNCHANGED <<starter, run, mStop, autoDelete, groupVars, ownerVars, late>>

-----------------------------------------------------------------------------
(* CppThreadThunk() on the new thread.                                     *)

AttachSelf(k) ==
    /\ RunGoto(k, "spawned", "executing")
    /\ valid' = valid \cup {k}
    /\ UNCHANGED <<start, starter, ref, mStop, autoDelete, groupVars, ownerVars, late>>

\* Execute() comes to its end, or an interruption point throws.
ExecuteEnds(k) ==
    /\ Free(k)
    /\ RunGoto(k, "executing", "externalRelease")
    /\ UNCHANGED <<start, starter, ref, valid, mStop, autoDelete, groupVars, ownerVars, late>>

Interrupted(k) == k \in mStop /\ ExecuteEnds(k)

\* Mutants of ExternalRelease: the thread leaves m_threads before its last use
\* of the group; the count is taken one too low; and it is taken twice.
ExternalReleaseErases(k) ==
    /\ GroupLives
    /\ RunGoto(k, "externalRelease", "remove")
    /\ extRef' = extRef - 1
    /\ evFinal' = (evFinal \/ extRef' = 0)
    /\ members' = members \ ({k} \cap autoDelete)
    /\ ref' = [ref EXCEPT ![k] = @ - Cardinality({k} \cap members \cap autoDelete)]
    /\ UNCHANGED <<start, starter, valid, mStop, autoDelete, ownerVars, late>>

ExternalReleaseEarly(k) ==
    /\ GroupLives
    /\ RunGoto(k, "externalRelease", "remove")
    /\ extRef' = extRef - 1
    /\ evFinal' = (evFinal \/ extRef' <= 1)
    /\ UNCHANGED <<start, starter, ref, valid, mStop, autoDelete, members, ownerVars, late>>

ExternalReleaseTwice(k) ==
    /\ GroupLives
    /\ RunGoto(k, "externalRelease", "remove")
    /\ extRef' = extRef - 2
    /\ evFinal' = (evFinal \/ extRef' = 0)
    /\ UNCHANGED <<start, starter, ref, valid, mStop, autoDelete, members, ownerVars, late>>

ExternalRelease(k) ==
    /\ GroupLives
    /\ RunGoto(k, "externalRelease", "remove")
    /\ extRef' = extRef - 1
    /\ evFinal' = (evFinal \/ extRef' = 0)
    /\ UNCHANGED <<start, starter, ref, valid, mStop, autoDelete, members, ownerVars, late>>

RemoveThread(k) ==
    /\ GroupLives
    /\ RunGoto(k, "remove", "release")
    /\ IF k \in autoDelete
       THEN members' = members \ {k} /\ ref' = [ref EXCEPT ![k] = @ - Cardinality({k} \cap members)]
       ELSE UNCHANGED <<members, ref>>
    /\ UNCHANGED <<start, starter, valid, mStop, autoDelete, extRef, evFinal, ownerVars, late>>

\* CCounterIncDec::Release(this): the last statement of the thread.
ReleaseSelf(k) ==
    /\ RunGoto(k, "release", "ended")
    /\ ref' = [ref EXCEPT ![k] = @ - 1]
    /\ UNCHANGED <<start, starter, valid, mStop, autoDelete, groupVars, ownerVars, late>>

-----------------------------------------------------------------------------
(* StopChilds(), from the destructor, and StopChild().                     *)

\* Mutant of InterruptAll: the threads are marked and not told.
InterruptAllQuietly ==
    /\ phase = "up" /\ Free(Owner)
    /\ phase' = "interrupted"
    /\ autoDelete' = autoDelete \ members
    /\ late' = late \cup (members \ valid)
    /\ UNCHANGED <<start, starter, run, ref, valid, mStop, groupVars, joinList, victim>>

\* Only a thread that is Valid() is told.
InterruptAll ==
    /\ phase = "up" /\ Free(Owner)
    /\ phase' = "interrupted"
    /\ autoDelete' = autoDelete \ members
    /\ mStop' = mStop \cup (members \cap valid)
    /\ late' = late \cup (members \ valid)
    /\ UNCHANGED <<start, starter, run, ref, valid, groupVars, joinList, victim>>

JoinSwap ==
    /\ phase = "interrupted"
    /\ phase' = "joining"
    /\ joinList' = members
    /\ members' = {}
    /\ UNCHANGED <<start, starter, run, ref, valid, mStop, autoDelete, extRef, evFinal, victim, late>>

\* Join() of every valid thread in turn; then the list, and m_threads with
\* the destructor, drop their references and the group is gone.
JoinEnds ==
    /\ phase = "joining"
    /\ \A k \in joinList \cap valid : run[k] = "ended"
    /\ phase' = "destroyed"
    /\ ref' = [k \in Kids |-> ref[k] - Cardinality({k} \cap joinList)
                                     - Cardinality({k} \cap members)]
    /\ joinList' = {}
    /\ members' = {}
    /\ UNCHANGED <<start, starter, run, valid, mStop, autoDelete, extRef, evFinal, victim, late>>

StopChild(k) ==
    /\ phase = "up" /\ Free(Owner)
    /\ k \in members
    /\ phase' = "stopJoin" /\ victim' = k
    /\ autoDelete' = autoDelete \ {k}
    /\ mStop' = mStop \cup ({k} \cap valid)
    /\ late' = late \cup ({k} \ valid)
    /\ UNCHANGED <<start, starter, run, ref, valid, groupVars, joinList>>

StopChildEnds ==
    /\ phase = "stopJoin"
    /\ victim \in valid => run[victim] = "ended"
    /\ phase' = "up" /\ victim' = Owner
    /\ members' = members \ {victim}
    /\ ref' = [ref EXCEPT ![victim] = @ - 1]
    /\ UNCHANGED <<start, starter, run, valid, mStop, autoDelete, extRef, evFinal, joinList, late>>

\* The thread goes on, and will not take itself out of the group any more.
StopChildTimesOut ==
    /\ CanTimeOut
    /\ phase = "stopJoin" /\ victim \in valid
    /\ phase' = "up" /\ victim' = Owner
    /\ UNCHANGED <<start, starter, run, ref, valid, mStop, autoDelete, groupVars, joinList, late>>

-----------------------------------------------------------------------------
StartStep(k) == AddThread(k) \/ CreateThread(k) \/ CreateFails(k) \/ AttachByCreator(k)

RunStep(k) == AttachSelf(k) \/ ExternalRelease(k) \/ RemoveThread(k) \/ ReleaseSelf(k)

OwnerStep == JoinSwap \/ JoinEnds \/ StopChildEnds

\* The process goes on without the group.
Over == phase = "destroyed" /\ UNCHANGED vars

Next ==
    \/ \E s \in Kids \cup {Owner}, k \in Kids : Begin(s, k)
    \/ \E k \in Kids : StartStep(k) \/ RunStep(k) \/ ExecuteEnds(k) \/ StopChild(k)
    \/ InterruptAll \/ OwnerStep \/ StopChildTimesOut
    \/ Over

Spec == Init /\ [][Next]_vars

\* Threads are scheduled, and a thread that was interrupted reaches an
\* interruption point.  Nothing else makes Execute() end.
FairSpec ==
    /\ Spec
    /\ WF_vars(OwnerStep)
    /\ \A k \in Kids : WF_vars(StartStep(k)) /\ WF_vars(RunStep(k)) /\ WF_vars(Interrupted(k))

-----------------------------------------------------------------------------
\* Every variable has its type.
TypeOK ==
    /\ start \in [Kids -> {"none", "begun", "added", "created", "done", "failed"}]
    /\ starter \in [Kids -> Kids \cup {Owner}]
    /\ run \in [Kids -> {"none", "spawned", "executing", "externalRelease", "remove",
                         "release", "ended"}]
    /\ ref \in [Kids -> 0..3]
    /\ valid \cup mStop \cup autoDelete \cup members \cup joinList \cup late \subseteq Kids
    /\ extRef \in 0..Cardinality(Kids) /\ evFinal \in BOOLEAN
    /\ phase \in {"up", "stopJoin", "interrupted", "joining", "destroyed"}
    /\ victim \in Kids \cup {Owner}

One(p) == IF p THEN 1 ELSE 0

\* The reference count of a thread object is the number of those that use it:
\* its Start(), the group or the list being joined, and the thread itself.  So
\* a running, starting or joined object is never freed, and none leaks,
\* whichever of the thread, Start(), StopChild() and StopChilds() is last.
RefsExact ==
    \A k \in Kids :
        ref[k] = One(Starting(k)) + One(k \in members) + One(k \in joinList)
                 + One(run[k] \notin {"none", "ended"})

\* A thread uses the group behind m_owner until it has removed itself.
UsesGroup(k) == run[k] \in {"spawned", "executing", "externalRelease", "remove"}

\* When the destructor of the group returns, no thread uses the group any
\* more, except those it could not know of: the ones added after
\* interrupt_all(), and the ones it met between add_thread() and Attach().
DestroyedGroupIsUnused ==
    phase = "destroyed" => \A k \in Kids \ late : ~UsesGroup(k)

\* m_evFinal is set only when no thread of the group is executing or about to,
\* also when StopChild() has taken the thread out of m_threads.
FinalWhenIdle ==
    [][~evFinal /\ evFinal' => \A k \in Kids : run'[k] \notin {"spawned", "executing"}]_vars

\* StopChilds() comes to its end unless a thread it could not tell is there.
StopReturns == (phase = "interrupted") ~> (phase = "destroyed" \/ late # {})
=============================================================================
