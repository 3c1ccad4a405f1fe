------------------------- MODULE ThreadGroupProofs -------------------------
(***************************************************************************)
(* Proofs about ThreadGroup for any finite set of threads.                 *)
(***************************************************************************)
EXTENDS ThreadGroup, FiniteSetTheorems, TLAPS

(* TypeOK with counts that are only known to be integers.                  *)
Types ==
    /\ start \in [Kids -> {"none", "begun", "added", "created", "done", "failed"}]
    /\ starter \in [Kids -> Kids \cup {Owner}]
    /\ run \in [Kids -> {"none", "spawned", "executing", "externalRelease", "remove",
                         "release", "ended"}]
    /\ ref \in [Kids -> Int]
    /\ valid \cup mStop \cup autoDelete \cup members \cup joinList \cup late \subseteq Kids
    /\ extRef \in Int /\ evFinal \in BOOLEAN
    /\ phase \in {"up", "stopJoin", "interrupted", "joining", "destroyed"}
    /\ victim \in Kids \cup {Owner}

(* Start() and the new thread agree on how far it is.                      *)
Life ==
    \A k \in Kids :
        /\ run[k] = "none" <=> start[k] \in {"none", "begun", "added", "failed"}
        /\ k \in valid => run[k] # "none"
        /\ k \in members \cup joinList => start[k] \notin {"none", "begun"}

Lists ==
    /\ joinList # {} => phase = "joining"
    /\ members \cap joinList = {}

(* Whoever is stopped or joined has a handle to wait for, or is late; and  *)
(* the thread that StopChild() waits for stays in the group meanwhile.     *)
StopsKnown ==
    /\ phase = "stopJoin" => victim \in members \ autoDelete /\ victim \in valid \cup late
    /\ phase = "interrupted" => members \subseteq valid \cup late
    /\ phase = "joining" => joinList \subseteq valid \cup late

(* The thread uses the group, or will without another look at it.          *)
Inside(k) == start[k] = "added" \/ UsesGroup(k)

(* Who is inside is listed where StopChilds() will look, or is late.       *)
InsideIsListed ==
    \A k \in Kids \ late : Inside(k) =>
        k \in CASE phase \in {"up", "stopJoin", "interrupted"} -> members
                [] phase = "joining" -> joinList
                [] phase = "destroyed" -> {}

(* The threads whose ExternalRelease() is to come; a thread that could not *)
(* be created never calls it.                                              *)
Counted == {k \in Kids : start[k] \notin {"none", "begun"}
                         /\ run[k] \notin {"remove", "release", "ended"}}

ExtRefExact == extRef = Cardinality(Counted)

IInv ==
    /\ Types /\ Life /\ Lists /\ StopsKnown /\ InsideIsListed
    /\ RefsExact /\ ExtRefExact

(* The threads counted are finitely many.                                  *)
LEMMA CountedFinite == IsFiniteSet(Counted) /\ Cardinality(Counted) \in 0..Cardinality(Kids)
<1>1. Counted \subseteq Kids BY DEF Counted
<1>2. QED BY <1>1, FS_Subset, FS_CardinalityType, ThreadGroupAssumption

(* How many references a list holds to one thread.                         *)
LEMMA OneInList ==
  ASSUME NEW k, NEW S
  PROVE  Cardinality({k} \cap S) = One(k \in S)
<1>1. CASE k \in S
  <2>1. {k} \cap S = {k} BY <1>1
  <2>2. QED BY <1>1, <2>1, FS_Singleton DEF One
<1>2. CASE k \notin S
  <2>1. {k} \cap S = {} BY <1>2
  <2>2. QED BY <1>2, <2>1, FS_EmptySet DEF One
<1>3. QED BY <1>1, <1>2

LEMMA InitHolds == Init => IInv
<1> SUFFICES ASSUME Init PROVE IInv
    OBVIOUS
<1>1. Types
  <2>1. start \in [Kids -> {"none", "begun", "added", "created", "done", "failed"}]
        BY DEF Init
  <2>2. run \in [Kids -> {"none", "spawned", "executing", "externalRelease", "remove",
                          "release", "ended"}]
        BY DEF Init
  <2>3. starter \in [Kids -> Kids \cup {Owner}] /\ ref \in [Kids -> Int]
        BY DEF Init
  <2>4. valid \cup mStop \cup autoDelete \cup members \cup joinList \cup late \subseteq Kids
        BY DEF Init
  <2>5. extRef \in Int BY DEF Init
  <2>6. evFinal \in BOOLEAN BY Zenon DEF Init
  <2>7. phase = "up" /\ victim = Owner BY DEF Init
  <2>8. QED BY <2>1, <2>2, <2>3, <2>4, <2>5, <2>6, <2>7 DEF Types
<1>2. Life /\ Lists /\ StopsKnown BY DEF Init, Life, Lists, StopsKnown
<1>3. InsideIsListed BY DEF Init, InsideIsListed, Inside, UsesGroup
<1>4. RefsExact BY DEF Init, RefsExact, Starting, One
<1>5. ExtRefExact
  <2>1. Counted = {} BY DEF Init, Counted
  <2>2. QED BY <2>1, FS_EmptySet DEF Init, ExtRefExact
<1>6. QED BY <1>1, <1>2, <1>3, <1>4, <1>5 DEF IInv

-----------------------------------------------------------------------------
(* Start().                                                                *)

LEMMA BeginPreserves ==
  ASSUME IInv, NEW s \in Kids \cup {Owner}, NEW k \in Kids, Begin(s, k)
  PROVE  IInv'
<1> USE DEF Begin, StartGoto, groupVars, ownerVars
<1>1. Types' BY DEF IInv, Types
<1>2. Life' /\ Lists' /\ StopsKnown' BY DEF IInv, Types, Life, Lists, StopsKnown
<1>3. InsideIsListed' BY DEF IInv, Types, InsideIsListed, Inside, UsesGroup
<1>4. RefsExact' BY DEF IInv, Types, RefsExact, Starting, One
<1>5. Counted' = Counted BY DEF IInv, Types, Counted
<1>6. ExtRefExact' BY <1>5 DEF IInv, ExtRefExact
<1>7. QED BY <1>1, <1>2, <1>3, <1>4, <1>6 DEF IInv

LEMMA AddThreadPreserves ==
  ASSUME IInv, NEW k \in Kids, AddThread(k)
  PROVE  IInv'
<1> USE DEF AddThread, StartGoto, ownerVars, GroupLives
<1>1. k \notin members \cup joinList BY DEF IInv, Life
<1>2. Types' BY DEF IInv, Types
<1>3. Life' BY DEF IInv, Types, Life
<1>4. Lists' BY <1>1 DEF IInv, Lists
<1>5. StopsKnown' BY DEF IInv, StopsKnown
<1>6. InsideIsListed' BY DEF IInv, Types, InsideIsListed, Inside, UsesGroup
<1>7. RefsExact' BY <1>1 DEF IInv, Types, RefsExact, Starting, One
<1>8. ExtRefExact'
  <2>1. k \notin Counted BY DEF Counted
  <2>2. Counted' = Counted \cup {k} BY DEF IInv, Types, Life, Counted
  <2>3. Cardinality(Counted') = Cardinality(Counted) + 1
        BY <2>1, <2>2, CountedFinite, FS_AddElement
  <2>4. QED BY <2>3 DEF IInv, ExtRefExact
<1>9. QED BY <1>2, <1>3, <1>4, <1>5, <1>6, <1>7, <1>8 DEF IInv

LEMMA CreateThreadPreserves ==
  ASSUME IInv, NEW k \in Kids, CreateThread(k)
  PROVE  IInv'
<1> USE DEF CreateThread, StartGoto, RunGoto, groupVars, ownerVars
<1>1. Types' BY DEF IInv, Types
<1>2. Life' /\ Lists' /\ StopsKnown' BY DEF IInv, Types, Life, Lists, StopsKnown
<1>3. InsideIsListed' BY DEF IInv, Types, InsideIsListed, Inside, UsesGroup
<1>4. RefsExact' BY DEF IInv, Types, RefsExact, Starting, One
<1>5. Counted' = Counted BY DEF IInv, Types, Counted
<1>6. ExtRefExact' BY <1>5 DEF IInv, ExtRefExact
<1>7. QED BY <1>1, <1>2, <1>3, <1>4, <1>6 DEF IInv

LEMMA CreateFailsPreserves ==
  ASSUME IInv, NEW k \in Kids, CreateFails(k)
  PROVE  IInv'
<1> USE DEF CreateFails, StartGoto, groupVars, ownerVars
<1>1. Types' BY DEF IInv, Types
<1>2. Life' /\ Lists' /\ StopsKnown' BY DEF IInv, Types, Life, Lists, StopsKnown
<1>3. InsideIsListed' BY DEF IInv, Types, InsideIsListed, Inside, UsesGroup
<1>4. RefsExact' BY DEF IInv, Types, RefsExact, Starting, One
<1>5. Counted' = Counted BY DEF IInv, Types, Counted
<1>6. ExtRefExact' BY <1>5 DEF IInv, ExtRefExact
<1>7. QED BY <1>1, <1>2, <1>3, <1>4, <1>6 DEF IInv

LEMMA AttachByCreatorPreserves ==
  ASSUME IInv, NEW k \in Kids, AttachByCreator(k)
  PROVE  IInv'
<1> USE DEF AttachByCreator, StartGoto, groupVars, ownerVars
<1>1. Types' BY DEF IInv, Types
<1>2. Life' /\ Lists' /\ StopsKnown' BY DEF IInv, Types, Life, Lists, StopsKnown
<1>3. InsideIsListed' BY DEF IInv, Types, InsideIsListed, Inside, UsesGroup
<1>4. RefsExact' BY DEF IInv, Types, RefsExact, Starting, One
<1>5. Counted' = Counted BY DEF IInv, Types, Counted
<1>6. ExtRefExact' BY <1>5 DEF IInv, ExtRefExact
<1>7. QED BY <1>1, <1>2, <1>3, <1>4, <1>6 DEF IInv

-----------------------------------------------------------------------------
(* The new thread.                                                         *)

LEMMA AttachSelfPreserves ==
  ASSUME IInv, NEW k \in Kids, AttachSelf(k)
  PROVE  IInv'
<1> USE DEF AttachSelf, RunGoto, groupVars, ownerVars
<1>1. Types' BY DEF IInv, Types
<1>2. Life' /\ Lists' /\ StopsKnown' BY DEF IInv, Types, Life, Lists, StopsKnown
<1>3. InsideIsListed' BY DEF IInv, Types, InsideIsListed, Inside, UsesGroup
<1>4. RefsExact' BY DEF IInv, Types, RefsExact, Starting, One
<1>5. Counted' = Counted BY DEF IInv, Types, Counted
<1>6. ExtRefExact' BY <1>5 DEF IInv, ExtRefExact
<1>7. QED BY <1>1, <1>2, <1>3, <1>4, <1>6 DEF IInv

LEMMA ExecuteEndsPreserves ==
  ASSUME IInv, NEW k \in Kids, ExecuteEnds(k)
  PROVE  IInv'
<1> USE DEF ExecuteEnds, RunGoto, groupVars, ownerVars
<1>1. Types' BY DEF IInv, Types
<1>2. Life' /\ Lists' /\ StopsKnown' BY DEF IInv, Types, Life, Lists, StopsKnown
<1>3. InsideIsListed' BY DEF IInv, Types, InsideIsListed, Inside, UsesGroup
<1>4. RefsExact' BY DEF IInv, Types, RefsExact, Starting, One
<1>5. Counted' = Counted BY DEF IInv, Types, Counted
<1>6. ExtRefExact' BY <1>5 DEF IInv, ExtRefExact
<1>7. QED BY <1>1, <1>2, <1>3, <1>4, <1>6 DEF IInv

(* The count goes down by the one that leaves.                             *)
LEMMA ExternalReleaseCounts ==
  ASSUME IInv, NEW k \in Kids, ExternalRelease(k)
  PROVE  ExtRefExact' /\ Counted' = Counted \ {k}
<1> USE DEF ExternalRelease, RunGoto, ownerVars
<1>1. k \in Counted BY DEF IInv, Life, Counted
<1>2. Counted' = Counted \ {k} BY DEF IInv, Types, Counted
<1>3. Cardinality(Counted') = Cardinality(Counted) - 1
      BY <1>1, <1>2, CountedFinite, FS_RemoveElement
<1>4. QED BY <1>2, <1>3 DEF IInv, ExtRefExact

LEMMA ExternalReleasePreserves ==
  ASSUME IInv, NEW k \in Kids, ExternalRelease(k)
  PROVE  IInv'
<1> USE DEF ExternalRelease, RunGoto, ownerVars
<1>1. Types' BY DEF IInv, Types
<1>2. Life' /\ Lists' /\ StopsKnown' BY DEF IInv, Types, Life, Lists, StopsKnown
<1>3. InsideIsListed' BY DEF IInv, Types, InsideIsListed, Inside, UsesGroup
<1>4. RefsExact' BY DEF IInv, Types, RefsExact, Starting, One
<1>5. ExtRefExact' BY ExternalReleaseCounts
<1>6. QED BY <1>1, <1>2, <1>3, <1>4, <1>5 DEF IInv

LEMMA RemoveThreadPreserves ==
  ASSUME IInv, NEW k \in Kids, RemoveThread(k)
  PROVE  IInv'
<1> USE DEF RemoveThread, RunGoto, ownerVars
<1>1. members' = members \/ (k \in autoDelete /\ members' = members \ {k})
      OBVIOUS
<1>2. ref' = [ref EXCEPT ![k] = @ - (One(k \in members) - One(k \in members'))]
  <2>1. CASE k \in autoDelete /\ k \in members BY <2>1, OneInList DEF One
  <2>2. CASE k \in autoDelete /\ k \notin members BY <2>2, OneInList DEF One, IInv, Types
  <2>3. CASE k \notin autoDelete BY <2>3 DEF One, IInv, Types
  <2>4. QED BY <2>1, <2>2, <2>3
<1>3. Types' BY <1>1, <1>2 DEF IInv, Types, One
<1>4. Life' /\ Lists' BY <1>1 DEF IInv, Types, Life, Lists
<1>5. StopsKnown' BY <1>1 DEF IInv, StopsKnown
<1>6. InsideIsListed' BY <1>1 DEF IInv, Types, Life, InsideIsListed, Inside, UsesGroup
<1>7. RefsExact'
  <2>1. \A j \in Kids : j # k => (j \in members' <=> j \in members) BY <1>1
  <2>2. QED BY <1>2, <2>1 DEF IInv, Types, RefsExact, Starting, One
<1>8. Counted' = Counted BY DEF IInv, Types, Counted
<1>9. ExtRefExact' BY <1>8 DEF IInv, ExtRefExact
<1>10. QED BY <1>3, <1>4, <1>5, <1>6, <1>7, <1>9 DEF IInv

LEMMA ReleaseSelfPreserves ==
  ASSUME IInv, NEW k \in Kids, ReleaseSelf(k)
  PROVE  IInv'
<1> USE DEF ReleaseSelf, RunGoto, groupVars, ownerVars
<1>1. Types' BY DEF IInv, Types
<1>2. Life' /\ Lists' /\ StopsKnown' BY DEF IInv, Types, Life, Lists, StopsKnown
<1>3. InsideIsListed' BY DEF IInv, Types, InsideIsListed, Inside, UsesGroup
<1>4. RefsExact' BY DEF IInv, Types, RefsExact, Starting, One
<1>5. Counted' = Counted BY DEF IInv, Types, Counted
<1>6. ExtRefExact' BY <1>5 DEF IInv, ExtRefExact
<1>7. QED BY <1>1, <1>2, <1>3, <1>4, <1>6 DEF IInv

-----------------------------------------------------------------------------
(* The Owner.                                                              *)

LEMMA InterruptAllPreserves ==
  ASSUME IInv, InterruptAll
  PROVE  IInv'
<1> USE DEF InterruptAll, groupVars
<1>1. Types' BY DEF IInv, Types
<1>2. Life' /\ Lists' /\ StopsKnown' BY DEF IInv, Types, Life, Lists, StopsKnown
<1>3. InsideIsListed' BY DEF IInv, Types, InsideIsListed, Inside, UsesGroup
<1>4. RefsExact' BY DEF IInv, RefsExact, Starting, One
<1>5. Counted' = Counted BY DEF Counted
<1>6. ExtRefExact' BY <1>5 DEF IInv, ExtRefExact
<1>7. QED BY <1>1, <1>2, <1>3, <1>4, <1>6 DEF IInv

LEMMA JoinSwapPreserves ==
  ASSUME IInv, JoinSwap
  PROVE  IInv'
<1> USE DEF JoinSwap
<1>1. joinList = {} BY DEF IInv, Lists
<1>2. Types' BY DEF IInv, Types
<1>3. Life' /\ Lists' /\ StopsKnown' BY DEF IInv, Types, Life, Lists, StopsKnown
<1>4. InsideIsListed' BY DEF IInv, Types, InsideIsListed, Inside, UsesGroup
<1>5. RefsExact' BY <1>1 DEF IInv, RefsExact, Starting, One
<1>6. Counted' = Counted BY DEF Counted
<1>7. ExtRefExact' BY <1>6 DEF IInv, ExtRefExact
<1>8. QED BY <1>2, <1>3, <1>4, <1>5, <1>7 DEF IInv

(* Whoever was joined has ended, and whoever was not is late.              *)
LEMMA JoinEndsPreserves ==
  ASSUME IInv, JoinEnds
  PROVE  IInv'
<1> USE DEF JoinEnds
<1>1. ref' = [k \in Kids |-> ref[k] - One(k \in joinList) - One(k \in members)]
      BY OneInList
<1>2. Types' BY <1>1 DEF IInv, Types, One
<1>3. Life' /\ Lists' /\ StopsKnown' BY DEF IInv, Types, Life, Lists, StopsKnown
<1>4. InsideIsListed'
  <2> SUFFICES ASSUME NEW k \in Kids, k \notin late, Inside(k) PROVE FALSE
      BY DEF InsideIsListed, Inside, UsesGroup
  <2>1. k \in joinList BY DEF IInv, InsideIsListed
  <2>2. k \in valid BY <2>1 DEF IInv, StopsKnown
  <2>3. run[k] = "ended" BY <2>1, <2>2
  <2>4. QED BY <2>3 DEF IInv, Life, Inside, UsesGroup
<1>5. RefsExact' BY <1>1 DEF IInv, Types, RefsExact, Starting, One
<1>6. Counted' = Counted BY DEF Counted
<1>7. ExtRefExact' BY <1>6 DEF IInv, ExtRefExact
<1>8. QED BY <1>2, <1>3, <1>4, <1>5, <1>7 DEF IInv

LEMMA StopChildPreserves ==
  ASSUME IInv, NEW k \in Kids, StopChild(k)
  PROVE  IInv'
<1> USE DEF StopChild, groupVars
<1>1. Types' BY DEF IInv, Types
<1>2. Life' /\ Lists' /\ StopsKnown' BY DEF IInv, Types, Life, Lists, StopsKnown
<1>3. InsideIsListed' BY DEF IInv, Types, InsideIsListed, Inside, UsesGroup
<1>4. RefsExact' BY DEF IInv, RefsExact, Starting, One
<1>5. Counted' = Counted BY DEF Counted
<1>6. ExtRefExact' BY <1>5 DEF IInv, ExtRefExact
<1>7. QED BY <1>1, <1>2, <1>3, <1>4, <1>6 DEF IInv

LEMMA StopChildEndsPreserves ==
  ASSUME IInv, StopChildEnds
  PROVE  IInv'
<1> USE DEF StopChildEnds
<1>1. victim \in members /\ victim \in Kids /\ victim \in valid \cup late
      BY DEF IInv, Types, StopsKnown
<1>2. Types' BY <1>1 DEF IInv, Types
<1>3. Life' /\ Lists' /\ StopsKnown' BY DEF IInv, Types, Life, Lists, StopsKnown
<1>4. InsideIsListed'
  <2> SUFFICES ASSUME NEW k \in Kids, k \notin late, Inside(k) PROVE k \in members'
      BY DEF InsideIsListed, Inside, UsesGroup
  <2>1. k \in members BY DEF IInv, InsideIsListed
  <2>2. k # victim
    <3> SUFFICES ASSUME k = victim PROVE FALSE
        OBVIOUS
    <3>1. k \in valid /\ run[k] = "ended" BY <1>1
    <3>2. QED BY <3>1 DEF IInv, Life, Inside, UsesGroup
  <2>3. QED BY <2>1, <2>2
<1>5. RefsExact' BY <1>1 DEF IInv, Types, RefsExact, Starting, One
<1>6. Counted' = Counted BY DEF Counted
<1>7. ExtRefExact' BY <1>6 DEF IInv, ExtRefExact
<1>8. QED BY <1>2, <1>3, <1>4, <1>5, <1>7 DEF IInv

LEMMA StopChildTimesOutPreserves ==
  ASSUME IInv, StopChildTimesOut
  PROVE  IInv'
<1> USE DEF StopChildTimesOut, groupVars
<1>1. Types' BY DEF IInv, Types
<1>2. Life' /\ Lists' /\ StopsKnown' BY DEF IInv, Types, Life, Lists, StopsKnown
<1>3. InsideIsListed' BY DEF IInv, Types, InsideIsListed, Inside, UsesGroup
<1>4. RefsExact' BY DEF IInv, RefsExact, Starting, One
<1>5. Counted' = Counted BY DEF Counted
<1>6. ExtRefExact' BY <1>5 DEF IInv, ExtRefExact
<1>7. QED BY <1>1, <1>2, <1>3, <1>4, <1>6 DEF IInv

LEMMA StutterPreserves ==
  ASSUME IInv, UNCHANGED vars
  PROVE  IInv'
<1> USE DEF vars, groupVars, ownerVars
<1>1. Types' /\ Life' /\ Lists' /\ StopsKnown'
      BY DEF IInv, Types, Life, Lists, StopsKnown
<1>2. InsideIsListed' BY DEF IInv, InsideIsListed, Inside, UsesGroup
<1>3. RefsExact' BY DEF IInv, RefsExact, Starting, One
<1>4. Counted' = Counted BY DEF Counted
<1>5. ExtRefExact' BY <1>4 DEF IInv, ExtRefExact
<1>6. QED BY <1>1, <1>2, <1>3, <1>5 DEF IInv

-----------------------------------------------------------------------------
LEMMA StepPreserves == IInv /\ [Next]_vars => IInv'
<1> SUFFICES ASSUME IInv, [Next]_vars PROVE IInv'
    OBVIOUS
<1>1. ASSUME NEW s \in Kids \cup {Owner}, NEW k \in Kids, Begin(s, k) PROVE IInv'
      BY <1>1, BeginPreserves
<1>2. ASSUME NEW k \in Kids, StartStep(k) PROVE IInv'
      BY <1>2, AddThreadPreserves, CreateThreadPreserves, CreateFailsPreserves,
         AttachByCreatorPreserves DEF StartStep
<1>3. ASSUME NEW k \in Kids, RunStep(k) PROVE IInv'
      BY <1>3, AttachSelfPreserves, ExternalReleasePreserves, RemoveThreadPreserves,
         ReleaseSelfPreserves DEF RunStep
<1>4. ASSUME NEW k \in Kids, ExecuteEnds(k) PROVE IInv'
      BY <1>4, ExecuteEndsPreserves
<1>5. ASSUME NEW k \in Kids, StopChild(k) PROVE IInv'
      BY <1>5, StopChildPreserves
<1>6. CASE InterruptAll BY <1>6, InterruptAllPreserves
<1>7. CASE OwnerStep
      BY <1>7, JoinSwapPreserves, JoinEndsPreserves, StopChildEndsPreserves DEF OwnerStep
<1>8. CASE StopChildTimesOut BY <1>8, StopChildTimesOutPreserves
<1>9. CASE Over \/ UNCHANGED vars BY <1>9, StutterPreserves DEF Over
<1>10. QED BY <1>1, <1>2, <1>3, <1>4, <1>5, <1>6, <1>7, <1>8, <1>9 DEF Next

(* The inductive invariant holds for any number of threads.                *)
THEOREM InductiveInvariant == Spec => []IInv
BY InitHolds, StepPreserves, PTL DEF Spec

(* Type correctness: no object has more than three references, and the     *)
(* group's count stays between none and all of its threads.                *)
THEOREM TypeCorrect == Spec => []TypeOK
<1>1. IInv => TypeOK
  <2> SUFFICES ASSUME IInv PROVE TypeOK
      OBVIOUS
  <2>1. ref \in [Kids -> 0..3]
    <3>1. \A k \in Kids : ref[k] \in 0..3 BY DEF IInv, Lists, RefsExact, One
    <3>2. QED BY <3>1 DEF IInv, Types
  <2>2. extRef \in 0..Cardinality(Kids) BY CountedFinite DEF IInv, ExtRefExact
  <2>3. QED BY <2>1, <2>2 DEF IInv, Types, TypeOK
<1>2. QED BY <1>1, InductiveInvariant, PTL

(* A thread object has as many references as users, in every order in      *)
(* which Start(), the thread and the destructor let go of it.              *)
THEOREM ReferencesTheorem == Spec => []RefsExact
<1>1. IInv => RefsExact BY DEF IInv
<1>2. QED BY <1>1, InductiveInvariant, PTL

(* When the destructor returns only late threads may still use the group.  *)
THEOREM DestructionTheorem == Spec => []DestroyedGroupIsUnused
<1>1. IInv => DestroyedGroupIsUnused
      BY DEF IInv, InsideIsListed, Inside, DestroyedGroupIsUnused
<1>2. QED BY <1>1, InductiveInvariant, PTL

(* m_evFinal is set by the last thread that leaves: no other one executes  *)
(* or is about to.                                                         *)
LEMMA StepFinal ==
  ASSUME IInv, [Next]_vars, ~evFinal, evFinal'
  PROVE  \A k \in Kids : run'[k] \notin {"spawned", "executing"}
<1>1. PICK k \in Kids : ExternalRelease(k)
  <2> USE DEF Next, Begin, StartStep, AddThread, CreateThread, CreateFails, AttachByCreator,
              RunStep, AttachSelf, RemoveThread, ReleaseSelf, ExecuteEnds, StopChild,
              InterruptAll, OwnerStep, JoinSwap, JoinEnds, StopChildEnds, StopChildTimesOut,
              Over, vars, groupVars
  <2>1. QED OBVIOUS
<1>2. extRef' = 0 BY <1>1 DEF ExternalRelease
<1>3. Counted' = {}
  <2>1. IsFiniteSet(Counted') /\ Cardinality(Counted') = 0
    <3>1. ExtRefExact' /\ Counted' = Counted \ {k} BY <1>1, ExternalReleaseCounts
    <3>2. IsFiniteSet(Counted') BY <3>1, CountedFinite, FS_RemoveElement
    <3>3. QED BY <1>2, <3>1, <3>2 DEF ExtRefExact
  <2>2. QED BY <2>1, FS_EmptySet
<1>4. Life' BY StepPreserves DEF IInv
<1>5. QED BY <1>3, <1>4 DEF Life, Counted

(* When ExternalRelease() sets m_evFinal, no thread of the group executes  *)
(* or is about to, whether or not it is still in m_threads.                *)
THEOREM FinalTheorem == Spec => FinalWhenIdle
<1>1. IInv /\ [Next]_vars =>
         [~evFinal /\ evFinal' => \A k \in Kids : run'[k] \notin {"spawned", "executing"}]_vars
      BY StepFinal
<1>2. QED BY <1>1, InductiveInvariant, PTL DEF Spec, FinalWhenIdle
=============================================================================
