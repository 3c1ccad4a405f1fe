----------------------------- MODULE WorkQueue -----------------------------
(***************************************************************************)
(* What a thread pool promises of the items it is given, whatever threads  *)
(* it has: they are taken in the order they came, each once, and an item   *)
(* that was cancelled before it begins does not begin, but no other is     *)
(* left out.                                                               *)
(***************************************************************************)
EXTENDS Sequences

CONSTANT Items

VARIABLES
    pending,     \* the items that wait, in their order
    stopped,     \* the items that were cancelled
    stage        \* per item, how far it is

vars == <<pending, stopped, stage>>

Init ==
    /\ pending = <<>>
    /\ stopped = {}
    /\ stage = [i \in Items |-> "new"]

Moves(i, from, to) == stage[i] = from /\ stage' = [stage EXCEPT ![i] = to]

Submit(i) ==
    /\ stage[i] = "new" /\ \A k \in DOMAIN pending : pending[k] # i
    /\ pending' = Append(pending, i)
    /\ UNCHANGED <<stopped, stage>>

Cancel(i) == stopped' = stopped \cup {i} /\ UNCHANGED <<pending, stage>>

Take(i) ==
    /\ pending # <<>> /\ i = Head(pending)
    /\ pending' = Tail(pending)
    /\ Moves(i, "new", "taken")
    /\ UNCHANGED stopped

Begin(i) == i \notin stopped /\ Moves(i, "taken", "runs") /\ UNCHANGED <<pending, stopped>>

Drop(i) == i \in stopped /\ Moves(i, "taken", "dropped") /\ UNCHANGED <<pending, stopped>>

End(i) == Moves(i, "runs", "ended") /\ UNCHANGED <<pending, stopped>>

Next == \E i \in Items : Submit(i) \/ Cancel(i) \/ Take(i) \/ Begin(i) \/ Drop(i) \/ End(i)

Spec == Init /\ [][Next]_vars
=============================================================================
