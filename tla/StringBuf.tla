------------------------------ MODULE StringBuf ------------------------------
(***************************************************************************)
(* The buffers that String objects share (CStringBlobBuf, Blob and String  *)
(* of libext/blob.cpp, ext-string.cpp): a count of references, copying on  *)
(* write, and the narrow text that c_str() publishes in m_apChar for all   *)
(* who share the buffer.  Each String belongs to one thread; threads copy  *)
(* Strings of others that are at rest.                                     *)
(*                                                                         *)
(* A step is one access to m_aRef or m_apChar, with the work on memory no  *)
(* other thread sees.  Allocation does not fail.                           *)
(***************************************************************************)
EXTENDS Naturals, FiniteSets

CONSTANTS
    Strings,     \* String objects, and the threads that use them
    Bufs,        \* buffers; a freed one may be allocated again
    Narrows,     \* narrow texts; likewise
    Empty,       \* the buffer of RefEmptyBlobBuf(), in Bufs
    Texts,       \* what is written; NoText is the empty text
    NoText,
    None

VARIABLES
    pData,       \* m_blob.m_pData of each String
    buf,         \* each buffer: ref (m_aRef), text, narrow (m_apChar), or None;
                 \* mixed is a history: SetAt() wrote it while it was shared, or
                 \* while it had a narrow text that a sharer has made meanwhile
    narrow,      \* what each narrow text was made from, None when it is freed
    op,          \* what each thread does: step, text to write, narrow text made
    own,         \* the text that was last given to each String
    held,        \* what its last c_str() returned, until it is changed
    dirtied      \* history: another sharer called MakeDirty() since c_str() began

vars == <<pData, buf, narrow, op, own, held, dirtied>>

AllTexts == Texts \cup {NoText}
Idle == [pc |-> "idle", text |-> NoText, made |-> None]
Buffer(text, ref) == [ref |-> ref, text |-> text, narrow |-> None, mixed |-> FALSE]

(* Default Strings: they share the empty buffer, which s_emptyStringBlobBuf *)
(* refers to as well.                                                      *)
Init ==
    /\ pData = [s \in Strings |-> Empty]
    /\ buf = [b \in Bufs |-> IF b = Empty THEN Buffer(NoText, Cardinality(Strings) + 1) ELSE None]
    /\ narrow = [n \in Narrows |-> None]
    /\ op = [s \in Strings |-> Idle]
    /\ own = [s \in Strings |-> NoText]
    /\ held = [s \in Strings |-> None]
    /\ dirtied = [s \in Strings |-> FALSE]

Buf(s) == buf[pData[s]]
At(s, pc) == op[s].pc = pc
Goto(s, pc) == op' = [op EXCEPT ![s].pc = pc]
Return(s) == op' = [op EXCEPT ![s] = Idle]
Sharers(s) == {t \in Strings : pData[t] = pData[s]}

(* Release(): the last reference frees the buffer and its narrow text.     *)
Dies(b) == buf[b].ref = 1
AfterRelease(b) == [buf EXCEPT ![b] = IF Dies(b) THEN None ELSE [buf[b] EXCEPT !.ref = @ - 1]]
FreeNarrow(n) == narrow' = [m \in Narrows |-> IF m = n THEN None ELSE narrow[m]]
NarrowOfDead(b) == IF Dies(b) THEN buf[b].narrow ELSE None

-----------------------------------------------------------------------------
(* Blob::operator=, with the buffer of a String at rest or the empty one.  *)
Assign(s, b) ==
    /\ At(s, "idle")
    /\ b = Empty \/ \E t \in Strings : pData[t] = b /\ At(t, "idle")
    /\ b # pData[s]
    /\ pData' = [pData EXCEPT ![s] = b]
    /\ buf' = [AfterRelease(pData[s]) EXCEPT ![b].ref = @ + 1]
    /\ FreeNarrow(NarrowOfDead(pData[s]))
    /\ own' = [own EXCEPT ![s] = buf[b].text]
    /\ held' = [held EXCEPT ![s] = None]
    /\ UNCHANGED <<op, dirtied>>

(* MakeDirty(): the narrow text is freed, whoever shares the buffer.       *)
MakeDirty(s) ==
    /\ buf' = [buf EXCEPT ![pData[s]].narrow = None]
    /\ FreeNarrow(Buf(s).narrow)
    /\ held' = [held EXCEPT ![s] = None]
    /\ dirtied' = [t \in Strings |-> dirtied[t] \/ (t # s /\ t \in Sharers(s))]

(* operator= and operator+= begin with MakeDirty(), as does SetAt().       *)
BeginWrite(s, v) ==
    /\ At(s, "idle")
    /\ MakeDirty(s)
    /\ \E pc \in {"resize", "setAt"} :
          /\ pc = "setAt" => own[s] # NoText
          /\ op' = [op EXCEPT ![s] = [pc |-> pc, text |-> v, made |-> None]]
    /\ UNCHANGED <<pData, own>>

(* clear() begins with the resize() and ends with MakeDirty().             *)
BeginClear(s) ==
    /\ At(s, "idle")
    /\ op' = [op EXCEPT ![s] = [pc |-> "resize", text |-> NoText, made |-> None]]
    /\ held' = [held EXCEPT ![s] = None]
    /\ UNCHANGED <<pData, buf, narrow, own, dirtied>>

(* Mutant of InUseByOthers: a buffer of two is taken for one's own.        *)
InUseByMany(s) == Buf(s).ref > 2

InUseByOthers(s) == Buf(s).ref > 1

(* SetSize() and Cow() load m_aRef: alone, the buffer is resized in place, *)
(* where a narrow text would be freed, and written.                        *)
ResizeInPlace(s) ==
    /\ At(s, "resize") /\ ~InUseByOthers(s)
    /\ buf' = [buf EXCEPT ![pData[s]].text = op[s].text, ![pData[s]].narrow = None]
    /\ FreeNarrow(Buf(s).narrow)
    /\ own' = [own EXCEPT ![s] = op[s].text]
    /\ IF op[s].text = NoText THEN Goto(s, "dirty") ELSE Return(s)
    /\ UNCHANGED <<pData, held, dirtied>>

TestShared(s) ==
    /\ At(s, "resize") /\ InUseByOthers(s)
    /\ Goto(s, "detach")
    /\ UNCHANGED <<pData, buf, narrow, own, held, dirtied>>

(* The new buffer is filled, the old one released.                         *)
Detach(s) ==
    /\ At(s, "detach")
    /\ \E b \in Bufs :
          /\ buf[b] = None
          /\ buf' = [AfterRelease(pData[s]) EXCEPT ![b] = Buffer(op[s].text, 1)]
          /\ pData' = [pData EXCEPT ![s] = b]
    /\ FreeNarrow(NarrowOfDead(pData[s]))
    /\ own' = [own EXCEPT ![s] = op[s].text]
    /\ IF op[s].text = NoText THEN Goto(s, "dirty") ELSE Return(s)
    /\ UNCHANGED <<held, dirtied>>

EndClear(s) ==
    /\ At(s, "dirty")
    /\ MakeDirty(s)
    /\ Return(s)
    /\ UNCHANGED <<pData, own>>

(* SetAt() writes into the buffer, shared or not, and leaves the narrow     *)
(* text that is there by then.                                             *)
SetAt(s) ==
    /\ At(s, "setAt")
    /\ buf' = [buf EXCEPT ![pData[s]].text = op[s].text,
                          ![pData[s]].mixed = @ \/ InUseByOthers(s) \/ Buf(s).narrow # None]
    /\ own' = [own EXCEPT ![s] = op[s].text]
    /\ Return(s)
    /\ UNCHANGED <<pData, narrow, held, dirtied>>

-----------------------------------------------------------------------------
(* c_str().                                                                *)

CStrBegin(s) ==
    /\ At(s, "idle")
    /\ Goto(s, IF Buf(s).narrow = None THEN "convert" ELSE "load")
    /\ held' = [held EXCEPT ![s] = None]
    /\ dirtied' = [dirtied EXCEPT ![s] = FALSE]
    /\ UNCHANGED <<pData, buf, narrow, own>>

Convert(s) ==
    /\ At(s, "convert")
    /\ \E n \in Narrows :
          /\ narrow[n] = None
          /\ narrow' = [narrow EXCEPT ![n] = Buf(s).text]
          /\ op' = [op EXCEPT ![s].pc = "publish", ![s].made = n]
    /\ UNCHANGED <<pData, buf, own, held, dirtied>>

(* Mutant of Publish: the one that comes second replaces the first.        *)
PublishOver(s) ==
    /\ buf' = [buf EXCEPT ![pData[s]].narrow = op[s].made]
    /\ FreeNarrow(Buf(s).narrow)

(* The compare-and-exchange: who comes second frees what he made.          *)
Publish(s) ==
    /\ buf' = [buf EXCEPT ![pData[s]].narrow = IF @ = None THEN op[s].made ELSE @]
    /\ FreeNarrow(IF Buf(s).narrow = None THEN None ELSE op[s].made)

CStrPublish(s) ==
    /\ At(s, "publish")
    /\ Publish(s)
    /\ op' = [op EXCEPT ![s].pc = "load", ![s].made = None]
    /\ UNCHANGED <<pData, own, held, dirtied>>

(* The second load, which is what is returned: null when a sharer called   *)
(* MakeDirty() since.                                                      *)
CStrReturn(s) ==
    /\ At(s, "load")
    /\ held' = [held EXCEPT ![s] = IF Buf(s).narrow = None THEN "null" ELSE Buf(s).narrow]
    /\ Return(s)
    /\ UNCHANGED <<pData, buf, narrow, own, dirtied>>

Write(s) == (\E v \in Texts : BeginWrite(s, v)) \/ BeginClear(s) \/ ResizeInPlace(s)
            \/ TestShared(s) \/ Detach(s) \/ EndClear(s) \/ SetAt(s)
CStr(s) == CStrBegin(s) \/ Convert(s) \/ CStrPublish(s) \/ CStrReturn(s)

Next == \E s \in Strings : Write(s) \/ CStr(s) \/ \E b \in Bufs : Assign(s, b)

Spec == Init /\ [][Next]_vars

-----------------------------------------------------------------------------
(* Type correctness; m_aRef is the number of Strings that refer to the     *)
(* buffer, and one for the empty buffer.                                   *)
TypeOK ==
    /\ pData \in [Strings -> Bufs]
    /\ \A b \in Bufs : buf[b] = None \/ buf[b] \in
          [ref : 1..(Cardinality(Strings) + 1), text : AllTexts,
           narrow : Narrows \cup {None}, mixed : BOOLEAN]
    /\ \A b \in Bufs : buf[b] # None =>
          buf[b].ref = Cardinality({s \in Strings : pData[s] = b}) + IF b = Empty THEN 1 ELSE 0
    /\ narrow \in [Narrows -> AllTexts \cup {None}]
    /\ op \in [Strings -> [pc : {"idle", "resize", "detach", "dirty", "setAt", "convert",
                                 "publish", "load"},
                           text : AllTexts, made : Narrows \cup {None}]]
    /\ own \in [Strings -> AllTexts]
    /\ held \in [Strings -> Narrows \cup {None, "null"}]
    /\ dirtied \in [Strings -> BOOLEAN]

(* A String keeps the text it was given, in a buffer that exists, whatever *)
(* other threads do with Strings that shared it: copying on write tests    *)
(* the count and releases the buffer in separate steps.  The exception is  *)
(* SetAt() on a shared buffer.                                             *)
TextIsOwn ==
    \A s \in Strings : Buf(s) # None /\ (Buf(s).text = own[s] \/ Buf(s).mixed)

(* What c_str() returned is there, and is the text of the String, until    *)
(* the String is changed: sharers that call c_str() at the same time agree *)
(* on one narrow text, and it outlives the release of every other sharer.  *)
(* The exceptions are a sharer that changes its own String and calls       *)
(* MakeDirty() on the buffer of all, and SetAt() on a buffer that a sharer *)
(* uses meanwhile.                                                         *)
NarrowIsValid ==
    \A s \in Strings : held[s] # None =>
        \/ held[s] # "null" /\ narrow[held[s]] = own[s] /\ Buf(s).narrow = held[s]
        \/ dirtied[s] \/ Buf(s).mixed
=============================================================================
