-------------------------------- MODULE Lru --------------------------------
(* LruBase of libext/lru.h as operators on a record: store is the hash map, *)
(* list the intrusive list of its keys, the most recently used first.       *)
(* PInsert compares the size with the new element in it, so a cache holds   *)
(* one element less than maxSize; with maxSize < 2 it takes the back() of   *)
(* an empty list, which is undefined: who makes a cache makes it larger.    *)
EXTENDS FiniteSets, SequencesExt

EmptyLru(maxSize) == [store |-> <<>>, list |-> <<>>, maxSize |-> maxSize]

LruHas(c, k) == k \in DOMAIN c.store

(* The list without the node of key k, which is in it.                     *)
Unlinked(list, k) == RemoveAt(list, CHOOSE i \in DOMAIN list : list[i] = k)

(* UpItem                                                                  *)
UpItem(c, k) == [c EXCEPT !.list = <<k>> \o Unlinked(@, k)]

(* find()                                                                  *)
LruFind(c, k) == IF LruHas(c, k) THEN UpItem(c, k) ELSE c

(* Mutant of LruErase: the element stays in the list.                      *)
LruEraseUnlinked(c, k) == [c EXCEPT !.store = [j \in DOMAIN c.store \ {k} |-> c.store[j]]]

(* erase()                                                                 *)
LruErase(c, k) ==
    LET unlinked == [c EXCEPT !.list = Unlinked(@, k)]
    IN  [unlinked EXCEPT !.store = [j \in DOMAIN @ \ {k} |-> @[j]]]

(* PInsert: an element that is there keeps its value.  The last of the     *)
(* list is looked up, which moves it to the front, and erased.             *)
PInsert(c, k, v) ==
    IF LruHas(c, k)
    THEN UpItem(c, k)
    ELSE LET grown  == [c EXCEPT !.store = [j \in DOMAIN @ \cup {k} |-> IF j = k THEN v ELSE @[j]]]
             oldest == Last(c.list)
             room   == IF Cardinality(DOMAIN grown.store) >= c.maxSize
                       THEN LruErase(LruFind(grown, oldest), oldest)
                       ELSE grown
         IN  [room EXCEPT !.list = <<k>> \o @]
=============================================================================
