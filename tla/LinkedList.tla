----------------------------- MODULE LinkedList -----------------------------
(***************************************************************************)
(* LinkedList (util/linked-list/util/LinkedList.hh): the intrusive FIFO     *)
(* queue of handles that the scheduler, the event queues and the signal     *)
(* sources use.  Each operation holds the list's mutex, hence it is an      *)
(* operator on the list; the handle's next field is part of the list.       *)
(***************************************************************************)
EXTENDS Naturals, FiniteSets

CONSTANTS Handles, Null

Lists == [head : Handles \cup {Null}, tail : Handles \cup {Null}, next : [Handles -> Handles \cup {Null}]]

\* tail points to the next field of a handle, or is Null when it points to head.
EmptyList == [head |-> Null, tail |-> Null, next |-> [h \in Handles |-> Null]]

IsEmpty(l) == l.head = Null

ListPush(l, h) ==
    LET n == [l.next EXCEPT ![h] = Null] IN
    [head |-> IF l.tail = Null THEN h ELSE l.head,
     tail |-> h,
     next |-> IF l.tail = Null THEN n ELSE [n EXCEPT ![l.tail] = h]]

\* Drop the first element: _pull(), and remove() of the head.
ListPull(l) ==
    IF IsEmpty(l) THEN l
    ELSE [l EXCEPT !.head = l.next[l.head], !.tail = IF l.next[l.head] = Null THEN Null ELSE @]

\* The handles that a walk from the head meets.
Walk[l \in Lists, n \in 0 .. Cardinality(Handles)] ==
    IF n = 0 \/ IsEmpty(l) THEN {} ELSE {l.head} \cup Walk[[l EXCEPT !.head = l.next[l.head]], n - 1]

Members(l) == Walk[l, Cardinality(Handles)]

\* remove(h): without effect if h is not in the list.
ListRemove(l, h) ==
    IF l.head = h THEN ListPull(l)
    ELSE LET before == {c \in Handles : c \in Members(l) /\ l.next[c] = h} IN
         IF before = {} THEN l
         ELSE LET c == CHOOSE c \in before : TRUE IN
              [l EXCEPT !.next[c] = l.next[h], !.tail = IF @ = h THEN c ELSE @]

\* The list ends: no handle was linked twice.
IsProper(l) ==
    /\ IsEmpty(l) <=> l.tail = Null
    /\ ~IsEmpty(l) => l.tail \in Members(l) /\ l.next[l.tail] = Null

=============================================================================
