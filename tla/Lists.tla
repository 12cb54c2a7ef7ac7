------------------------------- MODULE Lists -------------------------------
(***************************************************************************)
(* The doubly linked lists of Source/list.c as values.                     *)
(*                                                                         *)
(* An xList is a ring: its items and the end marker xListEnd, linked in a  *)
(* circle, with pxIndex pointing at one of them.  A ring is written here   *)
(* as the sequence of its nodes in pxNext order, starting after pxIndex,   *)
(* so that the node pxIndex points at is always the last one.  A list      *)
(* whose pxIndex nobody looks at (the sorted lists: delayed tasks and      *)
(* event lists) is written as its order, the items from the head to the    *)
(* end marker, without the marker.  ListPointers checks both readings      *)
(* against the pointer code.                                               *)
(***************************************************************************)
EXTENDS Integers, SequencesExt

CONSTANT ListEnd        \* pxList->xListEnd, the marker node of every list

(***************************************************************************)
(* Rings.                                                                  *)
(***************************************************************************)
vListInitialise == <<ListEnd>>

listCURRENT_LIST_LENGTH(ring) == Len(ring) - 1

listLIST_IS_EMPTY(ring) == listCURRENT_LIST_LENGTH(ring) = 0

ItemsOf(ring) == ToSet(ring) \ {ListEnd}

\* The new item goes just before pxIndex: it is the last that a walk with
\* listGET_OWNER_OF_NEXT_ENTRY reaches.
vListInsertEnd(ring, x) == InsertAt(ring, Len(ring), x)

\* When pxIndex points at x it is moved back to x's predecessor, which is
\* the last node once x is gone.  A ring without x is left alone.
uxListRemove(ring, x) == RemoveFirst(ring, x)

Advance(ring) == Tail(ring) \o <<Head(ring)>>

\* pxIndex moves to the next node, and once more if that is the marker.
listGET_OWNER_OF_NEXT_ENTRY(ring) ==
    IF Head(ring) = ListEnd THEN Advance(Advance(ring)) ELSE Advance(ring)

Index(ring) == Last(ring)

(***************************************************************************)
(* Sorted lists.  value[x] is x's xItemValue.  The new item goes after     *)
(* every leading item whose value is not greater, so after its equals; for *)
(* the value portMAX_DELAY, which the code treats apart, that is the end.  *)
(* (A faulty variant first.)                                               *)
(***************************************************************************)
AtTheEnd(order, v, value) == Len(order) + 1

InsertPosition(order, v, value) ==
    Min({i \in 1..Len(order) : value[order[i]] > v} \cup {Len(order) + 1})

vListInsert(order, x, value) ==
    InsertAt(order, InsertPosition(order, value[x], value), x)

\* A list without the members of T, each taken out by a uxListRemove.
Without(s, T) ==
    LET kept[i \in 0..Len(s)] ==
            IF i = 0 THEN <<>>
            ELSE IF s[i] \in T THEN kept[i - 1] ELSE Append(kept[i - 1], s[i])
    IN  kept[Len(s)]

\* No item is linked twice.
NoRepeats(s) == \A i, j \in 1..Len(s) : s[i] = s[j] => i = j

\* From the least value to the greatest.
Sorted(s, value) ==
    \A i, j \in 1..Len(s) : i < j => value[s[i]] <= value[s[j]]

\* A list of members of S, and a ring of them with the marker.
IsList(s, S) == s \in Seq(S) /\ NoRepeats(s)

IsRing(ring, S) ==
    /\ IsList(ring, S \cup {ListEnd})
    /\ ListEnd \in ToSet(ring)

(***************************************************************************)
(* A ring turned until x is last, and the sorted insertion into a ring:    *)
(* it starts from the marker and leaves pxIndex where it is.               *)
(***************************************************************************)
Turn(ring, x) ==
    LET i == SelectInSeq(ring, LAMBDA y : y = x)
    IN  SubSeq(ring, i + 1, Len(ring)) \o SubSeq(ring, 1, i)

OrderOf(ring) == Front(Turn(ring, ListEnd))

InsertIntoRing(ring, x, value) ==
    Turn(Append(vListInsert(OrderOf(ring), x, value), ListEnd), Index(ring))
=============================================================================
