----------------------------- MODULE ListRings -----------------------------
(***************************************************************************)
(* What the lists of Source/list.c promise the kernel, with the operators  *)
(* of Lists: each list is a ring, each item is in one ring at most, and    *)
(* the calls change the ring they are given and no other.                  *)
(***************************************************************************)
EXTENDS Lists

CONSTANTS
    List,
    ListItem,
    MAX_VALUE         \* portMAX_DELAY, the largest item value

VARIABLES ring, value

vars == <<ring, value>>

Init ==
    /\ ring = [l \in List |-> vListInitialise]
    /\ value \in [ListItem -> 0..MAX_VALUE]

Free(x) == \A l \in List : x \notin ItemsOf(ring[l])

InsertEnd(l, x) ==
    /\ Free(x)
    /\ ring' = [ring EXCEPT ![l] = vListInsertEnd(@, x)]
    /\ UNCHANGED value

Insert(l, x) ==
    /\ Free(x)
    /\ ring' = [ring EXCEPT ![l] = InsertIntoRing(@, x, value)]
    /\ UNCHANGED value

\* The caller need not know which list the item is in.
Unlink(x) ==
    /\ ~ Free(x)
    /\ ring' = [l \in List |-> uxListRemove(ring[l], x)]
    /\ UNCHANGED value

GetNext(l) ==
    /\ ~ listLIST_IS_EMPTY(ring[l])
    /\ ring' = [ring EXCEPT ![l] = listGET_OWNER_OF_NEXT_ENTRY(@)]
    /\ UNCHANGED value

\* An item's value changes where it is, and the item does not move.
SetValue(x, v) ==
    /\ value' = [value EXCEPT ![x] = v]
    /\ UNCHANGED ring

Next ==
    \/ \E l \in List, x \in ListItem : InsertEnd(l, x) \/ Insert(l, x)
    \/ \E x \in ListItem : Unlink(x)
    \/ \E l \in List : GetNext(l)
    \/ \E x \in ListItem, v \in 0..MAX_VALUE : SetValue(x, v)

Spec == Init /\ [][Next]_vars
=============================================================================
