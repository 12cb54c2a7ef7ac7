---------------------------- MODULE ListPointers ----------------------------
(***************************************************************************)
(* The pointers of Source/list.c.  A node is an item, or the xListEnd of a *)
(* list, which is written as the list itself.                              *)
(***************************************************************************)
EXTENDS ListPointersConstants, Integers, FiniteSetsExt

Node == List \cup ListItem
Value == 0..MAX_VALUE

VARIABLES
    pxNext, pxPrevious,     \* of a node
    xItemValue,             \* of an item
    pvContainer,            \* of an item: its list, or NULL
    pxIndex,                \* of a list: a node
    uxNumberOfItems         \* of a list

links == <<pxNext, pxPrevious>>
vars == <<links, xItemValue, pvContainer, pxIndex, uxNumberOfItems>>

\* Every list went through vListInitialise, every item through
\* vListInitialiseItem; the links of an item in no list are never read.
Init ==
    /\ pxNext = [n \in Node |-> n]
    /\ pxPrevious = [n \in Node |-> n]
    /\ xItemValue \in [ListItem -> Value]
    /\ pvContainer = [x \in ListItem |-> NULL]
    /\ pxIndex = [l \in List |-> l]
    /\ uxNumberOfItems = [l \in List |-> 0]

\* x is linked in after node p.
LinkAfter(x, p) ==
    /\ pxNext' = [pxNext EXCEPT ![x] = pxNext[p], ![p] = x]
    /\ pxPrevious' = [pxPrevious EXCEPT ![x] = p, ![pxNext[p]] = x]

Contain(l, x) ==
    /\ pvContainer' = [pvContainer EXCEPT ![x] = l]
    /\ uxNumberOfItems' = [uxNumberOfItems EXCEPT ![l] = @ + 1]

\* The kernel inserts items that are in no list.
vListInsertEnd(l, x) ==
    /\ pvContainer[x] = NULL
    /\ LET i == pxIndex[l]
           p == pxPrevious[i]
       IN  /\ pxNext' = [pxNext EXCEPT ![x] = i, ![p] = x]
           /\ pxPrevious' = [pxPrevious EXCEPT ![x] = p, ![i] = x]
    /\ Contain(l, x)
    /\ UNCHANGED <<xItemValue, pxIndex>>

ValueOf(n) == IF n \in List THEN MAX_VALUE ELSE xItemValue[n]

\* The node k steps after the marker of l.
Steps(l, k) ==
    LET step[i \in 0..k] == IF i = 0 THEN l ELSE pxNext[step[i - 1]]
    IN  step[k]

\* Where the iterator of vListInsert stops: before the first node with a
\* greater value.
Iterator(l, v) ==
    IF v = MAX_VALUE
    THEN pxPrevious[l]
    ELSE Steps(l, Min({k \in 0..uxNumberOfItems[l] :
                          ValueOf(pxNext[Steps(l, k)]) > v}))

vListInsert(l, x) ==
    /\ pvContainer[x] = NULL
    /\ LinkAfter(x, Iterator(l, xItemValue[x]))
    /\ Contain(l, x)
    /\ UNCHANGED <<xItemValue, pxIndex>>

\* pxIndex is left at an item that is still there. (A faulty variant first.)
IndexStays(l, x) == UNCHANGED pxIndex

MoveIndex(l, x) ==
    pxIndex' = IF pxIndex[l] = x THEN [pxIndex EXCEPT ![l] = pxPrevious[x]]
               ELSE pxIndex

uxListRemove(x) ==
    /\ pvContainer[x] # NULL
    /\ LET l == pvContainer[x]
       IN  /\ pxPrevious' = [pxPrevious EXCEPT ![pxNext[x]] = pxPrevious[x]]
           /\ pxNext' = [pxNext EXCEPT ![pxPrevious[x]] = pxNext[x]]
           /\ MoveIndex(l, x)
           /\ uxNumberOfItems' = [uxNumberOfItems EXCEPT ![l] = @ - 1]
    /\ pvContainer' = [pvContainer EXCEPT ![x] = NULL]
    /\ UNCHANGED xItemValue

\* The kernel asks for the next entry of lists that are not empty.
listGET_OWNER_OF_NEXT_ENTRY(l) ==
    /\ uxNumberOfItems[l] # 0
    /\ LET next == pxNext[pxIndex[l]]
       IN  pxIndex' = [pxIndex EXCEPT ![l] =
                          IF next = l THEN pxNext[l] ELSE next]
    /\ UNCHANGED <<links, xItemValue, pvContainer, uxNumberOfItems>>

listSET_LIST_ITEM_VALUE(x, v) ==
    /\ xItemValue' = [xItemValue EXCEPT ![x] = v]
    /\ UNCHANGED <<links, pvContainer, pxIndex, uxNumberOfItems>>

Next ==
    \/ \E l \in List, x \in ListItem : vListInsertEnd(l, x) \/ vListInsert(l, x)
    \/ \E x \in ListItem : uxListRemove(x)
    \/ \E l \in List : listGET_OWNER_OF_NEXT_ENTRY(l)
    \/ \E x \in ListItem, v \in Value : listSET_LIST_ITEM_VALUE(x, v)

Spec == Init /\ [][Next]_vars
-----------------------------------------------------------------------------
\* The ring of a list as its walk from pxIndex finds it.
RingOf(l) ==
    LET size == uxNumberOfItems[l] + 1
        node[k \in 0..size] ==
            IF k = 0 THEN pxIndex[l] ELSE pxNext[node[k - 1]]
    IN  [k \in 1..size |-> IF node[k] = l THEN ListEnd ELSE node[k]]

Rings == INSTANCE ListRings WITH
             ring <- [l \in List |-> RingOf(l)],
             value <- xItemValue

\* The pointer code implements the rings that the scheduler's model is built
\* from, sorted insertion, removal at pxIndex and all.
ImplementsRings == Rings!Spec
=============================================================================
