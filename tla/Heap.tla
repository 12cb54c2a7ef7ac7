---------------------------------- MODULE Heap ----------------------------------
(***************************************************************************)
(* portable/MemMang/heap_4.c: first fit in a list of free blocks kept by   *)
(* address, blocks split when they are allocated and merged with their     *)
(* neighbours when they are freed.  Each call is one step: it runs with    *)
(* the scheduler suspended, but for a bit of the caller's own block.       *)
(***************************************************************************)
EXTENDS SequencesExt, Integers

CONSTANTS
    portBYTE_ALIGNMENT,
    heapSTRUCT_SIZE,     \* a multiple of the alignment, as is
    xTotalHeapSize,
    WantedSizes          \* the sizes that are asked for

heapMINIMUM_BLOCK_SIZE == 2 * heapSTRUCT_SIZE

\* The addresses are offsets in the heap, where the end marker is the last block.
pxEnd == xTotalHeapSize - heapSTRUCT_SIZE

Address == {a \in 0..pxEnd - 1 : a % portBYTE_ALIGNMENT = 0}

VARIABLES
    xBlockSize,          \* of a block
    free,                \* the list from xStart.pxNextFreeBlock to before pxEnd
    allocated,           \* the blocks with xBlockAllocatedBit set
    xFreeBytesRemaining

vars == <<xBlockSize, free, allocated, xFreeBytesRemaining>>

\* prvHeapInit.  0 is the size of what is not a block.
Init ==
    /\ xBlockSize = [a \in Address |-> IF a = 0 THEN pxEnd ELSE 0]
    /\ free = <<0>>
    /\ allocated = {}
    /\ xFreeBytesRemaining = pxEnd
-----------------------------------------------------------------------------
(***************************************************************************)
(* prvInsertBlockIntoFreeList: the list and the sizes with the block b,    *)
(* merged with the block before it and the one behind it when they touch.  *)
(* (Faulty variants first.)                                                *)
(***************************************************************************)
NeverTouches(sizes, a, b) == FALSE

Touches(sizes, a, b) == a + sizes[a] = b

MergedForgets(sizes, a, b) == [sizes EXCEPT ![b] = 0]

Merged(sizes, a, b) == [sizes EXCEPT ![a] = @ + sizes[b], ![b] = 0]

\* The number of blocks that the iterator passes.
Passed(list, b) ==
    CHOOSE i \in 0..Len(list) :
        /\ \A j \in 1..i : list[j] < b
        /\ i < Len(list) => list[i + 1] >= b

\* The i-th block of the list and the one behind it are one if they touch.
MeetsNext(h, i) ==
    i \in 1..Len(h.list) - 1 /\ Touches(h.sizes, h.list[i], h.list[i + 1])

JoinNext(h, i) ==
    IF MeetsNext(h, i)
    THEN [list |-> RemoveAt(h.list, i + 1),
          sizes |-> Merged(h.sizes, h.list[i], h.list[i + 1])]
    ELSE h

Inserted(list, sizes, b) ==
    LET i == Passed(list, b)
        placed == [list |-> InsertAt(list, i + 1, b), sizes |-> sizes]
    IN  JoinNext(JoinNext(placed, i), IF MeetsNext(placed, i) THEN i ELSE i + 1)

(***************************************************************************)
(* pvPortMalloc                                                            *)
(***************************************************************************)
\* The bytes that a request takes, with the structure before them.
Rounded(wanted) ==
    LET size == wanted + heapSTRUCT_SIZE IN
    IF size % portBYTE_ALIGNMENT = 0 THEN size
    ELSE size + portBYTE_ALIGNMENT - (size % portBYTE_ALIGNMENT)

Fitting(size) == {i \in 1..Len(free) : xBlockSize[free[i]] >= size}

Succeeds(wanted) ==
    /\ wanted > 0
    /\ Rounded(wanted) <= xFreeBytesRemaining
    /\ Fitting(Rounded(wanted)) # {}

\* The block b, with what the request does not need made another if that is big
\* enough.
Splits(b, size) == xBlockSize[b] - size > heapMINIMUM_BLOCK_SIZE

pvPortMalloc(wanted) ==
    LET size == Rounded(wanted)
        i == Min(Fitting(size))
        b == free[i]
        rest == RemoveAt(free, i)
        split == [xBlockSize EXCEPT ![b] = size, ![b + size] = xBlockSize[b] - size]
        new == IF Splits(b, size) THEN Inserted(rest, split, b + size)
               ELSE [list |-> rest, sizes |-> xBlockSize]
    IN  /\ Succeeds(wanted)
        /\ free' = new.list
        /\ xBlockSize' = new.sizes
        /\ xFreeBytesRemaining' = xFreeBytesRemaining - xBlockSize'[b]
        /\ allocated' = allocated \cup {b}

\* vPortFree of what pvPortMalloc returned.
vPortFree(b) ==
    LET new == Inserted(free, xBlockSize, b) IN
    /\ b \in allocated
    /\ allocated' = allocated \ {b}
    /\ xFreeBytesRemaining' = xFreeBytesRemaining + xBlockSize[b]
    /\ free' = new.list
    /\ xBlockSize' = new.sizes

Next ==
    \/ \E wanted \in WantedSizes : pvPortMalloc(wanted)
    \/ \E b \in Address : vPortFree(b)

Spec == Init /\ [][Next]_vars
-----------------------------------------------------------------------------
Blocks == allocated \cup Range(free)

Extent(b) == b..b + xBlockSize[b] - 1

\* The blocks, allocated and free, tile the heap: none overlaps another or the end,
\* none is lost by a split or a merge, and xFreeBytesRemaining counts the free ones.
BlocksTile ==
    /\ \A b \in Blocks : \A c \in Blocks \ {b} : Extent(b) \cap Extent(c) = {}
    /\ UNION {Extent(b) : b \in Blocks} = 0..pxEnd - 1
    /\ allocated \cap Range(free) = {}
    /\ xFreeBytesRemaining =
           Cardinality(UNION {Extent(b) : b \in Range(free)})

\* A request is refused only when no bytes in a row that no caller has would hold
\* it, whatever was allocated and freed before: blocks that touch are one.
RefusedOnlyWhenFull ==
    \A wanted \in WantedSizes \ {0} :
        Succeeds(wanted) <=>
            \E a \in Address :
                /\ a + Rounded(wanted) <= pxEnd
                /\ \A b \in allocated :
                      Extent(b) \cap (a..a + Rounded(wanted) - 1) = {}
=============================================================================
