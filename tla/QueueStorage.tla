---------------------------- MODULE QueueStorage ----------------------------
(***************************************************************************)
(* The storage of a queue of Source/queue.c: its items are copied in and   *)
(* out of a block of memory through two pointers that chase each other.    *)
(* The calls of tasks and the calls of interrupts use the same two copy    *)
(* functions, each in a critical section; who waits for them and when is   *)
(* the subject of Queue.  Pointers count items from pcHead, so pcTail is   *)
(* uxLength, which is chosen when the queue is created and then stays.     *)
(***************************************************************************)
EXTENDS QueueStorageConstants, Sequences

VARIABLES
    uxLength,
    pcHead,              \* the block
    pcWriteTo, pcReadFrom,
    uxMessagesWaiting,
    pvBuffer             \* where the last receive or peek copied its item

Slot == 0..uxLength - 1

vars == <<uxLength, pcHead, pcWriteTo, pcReadFrom, uxMessagesWaiting, pvBuffer>>

\* The pointers of an empty queue: the slot read from is the one before the
\* next to read.
EmptyPointers == pcWriteTo' = 0 /\ pcReadFrom' = uxLength - 1

\* xQueueGenericCreate: the block is as pvPortMalloc finds it.
Init ==
    /\ uxLength \in Lengths
    /\ pcHead \in [Slot -> Item]
    /\ pcWriteTo = 0
    /\ pcReadFrom = uxLength - 1
    /\ uxMessagesWaiting = 0
    /\ pvBuffer \in Item

\* One item further, and one item back, around a block of n slots.
Forward(p, n) == IF p + 1 >= n THEN 0 ELSE p + 1
Back(p, n) == IF p - 1 < 0 THEN n - 1 ELSE p - 1

\* prvCopyDataToQueue at queueSEND_TO_BACK.
CopyToBack(x) ==
    /\ pcHead' = [pcHead EXCEPT ![pcWriteTo] = x]
    /\ pcWriteTo' = Forward(pcWriteTo, uxLength)
    /\ uxMessagesWaiting' = uxMessagesWaiting + 1
    /\ UNCHANGED pcReadFrom

\* prvCopyDataToQueue at queueSEND_TO_FRONT: the last slot read from is free.
CopyToFront(x) ==
    /\ pcHead' = [pcHead EXCEPT ![pcReadFrom] = x]
    /\ pcReadFrom' = Back(pcReadFrom, uxLength)
    /\ uxMessagesWaiting' = uxMessagesWaiting + 1
    /\ UNCHANGED pcWriteTo

\* ... and at queueOVERWRITE, where an item that is there is not counted twice.
CopyOver(x) ==
    /\ pcHead' = [pcHead EXCEPT ![pcReadFrom] = x]
    /\ pcReadFrom' = Back(pcReadFrom, uxLength)
    /\ uxMessagesWaiting' =
           (IF uxMessagesWaiting > 0 THEN uxMessagesWaiting - 1
                                     ELSE uxMessagesWaiting) + 1
    /\ UNCHANGED pcWriteTo

\* xQueueGenericSend and xQueueGenericSendFromISR that find room; the length
\* of an overwritten queue is 1 (configASSERT).
xQueueGenericSend(x) ==
    /\ \/ uxMessagesWaiting < uxLength /\ (CopyToBack(x) \/ CopyToFront(x))
       \/ uxLength = 1 /\ CopyOver(x)
    /\ UNCHANGED <<uxLength, pvBuffer>>

\* prvCopyDataFromQueue: first on, then read.  (A faulty variant first.)
ReadsThenMoves ==
    /\ pcReadFrom' = Forward(pcReadFrom, uxLength)
    /\ pvBuffer' = pcHead[pcReadFrom]

CopyDataFromQueue ==
    /\ pcReadFrom' = Forward(pcReadFrom, uxLength)
    /\ pvBuffer' = pcHead[Forward(pcReadFrom, uxLength)]

\* xQueueGenericReceive, and xQueueReceiveFromISR, that find an item.
xQueueGenericReceive ==
    /\ uxMessagesWaiting > 0
    /\ CopyDataFromQueue
    /\ uxMessagesWaiting' = uxMessagesWaiting - 1
    /\ UNCHANGED <<uxLength, pcHead, pcWriteTo>>

\* A peek puts the read position back.
xQueuePeek ==
    /\ uxMessagesWaiting > 0
    /\ pvBuffer' = pcHead[Forward(pcReadFrom, uxLength)]
    /\ UNCHANGED <<uxLength, pcHead, pcWriteTo, pcReadFrom, uxMessagesWaiting>>

xQueueGenericReset ==
    /\ EmptyPointers
    /\ uxMessagesWaiting' = 0
    /\ UNCHANGED <<uxLength, pcHead, pvBuffer>>

Next ==
    \/ \E x \in Item : xQueueGenericSend(x)
    \/ xQueueGenericReceive \/ xQueuePeek \/ xQueueGenericReset

Spec == Init /\ [][Next]_vars
-----------------------------------------------------------------------------
TypeOK ==
    /\ uxLength \in Lengths
    /\ pcHead \in [Slot -> Item]
    /\ pcWriteTo \in Slot /\ pcReadFrom \in Slot
    /\ uxMessagesWaiting \in 0..uxLength
    /\ pvBuffer \in Item

\* The i-th slot after the one read last.
SlotAfter(p, i, n) == IF p + i >= n THEN p + i - n ELSE p + i

\* The two pointers and the count, which the code keeps apart, agree: the
\* next item is written to the slot after the last item, after sends to
\* either end, overwrites, receives and resets in any order.
PointersAgree ==
    pcWriteTo =
        Forward(SlotAfter(pcReadFrom, uxMessagesWaiting, uxLength), uxLength)

IInv == TypeOK /\ PointersAgree

\* The items in the order in which they will be read.
Contents ==
    [i \in 1..uxMessagesWaiting |-> pcHead[SlotAfter(pcReadFrom, i, uxLength)]]

Abstract == INSTANCE Buffer WITH
                length <- uxLength,
                items <- Contents,
                received <- pvBuffer

\* The block and its pointers are a bounded buffer: no item is lost, given
\* twice, or given out of order.
ImplementsBuffer == Abstract!Spec
=============================================================================
