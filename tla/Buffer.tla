------------------------------- MODULE Buffer -------------------------------
(***************************************************************************)
(* What a queue of Source/queue.c promises about the items it holds: it    *)
(* keeps at most `length' of them, in order, and gives each to one receiver. *)
(***************************************************************************)
EXTENDS Sequences, Integers

CONSTANTS Item, Lengths

VARIABLES
    length,      \* of the buffer, for its life
    items,       \* the first is the next to be received
    received     \* what the last receive or peek was given

vars == <<length, items, received>>

Init == length \in Lengths /\ items = <<>> /\ received \in Item

PutBack(x) ==
    /\ Len(items) < length
    /\ items' = Append(items, x)
    /\ UNCHANGED <<length, received>>

PutFront(x) ==
    /\ Len(items) < length
    /\ items' = <<x>> \o items
    /\ UNCHANGED <<length, received>>

\* Only buffers of one item can be overwritten.
Replace(x) ==
    /\ length = 1
    /\ items' = <<x>>
    /\ UNCHANGED <<length, received>>

Take ==
    /\ items # <<>>
    /\ received' = Head(items)
    /\ items' = Tail(items)
    /\ UNCHANGED length

Look ==
    /\ items # <<>>
    /\ received' = Head(items)
    /\ UNCHANGED <<length, items>>

Discard == items' = <<>> /\ UNCHANGED <<length, received>>

Next ==
    \/ \E x \in Item : PutBack(x) \/ PutFront(x) \/ Replace(x)
    \/ Take \/ Look \/ Discard

Spec == Init /\ [][Next]_vars
=============================================================================
