---------------------------------- MODULE Ivc ----------------------------------
(***************************************************************************)
(* A channel of platform/libIVC.c once both ends are built: a ring in      *)
(* memory that two domains share, into which one puts items and from which *)
(* the other takes them, each a size and that many bytes.  The two ends    *)
(* run at the same time.  A wait_event looks at every tick, and the loops  *)
(* of getData and putData poll, so that a wait is the guard of the step    *)
(* that follows it.                                                        *)
(***************************************************************************)
EXTENDS SequencesExt, Integers

CONSTANTS
    SIZE,        \* insize and outsize: what the pages hold beside the indices
    WORD,        \* the number of values of a uint32_t
    LONG,        \* sizeof(unsigned long)
    ItemSizes,   \* of the items that are put
    ITEMS        \* what tells items apart

VARIABLES
    memory, produced, consumed,     \* what is shared
    putting, put_left, copied,      \* of putData: where it is, how much of the
                                    \* item is left, and what is in the ring but
                                    \* not in produced
    getting, got, item_size, taken, \* of getData, likewise
    item,                           \* history: the item being put, a number
    unread                          \* history: the items put, not yet returned

shared == <<memory, produced, consumed>>
putVars == <<putting, put_left, copied, item>>
getVars == <<getting, got, item_size, taken>>
vars == <<shared, putVars, getVars, unread>>

\* computeModulus: the indices run modulo a multiple of SIZE.  (A faulty
\* variant first.)
OneRound(size) == size

computeModulus(size) ==
    LET q == WORD \div size
        base == (q * size) % WORD
    IN  IF base = 0 THEN q * (size - 1) ELSE base

MOD == computeModulus(SIZE)

\* An index moves on: the sum has the width of its two terms, and wraps before the
\* remainder is taken.
Advanced(index, n) == ((index + n) % WORD) % MOD

Init ==
    /\ memory = [i \in 0..SIZE - 1 |-> <<>>]
    /\ produced = 0 /\ consumed = 0
    /\ putting = "idle" /\ put_left = 0 /\ copied = 0 /\ item = 0
    /\ getting = "idle" /\ got = <<>> /\ item_size = 0 /\ taken = 0
    /\ unread = <<>>
-----------------------------------------------------------------------------
getAvail ==
    IF produced >= consumed THEN produced - consumed
    ELSE produced + (MOD - consumed)

Room == SIZE - getAvail

AtMost(a, b) == IF a < b THEN a ELSE b

\* The bytes of an item: which it is and where in it.  The bytes of a size say
\* the size.
Byte(n, i) == <<n, i>>
SizeByte(n) == <<n>>

\* writeRaw's copy of the bytes, in two parts where the ring ends.
Copied(bytes) ==
    [i \in 0..SIZE - 1 |->
        LET at == ((i - (produced % SIZE)) % SIZE) + 1
        IN  IF at <= Len(bytes) THEN bytes[at] ELSE memory[i]]

\* readRaw's.
Copy(n) == [i \in 1..n |-> memory[((consumed % SIZE) + i - 1) % SIZE]]

(***************************************************************************)
(* putData                                                                 *)
(***************************************************************************)
PutSize(n) ==
    /\ putting = "idle"
    /\ Room >= LONG
    /\ memory' = Copied([i \in 1..LONG |-> SizeByte(n)])
    /\ copied' = LONG
    /\ put_left' = n
    /\ item' = (item + 1) % ITEMS
    /\ unread' = Append(unread, [i \in 1..n |-> Byte(item', i)])
    /\ putting' = "written"
    /\ UNCHANGED <<produced, consumed, getVars>>

PutPart ==
    LET n == AtMost(Room, put_left)
        done == Len(Last(unread)) - put_left
    IN  /\ putting = "part"
        /\ n > 0
        /\ memory' = Copied(SubSeq(Last(unread), done + 1, done + n))
        /\ copied' = n
        /\ put_left' = put_left - n
        /\ putting' = "written"
        /\ UNCHANGED <<produced, consumed, item, getVars, unread>>

\* The end of writeRaw: the other end learns of the bytes.
Produce ==
    /\ putting = "written"
    /\ produced' = Advanced(produced, copied)
    /\ copied' = 0
    /\ putting' = IF put_left = 0 THEN "idle" ELSE "part"
    /\ UNCHANGED <<memory, consumed, put_left, item, getVars, unread>>

(***************************************************************************)
(* getData                                                                 *)
(***************************************************************************)
GetSize ==
    /\ getting = "idle"
    /\ getAvail >= LONG
    /\ item_size' = Copy(LONG)[1][1]
    /\ taken' = LONG
    /\ getting' = "read"
    /\ UNCHANGED <<shared, putVars, got, unread>>

\* Bytes of the item: as many as it lacks.  (A faulty variant first.)
AllThere == getAvail

Lacking == AtMost(getAvail, item_size)

GetPart ==
    /\ getting = "part"
    /\ Lacking > 0
    /\ got' = got \o Copy(Lacking)
    /\ taken' = Lacking
    /\ item_size' = item_size - Lacking
    /\ getting' = "read"
    /\ UNCHANGED <<shared, putVars, unread>>

\* The end of readRaw: the other end may use the room.
Consume ==
    /\ getting = "read"
    /\ consumed' = Advanced(consumed, taken)
    /\ taken' = 0
    /\ getting' = IF item_size > 0 THEN "part" ELSE "got"
    /\ UNCHANGED <<memory, produced, putVars, got, item_size, unread>>

Get ==
    /\ getting = "got"
    /\ unread' = Tail(unread)
    /\ got' = <<>>
    /\ getting' = "idle"
    /\ UNCHANGED <<shared, putVars, item_size, taken>>

Next ==
    \/ \E n \in ItemSizes : PutSize(n)
    \/ PutPart \/ Produce
    \/ GetSize \/ GetPart \/ Consume \/ Get

Spec == Init /\ [][Next]_vars

\* Neither end stops in the middle of a call, and the reader reads.
Fairness ==
    /\ WF_vars(PutPart) /\ WF_vars(Produce)
    /\ WF_vars(GetSize) /\ WF_vars(GetPart) /\ WF_vars(Consume) /\ WF_vars(Get)
-----------------------------------------------------------------------------
(***************************************************************************)
(* Properties.                                                             *)
(***************************************************************************)
\* getData returns the items of putData whole and in their order, however they
\* were cut where the ring ends or fills, and whatever the indices did at their
\* modulus, if no copy is longer than WORD - MOD.
ItemsArriveWhole == getting = "got" => got = Head(unread)

\* The size that getData reads is that of an item that fits, as putData put no
\* other (libIVC.c:542).
SizesFit == getting \in {"part", "got"} => item_size <= SIZE - LONG

\* An item that was put is returned some day: a full ring never stops both ends.
ItemsArrive == unread # <<>> ~> getting = "got"
=============================================================================
