--------------------------------- MODULE MCXen ---------------------------------
(***************************************************************************)
(* Xenbus and Ivc, for TLC, in one run: as in MCParts, a behaviour is that *)
(* of one of them.  The fairness of the one that stays as it begins asks   *)
(* for nothing, as none of its fair steps can be taken there.              *)
(***************************************************************************)
EXTENDS Integers, FiniteSets

CONSTANTS
    Task, NULL, NR_REQS, RING_SIZE, BODY, INDICES, MaxCalls, MaxEvents,
    SIZE, WORD, LONG, ItemSizes, ITEMS

\* There are identifiers, messages have bodies, and the indices of a ring, of 32 bits
\* each, count more than the ring and a message.
ASSUME ClientAssumption ==
    /\ IsFiniteSet(Task) /\ NULL \notin 0..NR_REQS - 1
    /\ NR_REQS \in Nat \ {0} /\ BODY \in Nat \ {0} /\ RING_SIZE \in Nat
    /\ INDICES \in Nat /\ RING_SIZE + 1 + BODY <= INDICES

\* The indices of a channel run modulo the greatest multiple of its size that they can
\* count to.  No copy is so long that an index and its length pass that width.
ASSUME ChannelAssumption ==
    /\ SIZE \in Nat \ {0} /\ WORD \in Nat /\ 2 * SIZE <= WORD
    /\ LONG \in Nat \ {0} /\ ItemSizes \subseteq Nat /\ ITEMS \in Nat \ {0}
    /\ \A n \in ItemSizes \cup {LONG} : n <= WORD % SIZE

VARIABLES
    part,
    \* of Xenbus
    pc, call, id, in_use, ready, reply, nr_live_reqs, probe, xb_write_sem, prod,
    req, req_prod, req_cons, rsp, rsp_prod, rsp_cons, notified, outgoing, fired, bug,
    \* of Ivc
    memory, produced, consumed, putting, put_left, copied, getting, got, item_size,
    taken, item, unread

client == <<pc, call, id, in_use, ready, reply, nr_live_reqs, probe, xb_write_sem,
            prod, req, req_prod, req_cons, rsp, rsp_prod, rsp_cons, notified,
            outgoing, fired, bug>>
channel == <<memory, produced, consumed, putting, put_left, copied, getting, got,
             item_size, taken, item, unread>>
vars == <<part, client, channel>>

Client == INSTANCE Xenbus
Channel == INSTANCE Ivc

Init == part \in {"Xenbus", "Ivc"} /\ Client!Init /\ Channel!Init

Next ==
    /\ part' = part
    /\ IF part = "Xenbus" THEN Client!Next ELSE UNCHANGED client
    /\ IF part = "Ivc" THEN Channel!Next ELSE UNCHANGED channel

FairSpec == Init /\ [][Next]_vars /\ Client!Fairness /\ Channel!Fairness
-----------------------------------------------------------------------------
\* A reply is that of the request that waits for it (Xenbus).
RepliesMatch == part = "Xenbus" => Client!RepliesMatch

\* The identifiers in use are those of the requests under way (Xenbus).
IdsAreCounted == part = "Xenbus" => Client!IdsAreCounted

\* Items arrive whole and in their order (Ivc).
ItemsArriveWhole == part = "Ivc" => Channel!ItemsArriveWhole

\* A request to the store ends (Xenbus).
RequestsEnd == Client!RequestsEnd

\* An item that was put is returned (Ivc).
ItemsArrive == Channel!ItemsArrive
=============================================================================
