-------------------------------- MODULE Xenbus --------------------------------
(***************************************************************************)
(* The requests of platform/xen/xenbus.c: tasks share a fixed number of    *)
(* request identifiers and one ring to the store; a thread of the highest  *)
(* priority takes replies and watch events from the other ring.  What it   *)
(* does with a watch event is in Watches.                                  *)
(*                                                                         *)
(* Tasks are of one priority below the thread's, so that they interleave   *)
(* at every step and the thread handles one message between two of them.   *)
(* A task in wait_event tests its condition at every tick (Tasks), so the  *)
(* wait is the guard of the step that follows.  The store is external.     *)
(***************************************************************************)
EXTENDS SequencesExt, Integers

CONSTANTS
    Task,
    NULL,
    NR_REQS,
    RING_SIZE,    \* XENSTORE_RING_SIZE, in units: a header is one unit,
    BODY,         \* and the rest of a message BODY units
    INDICES,      \* the number of values of a XENSTORE_RING_IDX
    MaxCalls,     \* bound on the requests
    MaxEvents     \* bound on the watch events of the store

Id == 0..NR_REQS - 1
LEN == 1 + BODY

VARIABLES
    pc,
    call, id,         \* of a task: the number of its last request, and the
                      \* identifier of the one under way
    in_use, ready, reply, nr_live_reqs, probe,
    xb_write_sem,
    prod,                         \* the thread's
    req, req_prod, req_cons,      \* the messages in the request ring
    rsp, rsp_prod, rsp_cons,      \* those in the response ring, the last of
                                  \* which may be there in part
    notified, outgoing, fired,    \* the store's; fired: its watch events
    bug               \* a BUG_ON failed: the program stops

taskVars == <<pc, call, id>>
idVars == <<in_use, ready, reply, nr_live_reqs, probe>>
reqVars == <<xb_write_sem, req, req_prod, req_cons, notified>>
rspVars == <<rsp, rsp_prod, rsp_cons, prod>>
storeVars == <<outgoing, fired>>
vars == <<taskVars, idVars, reqVars, rspVars, storeVars, bug>>

Init ==
    /\ pc = [t \in Task |-> "run"]
    /\ call = [t \in Task |-> 0]
    /\ id = [t \in Task |-> NULL]
    /\ in_use = [i \in Id |-> FALSE]
    /\ ready = [i \in Id |-> FALSE]
    /\ reply = [i \in Id |-> NULL]
    /\ nr_live_reqs = 0 /\ probe = 0
    /\ xb_write_sem = NULL
    /\ prod = 0
    /\ req = <<>> /\ req_prod = 0 /\ req_cons = 0
    /\ rsp = <<>> /\ rsp_prod = 0 /\ rsp_cons = 0
    /\ notified = FALSE /\ outgoing = <<>> /\ fired = 0
    /\ bug = FALSE
-----------------------------------------------------------------------------
\* What is in a ring, by its unsigned indices.
Used(producer, consumer) == (producer - consumer) % INDICES

At(t, place) == ~bug /\ pc[t] = place
GoTo(t, place) == pc' = [pc EXCEPT ![t] = place]

BUG_ON(failed) == bug' = failed

(***************************************************************************)
(* xenbus_msg_reply, by which every call of the client asks the store.     *)
(***************************************************************************)
Begin(t) ==
    /\ At(t, "run")
    /\ FoldFunction(+, 0, call) < MaxCalls
    /\ call' = [call EXCEPT ![t] = @ + 1]
    /\ GoTo(t, "allocate")
    /\ UNCHANGED <<id, idVars, reqVars, rspVars, storeVars, bug>>

\* allocate_xenbus_id, its section under req_lock: all identifiers are in use,
Full(t) ==
    /\ At(t, "allocate")
    /\ nr_live_reqs >= NR_REQS
    /\ GoTo(t, "full")
    /\ UNCHANGED <<call, id, idVars, reqVars, rspVars, storeVars, bug>>

NoLongerFull(t) ==
    /\ At(t, "full")
    /\ nr_live_reqs < NR_REQS
    /\ GoTo(t, "allocate")
    /\ UNCHANGED <<call, id, idVars, reqVars, rspVars, storeVars, bug>>

\* How far the free identifiers are from the one that is tried first.
Probed == {n \in 0..NR_REQS - 1 : ~in_use[(probe + n) % NR_REQS]}

\* ... or the first free one is taken.  (A faulty variant of what that stores
\* first.)
LeftReady(i) == UNCHANGED ready

Unready(i) == ready' = [ready EXCEPT ![i] = FALSE]

Allocate(t) ==
    /\ At(t, "allocate")
    /\ nr_live_reqs < NR_REQS
    /\ BUG_ON(Probed = {})
    /\ IF Probed = {}
       THEN UNCHANGED <<pc, id, idVars>>
       ELSE LET i == (probe + Min(Probed)) % NR_REQS IN
            /\ nr_live_reqs' = nr_live_reqs + 1
            /\ in_use' = [in_use EXCEPT ![i] = TRUE]
            /\ Unready(i)
            /\ probe' = (i + 1) % NR_REQS
            /\ id' = [id EXCEPT ![t] = i]
            /\ GoTo(t, "write")
            /\ UNCHANGED reply
    /\ UNCHANGED <<call, reqVars, rspVars, storeVars>>

\* xb_write: the mutex,
TakeWriteSem(t) ==
    /\ At(t, "write")
    /\ xb_write_sem = NULL
    /\ xb_write_sem' = t
    /\ GoTo(t, "room")
    /\ UNCHANGED <<call, id, idVars, req, req_prod, req_cons, notified, rspVars,
                   storeVars, bug>>

\* ... and, once there is room in the ring, the message and the new index, after
\* an assertion on indices that wrap.  The store can only make more room
\* meanwhile.
Publish(t) ==
    /\ At(t, "room")
    /\ Used(req_prod + LEN, req_cons) <= RING_SIZE
    /\ BUG_ON((req_prod + LEN) % INDICES > (req_cons + RING_SIZE) % INDICES)
    /\ IF bug' THEN UNCHANGED <<pc, req, req_prod, xb_write_sem>>
       ELSE /\ req' = Append(req, [id |-> id[t], task |-> t, call |-> call[t]])
            /\ req_prod' = (req_prod + LEN) % INDICES
            /\ xb_write_sem' = NULL
            /\ GoTo(t, "notify")
    /\ UNCHANGED <<call, id, idVars, req_cons, notified, rspVars, storeVars>>

Notify(t) ==
    /\ At(t, "notify")
    /\ notified' = TRUE
    /\ GoTo(t, "await")
    /\ UNCHANGED <<call, id, idVars, xb_write_sem, req, req_prod, req_cons,
                   rspVars, storeVars, bug>>

\* release_xenbus_id, its section under req_lock.  (A faulty variant first.)
ReleasedUncounted(i) ==
    /\ in_use' = [in_use EXCEPT ![i] = FALSE]
    /\ UNCHANGED <<nr_live_reqs, ready, reply, probe>>

Released(i) ==
    /\ in_use' = [in_use EXCEPT ![i] = FALSE]
    /\ nr_live_reqs' = nr_live_reqs - 1
    /\ UNCHANGED <<ready, reply, probe>>

\* The reply is there.
Receive(t) ==
    /\ At(t, "await")
    /\ ready[id[t]]
    /\ BUG_ON(reply[id[t]].id # id[t] \/ ~in_use[id[t]])
    /\ Released(id[t])
    /\ id' = [id EXCEPT ![t] = NULL]
    /\ GoTo(t, "run")
    /\ UNCHANGED <<call, reqVars, rspVars, storeVars>>

(***************************************************************************)
(* xenbus_thread_func takes one message that is there as a whole.  It      *)
(* sleeps until rsp_prod is not the prod of its last look.                 *)
(***************************************************************************)
Whole == Used(rsp_prod, rsp_cons) >= LEN

Deliver(m) ==
    /\ reply' = [reply EXCEPT ![m.id] = m]
    /\ ready' = [ready EXCEPT ![m.id] = TRUE]
    /\ BUG_ON(~in_use[m.id])
    /\ UNCHANGED <<in_use, nr_live_reqs, probe>>

\* When it looks again: awake, or woken by a change.  (A faulty variant first.)
LooksOnce == prod # rsp_prod

Looks == prod # rsp_prod \/ Whole

Thread ==
    /\ ~bug
    /\ Looks
    /\ prod' = rsp_prod
    /\ IF Whole
       THEN /\ rsp' = Tail(rsp)
            /\ rsp_cons' = (rsp_cons + LEN) % INDICES
            /\ IF Head(rsp).id = NULL
               THEN UNCHANGED <<idVars, bug>>
               ELSE Deliver(Head(rsp))
       ELSE UNCHANGED <<rsp, rsp_cons, idVars, bug>>
    /\ UNCHANGED <<taskVars, reqVars, rsp_prod, storeVars>>

(***************************************************************************)
(* The store.  It takes requests in order when it was notified, answers    *)
(* each, sends watch events in between, and writes a message in two parts. *)
(***************************************************************************)
Serve ==
    /\ notified
    /\ req # <<>>
    /\ req' = Tail(req)
    /\ req_cons' = (req_cons + LEN) % INDICES
    /\ outgoing' = Append(outgoing, Head(req))
    /\ UNCHANGED <<taskVars, idVars, xb_write_sem, req_prod, notified, rspVars,
                   fired, bug>>

Doze ==
    /\ notified /\ req = <<>>
    /\ notified' = FALSE
    /\ UNCHANGED <<taskVars, idVars, xb_write_sem, req, req_prod, req_cons,
                   rspVars, storeVars, bug>>

Fire ==
    /\ fired < MaxEvents
    /\ fired' = fired + 1
    /\ outgoing' = Append(outgoing, [id |-> NULL])
    /\ UNCHANGED <<taskVars, idVars, reqVars, rspVars, bug>>

\* The last message of the ring lacks its body.
Partial == Used(rsp_prod, rsp_cons) < LEN * Len(rsp)

WriteHeader ==
    /\ outgoing # <<>> /\ ~Partial
    /\ Used(rsp_prod + 1, rsp_cons) <= RING_SIZE
    /\ rsp' = Append(rsp, Head(outgoing))
    /\ outgoing' = Tail(outgoing)
    /\ rsp_prod' = (rsp_prod + 1) % INDICES
    /\ UNCHANGED <<taskVars, idVars, reqVars, rsp_cons, prod, fired, bug>>

WriteBody ==
    /\ Partial
    /\ Used(rsp_prod + BODY, rsp_cons) <= RING_SIZE
    /\ rsp_prod' = (rsp_prod + BODY) % INDICES
    /\ UNCHANGED <<taskVars, idVars, reqVars, rsp, rsp_cons, prod, storeVars, bug>>
-----------------------------------------------------------------------------
Proceed(t) ==
    \/ Full(t) \/ NoLongerFull(t) \/ Allocate(t)
    \/ TakeWriteSem(t) \/ Publish(t) \/ Notify(t) \/ Receive(t)

Store == Serve \/ Doze \/ WriteHeader \/ WriteBody

Next ==
    \/ \E t \in Task : Begin(t) \/ Proceed(t)
    \/ Thread
    \/ Store \/ Fire

Spec == Init /\ [][Next]_vars

\* Tasks of one priority share the processor (EqualShare of Tasks); the store
\* answers in the end.
Fairness ==
    /\ \A t \in Task : WF_vars(Proceed(t))
    /\ WF_vars(Thread)
    /\ WF_vars(Store)
-----------------------------------------------------------------------------
(***************************************************************************)
(* Properties.                                                             *)
(***************************************************************************)
\* A task that finds its request ready has the reply to that request and to no
\* earlier one of the same identifier, whoever used it before.
RepliesMatch ==
    \A t \in Task :
        pc[t] = "await" /\ ready[id[t]] =>
            reply[id[t]].task = t /\ reply[id[t]].call = call[t]

\* The identifiers in use are those of the requests under way, no two of them
\* with the same, and nr_live_reqs counts them.
IdsAreCounted ==
    LET users == {t \in Task : pc[t] \in {"write", "room", "notify", "await"}}
    IN  /\ \A t, u \in users : id[t] = id[u] => t = u
        /\ {i \in Id : in_use[i]} = {id[t] : t \in users}
        /\ nr_live_reqs = Cardinality(users)

\* Whatever the store and the other tasks do, a request ends: a task that waits
\* for an identifier, for the mutex, for room in the ring or for its reply goes
\* on some day.
RequestsEnd ==
    \A t \in Task : pc[t] = "allocate" ~> pc[t] = "run"

\* The assertions of the client hold (BUG_ON, xenbus.c:277, 309, 341, 473, 508);
\* xenbus.c:473 says that the request ring is not overfull.
NoBug == ~bug
=============================================================================
