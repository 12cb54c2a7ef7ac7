------------------------------ MODULE GrantTable ------------------------------
(***************************************************************************)
(* The grant table of platform/xen/gnttab.c: tasks take entries from a     *)
(* free list behind a counting semaphore, and give other domains access to *)
(* a frame by them, or accept the transfer of one.  The other domain runs  *)
(* at the same time.  A section with the scheduler suspended is one step.  *)
(***************************************************************************)
EXTENDS FiniteSets, Integers

CONSTANTS
    Owner,               \* tasks
    NULL,
    NR_RESERVED_ENTRIES, NR_GRANT_ENTRIES

Ref == NR_RESERVED_ENTRIES..NR_GRANT_ENTRIES - 1

VARIABLES
    gnttab_list, gnttab_sem,
    frame, flags,        \* of an entry of gnttab_table; a frame is named for
                         \* the task that owns it
    pc, ref, seen,       \* of a task: its place, its entry, the flags it read
    map,                 \* of an entry: the frame that the other domain has
                         \* mapped by it, or is about to map
    given                \* history: of an entry, the task that has it

free == <<gnttab_list, gnttab_sem>>
entries == <<frame, flags>>
tasks == <<pc, ref, seen>>
vars == <<free, entries, tasks, map, given>>

\* init_gnttab puts every entry that is not reserved.
Init ==
    /\ gnttab_list = [r \in 0..NR_GRANT_ENTRIES - 1 |->
                         IF r = 0 THEN NR_GRANT_ENTRIES - 1
                         ELSE IF r > NR_RESERVED_ENTRIES THEN r - 1 ELSE 0]
    /\ gnttab_sem = Cardinality(Ref)
    /\ frame = [r \in Ref |-> NULL]
    /\ flags = [r \in Ref |-> {}]
    /\ pc = [t \in Owner |-> "run"]
    /\ ref = [t \in Owner |-> NULL]
    /\ seen = [t \in Owner |-> {}]
    /\ map = [r \in Ref |-> NULL]
    /\ given = [r \in Ref |-> NULL]
-----------------------------------------------------------------------------
GoTo(t, place) == pc' = [pc EXCEPT ![t] = place]
SetFlags(r, f) == flags' = [flags EXCEPT ![r] = f]

(***************************************************************************)
(* get_free_entry, of gnttab_grant_access and gnttab_grant_transfer.       *)
(***************************************************************************)
Take(t, call) ==
    /\ pc[t] = "run"
    /\ gnttab_sem > 0
    /\ gnttab_sem' = gnttab_sem - 1
    /\ GoTo(t, call)
    /\ UNCHANGED <<gnttab_list, entries, ref, seen, map, given>>

Pop(t, call) ==
    LET r == gnttab_list[0] IN
    /\ pc[t] = call
    /\ gnttab_list' = [gnttab_list EXCEPT ![0] = gnttab_list[r]]
    /\ ref' = [ref EXCEPT ![t] = r]
    /\ given' = [given EXCEPT ![r] = t]
    /\ GoTo(t, IF call = "access" THEN "fill access" ELSE "fill transfer")
    /\ UNCHANGED <<gnttab_sem, entries, seen, map>>

\* The frame, then the flags.
FillFrame(t, call) ==
    /\ pc[t] = IF call = "access" THEN "fill access" ELSE "fill transfer"
    /\ frame' = [frame EXCEPT ![ref[t]] = t]
    /\ GoTo(t, IF call = "access" THEN "permit" ELSE "accept")
    /\ UNCHANGED <<free, flags, ref, seen, map, given>>

Permit(t) ==
    /\ pc[t] = "permit"
    /\ SetFlags(ref[t], {"permit_access"})
    /\ GoTo(t, "granted")
    /\ UNCHANGED <<free, frame, ref, seen, map, given>>

Accept(t) ==
    /\ pc[t] = "accept"
    /\ SetFlags(ref[t], {"accept_transfer"})
    /\ GoTo(t, "accepting")
    /\ UNCHANGED <<free, frame, ref, seen, map, given>>

(***************************************************************************)
(* gnttab_end_access                                                       *)
(***************************************************************************)
EndAccess(t) ==
    /\ pc[t] = "granted"
    /\ seen' = [seen EXCEPT ![t] = flags[ref[t]]]
    /\ GoTo(t, "end access")
    /\ UNCHANGED <<free, entries, ref, map, given>>

InUse(f) == f \cap {"reading", "writing"} # {}

Refuse(t) ==
    /\ pc[t] = "end access"
    /\ InUse(seen[t])
    /\ GoTo(t, "granted")
    /\ seen' = [seen EXCEPT ![t] = {}]
    /\ UNCHANGED <<free, entries, ref, map, given>>

\* synch_cmpxchg of the flags for none.  (A faulty variant first.)
ExchangesAlways(t) == TRUE

Exchanges(t) == flags[ref[t]] = seen[t]

CmpxchgAccess(t) ==
    /\ pc[t] = "end access"
    /\ ~InUse(seen[t])
    /\ IF Exchanges(t)
       THEN /\ SetFlags(ref[t], {})
            /\ GoTo(t, "put")
            /\ seen' = [seen EXCEPT ![t] = {}]
       ELSE seen' = [seen EXCEPT ![t] = flags[ref[t]]] /\ UNCHANGED <<flags, pc>>
    /\ UNCHANGED <<free, frame, ref, map, given>>

(***************************************************************************)
(* gnttab_end_transfer                                                     *)
(***************************************************************************)
EndTransfer(t) ==
    /\ pc[t] = "accepting"
    /\ seen' = [seen EXCEPT ![t] = flags[ref[t]]]
    /\ GoTo(t, IF "transfer_committed" \in seen'[t] THEN "committed"
               ELSE "end transfer")
    /\ UNCHANGED <<free, entries, ref, map, given>>

CmpxchgTransfer(t) ==
    /\ pc[t] = "end transfer"
    /\ IF Exchanges(t)
       THEN SetFlags(ref[t], {}) /\ GoTo(t, "put")
       ELSE GoTo(t, "accepting") /\ UNCHANGED flags
    /\ seen' = [seen EXCEPT ![t] = {}]
    /\ UNCHANGED <<free, frame, ref, map, given>>

\* The transfer is completed: the loop's end, and the frame is read.
Completed(t) ==
    /\ pc[t] = "committed"
    /\ "transfer_completed" \in flags[ref[t]]
    /\ seen' = [seen EXCEPT ![t] = {}]
    /\ GoTo(t, "put")
    /\ UNCHANGED <<free, entries, ref, map, given>>

(***************************************************************************)
(* put_free_entry: the list, then the semaphore.  (A faulty variant of the *)
(* list's step first.)                                                     *)
(***************************************************************************)
PushedAlone(r) == [gnttab_list EXCEPT ![0] = r]

Pushed(r) == [gnttab_list EXCEPT ![r] = gnttab_list[0], ![0] = r]

Push(t) ==
    /\ pc[t] = "put"
    /\ gnttab_list' = Pushed(ref[t])
    /\ given' = [given EXCEPT ![ref[t]] = NULL]
    /\ ref' = [ref EXCEPT ![t] = NULL]
    /\ GoTo(t, "give")
    /\ UNCHANGED <<gnttab_sem, entries, seen, map>>

Give(t) ==
    /\ pc[t] = "give"
    /\ gnttab_sem' = gnttab_sem + 1
    /\ GoTo(t, "run")
    /\ UNCHANGED <<gnttab_list, entries, ref, seen, map, given>>
-----------------------------------------------------------------------------
(***************************************************************************)
(* The other domain (external).  It maps what is permitted, by setting     *)
(* flags only as long as the entry permits, and then reads the frame.      *)
(***************************************************************************)
Mark(r, use) ==
    /\ "permit_access" \in flags[r]
    /\ ~InUse(flags[r])
    /\ SetFlags(r, flags[r] \cup use)
    /\ UNCHANGED <<free, frame, tasks, map, given>>

Map(r) ==
    /\ InUse(flags[r]) /\ map[r] = NULL
    /\ map' = [map EXCEPT ![r] = frame[r]]
    /\ UNCHANGED <<free, entries, tasks, given>>

Unmap(r) ==
    /\ map[r] # NULL
    /\ map' = [map EXCEPT ![r] = NULL]
    /\ SetFlags(r, flags[r] \ {"reading", "writing"})
    /\ UNCHANGED <<free, frame, tasks, given>>

Commit(r) ==
    /\ flags[r] = {"accept_transfer"}
    /\ SetFlags(r, flags[r] \cup {"transfer_committed"})
    /\ UNCHANGED <<free, frame, tasks, map, given>>

Complete(r) ==
    /\ "transfer_committed" \in flags[r] /\ "transfer_completed" \notin flags[r]
    /\ SetFlags(r, flags[r] \cup {"transfer_completed"})
    /\ UNCHANGED <<free, frame, tasks, map, given>>
-----------------------------------------------------------------------------
Next ==
    \/ \E t \in Owner :
        \/ \E call \in {"access", "transfer"} :
              Take(t, call) \/ Pop(t, call) \/ FillFrame(t, call)
        \/ Permit(t) \/ EndAccess(t) \/ Refuse(t) \/ CmpxchgAccess(t)
        \/ Accept(t) \/ EndTransfer(t) \/ CmpxchgTransfer(t) \/ Completed(t)
        \/ Push(t) \/ Give(t)
    \/ \E r \in Ref :
        \/ Mark(r, {"reading"}) \/ Mark(r, {"reading", "writing"})
        \/ Map(r) \/ Unmap(r) \/ Commit(r) \/ Complete(r)

Spec == Init /\ [][Next]_vars
-----------------------------------------------------------------------------
\* What is reached from the list's head: it is in every set of entries that has
\* the head and that no link leaves.
Listed ==
    LET closed == {S \in SUBSET (0..NR_GRANT_ENTRIES - 1) :
                      /\ gnttab_list[0] \in S
                      /\ \A r \in S \ {0} : gnttab_list[r] \in S}
    IN  {r \in 1..NR_GRANT_ENTRIES - 1 : \A S \in closed : r \in S}

\* The list holds exactly the entries that no task has, and at least as many as
\* the semaphore promises: nobody pops the end of the list (gnttab.c:65), gets an
\* entry that another has, or loses one.
FreeListIsSound ==
    /\ Listed = {r \in Ref : given[r] = NULL}
    /\ gnttab_sem + Cardinality({t \in Owner : pc[t] \in {"access", "transfer"}})
           <= Cardinality(Listed)

\* What the other domain has mapped by an entry is the frame of the task that has
\* the entry and still grants it: end_access frees no entry in use, however its
\* flags change between the test and the exchange (gnttab.c:123).
MappedIsGranted ==
    \A r \in Ref :
        map[r] # NULL \/ InUse(flags[r]) =>
            /\ given[r] # NULL
            /\ pc[given[r]] \in {"granted", "end access"}
            /\ map[r] \in {NULL, given[r]}
=============================================================================
