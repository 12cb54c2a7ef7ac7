-------------------------------- MODULE MCParts --------------------------------
(***************************************************************************)
(* The parts of the system that are checked apart from each other, for     *)
(* TLC, in one run.  They share no state, so a behaviour is that of one    *)
(* part, chosen in its first state, while the others stay as they begin.   *)
(***************************************************************************)
EXTENDS SuspendAllConstants, TimeOutConstants, QueueStorageConstants,
        ListPointersConstants, FiniteSets

CONSTANTS
    Watcher, Token, MaxEvents,
    NR_EVS, BITS,
    Owner, NR_RESERVED_ENTRIES, NR_GRANT_ENTRIES,
    portBYTE_ALIGNMENT, heapSTRUCT_SIZE, xTotalHeapSize, WantedSizes,
    Thread, MaxCritical,
    Timer, AutoReload, Period, QUEUE_LENGTH, MaxLag, MaxTime, MaxCommands,
    Left, Right

\* The entries that init_gnttab reserves are some and not all.
ASSUME GrantAssumption ==
    /\ NR_RESERVED_ENTRIES \in Nat \ {0} /\ NR_GRANT_ENTRIES \in Nat
    /\ NR_RESERVED_ENTRIES < NR_GRANT_ENTRIES
    /\ IsFiniteSet(Owner) /\ NULL \notin Owner

\* A task that makes no call uses no token.
ASSUME WatchesAssumption == NULL \notin Token

\* Sizes are multiples of the alignment, and there is a byte before the end.
ASSUME HeapAssumption ==
    /\ portBYTE_ALIGNMENT \in Nat \ {0}
    /\ heapSTRUCT_SIZE \in Nat \ {0} /\ heapSTRUCT_SIZE % portBYTE_ALIGNMENT = 0
    /\ xTotalHeapSize \in Nat /\ xTotalHeapSize % portBYTE_ALIGNMENT = 0
    /\ heapSTRUCT_SIZE < xTotalHeapSize
    /\ WantedSizes \subseteq Nat

\* No period is so long that a daemon this late misses an overflow of the count.
ASSUME TimersAssumption ==
    /\ MaxLag \in Nat /\ Period \subseteq Nat \ {0}
    /\ \A p \in Period : p + MaxLag < TICKS

\* A domain makes the connection or accepts it.
ASSUME RendezvousAssumption == Left \cap Right = {} /\ NULL \notin Left \cup Right

VARIABLES
    part,
    \* of SuspendAll
    pxCurrentTCB, uxSchedulerSuspended, xYieldPending, suspend_pc, register, nesting,
    \* of TimeOut
    xTickCount, xNumOfOverflows, xOverflowCount, xTimeOnEntering, xTicksToWait,
    state, asked, elapsed,
    \* of QueueStorage
    uxLength, pcHead, pcWriteTo, pcReadFrom, uxMessagesWaiting, pvBuffer,
    \* of ListPointers
    pxNext, pxPrevious, xItemValue, pvContainer, pxIndex, uxNumberOfItems,
    \* of Watches
    watch_pc, token, watch_seen, watches, xenbus_events, registered, fired, owed,
    raced,
    \* of EventChannels
    evtchn_pending, evtchn_mask, evtchn_pending_sel, evtchn_upcall_pending, sending,
    callback, l1, port, bound, busy, on,
    \* of GrantTable
    gnttab_list, gnttab_sem, frame, flags, grant_pc, ref, grant_seen, map, given,
    \* of Heap
    xBlockSize, free, allocated, xFreeBytesRemaining,
    \* of CriticalNesting
    running, ulCriticalNesting, masked, stacked, critical_pc, isr, ulReturn,
    ulPortYieldRequired, entered,
    \* of Timers
    now, xTimerPeriodInTicks, current, overflow, expiry, xTimerQueue, timer_pc,
    xLastTime, xMessage, wake, lag, asserted, sent, due, early,
    \* of Rendezvous
    keys, rendezvous_pc, other, granted, offered, mapped, attached, cut, misled

suspending == <<pxCurrentTCB, uxSchedulerSuspended, xYieldPending, suspend_pc,
                register, nesting>>
timing == <<xTickCount, xNumOfOverflows, xOverflowCount, xTimeOnEntering,
            xTicksToWait, state, asked, elapsed>>
storage == <<uxLength, pcHead, pcWriteTo, pcReadFrom, uxMessagesWaiting,
             pvBuffer>>
links == <<pxNext, pxPrevious, xItemValue, pvContainer, pxIndex,
           uxNumberOfItems>>
watching == <<watch_pc, token, watch_seen, watches, xenbus_events, registered,
              fired, owed, raced>>
events == <<evtchn_pending, evtchn_mask, evtchn_pending_sel,
            evtchn_upcall_pending, sending, callback, l1, port, bound, busy,
            on>>
grants == <<gnttab_list, gnttab_sem, frame, flags, grant_pc, ref, grant_seen,
            map, given>>
heap == <<xBlockSize, free, allocated, xFreeBytesRemaining>>
critical == <<running, ulCriticalNesting, masked, stacked, critical_pc, isr,
              ulReturn, ulPortYieldRequired, entered>>
timers == <<now, xTimerPeriodInTicks, current, overflow, expiry, xTimerQueue,
            timer_pc, xLastTime, xMessage, wake, lag, asserted, sent, due,
            early>>
meeting == <<keys, rendezvous_pc, other, granted, offered, mapped, attached,
             cut, misled>>
vars == <<part, suspending, timing, storage, links, watching, events, grants,
          heap, critical, timers, meeting>>

Suspending == INSTANCE SuspendAll WITH pc <- suspend_pc
TimingOut == INSTANCE TimeOut
Storing == INSTANCE QueueStorage
Linking == INSTANCE ListPointers
Watching == INSTANCE Watches WITH pc <- watch_pc, seen <- watch_seen
Signalling == INSTANCE EventChannels
Granting == INSTANCE GrantTable WITH pc <- grant_pc, seen <- grant_seen
Allocating == INSTANCE Heap
Masking == INSTANCE CriticalNesting WITH pxCurrentTCB <- running, pc <- critical_pc
Expiring == INSTANCE Timers WITH pc <- timer_pc
Meeting == INSTANCE Rendezvous WITH pc <- rendezvous_pc

Part == {"SuspendAll", "TimeOut", "QueueStorage", "ListPointers", "Watches",
         "EventChannels", "GrantTable", "Heap", "CriticalNesting", "Timers",
         "Rendezvous"}

\* A part that stays as it begins begins in one way.
Init ==
    /\ part \in Part
    /\ Suspending!Init
    /\ part # "SuspendAll" => pxCurrentTCB = CHOOSE t \in Task : TRUE
    /\ TimingOut!Init
    /\ Storing!Init
    /\ part # "QueueStorage" => /\ uxLength = CHOOSE n \in Lengths : TRUE
                                /\ pvBuffer = CHOOSE x \in Item : TRUE
                                /\ \A i \in DOMAIN pcHead : pcHead[i] = pvBuffer
    /\ Linking!Init
    /\ part # "ListPointers" => \A x \in ListItem : xItemValue[x] = 0
    /\ Watching!Init /\ Signalling!Init /\ Granting!Init /\ Allocating!Init
    /\ Masking!Init
    /\ part # "CriticalNesting" => running = CHOOSE t \in Thread : TRUE
    /\ Expiring!Init
    /\ part # "Timers" =>
          xTimerPeriodInTicks = [t \in Timer |-> CHOOSE p \in Period : TRUE]
    /\ Meeting!Init

Next ==
    /\ part' = part
    /\ IF part = "SuspendAll" THEN Suspending!Next ELSE UNCHANGED suspending
    /\ IF part = "TimeOut" THEN TimingOut!Next ELSE UNCHANGED timing
    /\ IF part = "QueueStorage" THEN Storing!Next ELSE UNCHANGED storage
    /\ IF part = "ListPointers" THEN Linking!Next ELSE UNCHANGED links
    /\ IF part = "Watches" THEN Watching!Next ELSE UNCHANGED watching
    /\ IF part = "EventChannels" THEN Signalling!Next ELSE UNCHANGED events
    /\ IF part = "GrantTable" THEN Granting!Next ELSE UNCHANGED grants
    /\ IF part = "Heap" THEN Allocating!Next ELSE UNCHANGED heap
    /\ IF part = "CriticalNesting" THEN Masking!Next ELSE UNCHANGED critical
    /\ IF part = "Timers" THEN Expiring!Next ELSE UNCHANGED timers
    /\ IF part = "Rendezvous" THEN Meeting!Next ELSE UNCHANGED meeting

Spec == Init /\ [][Next]_vars
-----------------------------------------------------------------------------
\* vTaskSuspendAll and xTaskResumeAll implement the nested lock (SuspendAll).
ImplementsLock == Suspending!ImplementsLock

\* A call times out exactly when its time is over (TimeOut).
TimesOutOnTime == TimingOut!TimesOutOnTime

\* The block and pointers of a queue are a bounded buffer (QueueStorage).
ImplementsBuffer ==
    /\ Storing!Abstract!Init
    /\ [][part = "QueueStorage" =>
              [Storing!Abstract!Next]_(Storing!Abstract!vars)]_storage

\* The pointers of list.c are the rings of Lists (ListPointers).
ImplementsRings ==
    /\ Linking!Rings!Init
    /\ [][part = "ListPointers" => [Linking!Rings!Next]_(Linking!Rings!vars)]_links

\* Watches and their events are lost only by races (Watches).
OnlyRacesLose == part = "Watches" => Watching!OnlyRacesLose

\* An event on a port that is not masked is on its way (EventChannels).
NoEdgeLost == part = "EventChannels" => Signalling!NoEdgeLost

\* The free list has the entries that nobody has (GrantTable).
FreeListIsSound == part = "GrantTable" => Granting!FreeListIsSound

\* What is mapped is granted by the task that has the entry (GrantTable).
MappedIsGranted == part = "GrantTable" => Granting!MappedIsGranted

\* The blocks tile the heap (Heap).
BlocksTile == part = "Heap" => Allocating!BlocksTile

\* A request is refused only when no bytes in a row would hold it (Heap).
RefusedOnlyWhenFull == part = "Heap" => Allocating!RefusedOnlyWhenFull

\* A critical section belongs to its task (CriticalNesting).
SectionsAreTheTasks == part = "CriticalNesting" => Masking!SectionsAreTheTasks

\* Timers expire when their commands say (Timers).
ExpiresOnTime == part = "Timers" => Expiring!ExpiresOnTime

\* The two ends of a channel are each other's (Rendezvous).
EndsAgree == part = "Rendezvous" => Meeting!EndsAgree
=============================================================================
