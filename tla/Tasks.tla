------------------------------- MODULE Tasks -------------------------------
(***************************************************************************)
(* The scheduler of Source/tasks.c on one processor, as the Xen port       *)
(* configures it: preemptive, time sliced, generic task selection.         *)
(*                                                                         *)
(* The running task executes kernel calls; what a call does with           *)
(* interrupts masked, or with the scheduler suspended, is one action, and  *)
(* pc[t] is where task t stands between two such pieces.  The loops the    *)
(* kernel runs with interrupts masked (draining xPendingReadyList,         *)
(* catching up on pended ticks, unblocking the tasks a tick makes due,     *)
(* waking every waiter of an event list) take one action per iteration,    *)
(* and `mode' says which loop is running; interrupts are handled only in   *)
(* mode "task".                                                            *)
(***************************************************************************)
EXTENDS Lists

CONSTANTS
    Task,            \* the application's tasks
    Idle,            \* the idle task
    Main,            \* the task created before vTaskStartScheduler
    EventList,       \* event lists: wait queues, and the lists of a queue
    MAX_PRIORITIES,  \* configMAX_PRIORITIES
    TICKS,           \* the number of values of a portTickType
    OVERFLOWS,       \* the number of values of xNumOfOverflows
    Calls,           \* the kernel calls the application makes
    Interrupts,      \* the handlers that run, the tick's apart
    Priority,        \* priorities passed to calls
    Delay,           \* times passed to vTaskDelay and vTaskDelayUntil
    Wait,            \* times passed to vTaskPlaceOnEventList
    MaxPended,       \* bound on uxPendedTicks
    MaxNesting       \* bound on uxSchedulerSuspended

portMAX_DELAY == TICKS - 1
Tick == 0..TICKS - 1
AllTasks == Task \cup {Idle}
Level == 0..MAX_PRIORITIES - 1

ASSUME TaskAssumption ==
    /\ IsFiniteSet(Task)
    /\ Main \in Task
    /\ Idle \notin Task
    /\ ListEnd \notin AllTasks

ASSUME SizeAssumption ==
    /\ MAX_PRIORITIES \in Nat \ {0}
    /\ TICKS \in Nat \ {0, 1}
    /\ OVERFLOWS \in Nat \ {0}
    /\ MaxPended \in Nat
    /\ MaxNesting \in Nat \ {0}

ASSUME ArgumentAssumption ==
    /\ Priority \subseteq Level /\ Priority \ {0} # {}
    /\ Delay \subseteq Tick \ {0}
    /\ Wait \subseteq Tick

\* Where a task stands.  "none": no such task; "run": in its own code, in a
\* call that has not begun; "yield": before the portYIELD_WITHIN_API that ends
\* a call; "deleted": on xTasksWaitingTermination; "delay", "state", "looked"
\* and "found": before xTaskResumeAll in vTaskDelay, uxTaskGetSystemState and
\* the idle task; "reap": the idle task found a task to free; "reaped": it
\* found none, or freed them all.
Place == {"none", "run", "yield", "deleted", "delay", "state", "looked",
          "found", "reap", "reaped"}

\* What the processor does: run the current task, or a masked loop.
Mode == {"task", "drain", "pended", "unblock", "slice", "wake", "assert"}

NoList == "none"

VARIABLES
    pxCurrentTCB, pc, uxPriority, uxBasePriority, xItemValue, xEventValue,
    pxReadyTasksLists, pxDelayedTaskList, pxOverflowDelayedTaskList,
    xPendingReadyList, xTasksWaitingTermination, xSuspendedTaskList,
    xEventLists, uxCurrentNumberOfTasks, uxTasksDeleted, xTickCount,
    xNumOfOverflows, xNextTaskUnblockTime, uxTopReadyPriority,
    uxSchedulerSuspended, uxPendedTicks, xYieldPending,
    mode, caller, xSwitchRequired, waking,
    ticks            \* history: the timer's interrupts so far, modulo TICKS

tcb == <<pc, uxPriority, uxBasePriority, xItemValue, xEventValue>>
ready == <<pxReadyTasksLists, uxTopReadyPriority>>
delayed == <<pxDelayedTaskList, pxOverflowDelayedTaskList,
             xNextTaskUnblockTime>>
parked == <<xTasksWaitingTermination, xSuspendedTaskList>>
events == <<xEventLists, xPendingReadyList>>
counts == <<uxCurrentNumberOfTasks, uxTasksDeleted, ticks>>
clock == <<xTickCount, xNumOfOverflows>>
suspension == <<uxSchedulerSuspended, uxPendedTicks>>
loop == <<mode, caller, xSwitchRequired, waking>>
vars == <<tcb, ready, delayed, parked, events, counts, clock, suspension,
          loop, pxCurrentTCB, xYieldPending>>
-----------------------------------------------------------------------------
(***************************************************************************)
(* Ready lists and task selection.                                         *)
(***************************************************************************)
\* taskRECORD_READY_PRIORITY.
Larger(a, b) == IF a > b THEN a ELSE b

NonEmpty(lists, p) == ~ listLIST_IS_EMPTY(lists[p])

\* taskSELECT_HIGHEST_PRIORITY_TASK lowers uxTopReadyPriority to the first
\* level with a ready task and takes the next task there.
HighestReady(lists, top) == Max({p \in 0..top : NonEmpty(lists, p)})

vTaskSwitchContext(lists, top) ==
    IF uxSchedulerSuspended # 0
    THEN /\ xYieldPending' = TRUE
         /\ pxReadyTasksLists' = lists
         /\ uxTopReadyPriority' = top
         /\ UNCHANGED pxCurrentTCB
    ELSE LET p == HighestReady(lists, top)
             ring == listGET_OWNER_OF_NEXT_ENTRY(lists[p])
         IN  /\ xYieldPending' = FALSE
             /\ pxReadyTasksLists' = [lists EXCEPT ![p] = ring]
             /\ uxTopReadyPriority' = p
             /\ pxCurrentTCB' = Index(ring)

SwitchIf(condition, lists, top) ==
    IF condition
    THEN vTaskSwitchContext(lists, top)
    ELSE /\ pxReadyTasksLists' = lists
         /\ uxTopReadyPriority' = top
         /\ UNCHANGED <<pxCurrentTCB, xYieldPending>>

\* prvAddTaskToReadyList: the lists, and uxTopReadyPriority, with t added.
WithReady(lists, t, p) == [lists EXCEPT ![p] = vListInsertEnd(@, t)]

\* A task made ready takes the processor from the current one, which it also
\* does at the same priority. (A faulty variant first.)
PreemptsLower(t) == uxPriority[t] <= uxPriority[pxCurrentTCB]
Preempts(t) == uxPriority[t] >= uxPriority[pxCurrentTCB]

(***************************************************************************)
(* uxListRemove of the xGenericListItem of t, from whichever list holds    *)
(* it.  The item's value is dead from then on and is forgotten.  (A faulty *)
(* variant first, as below for the event item.)                            *)
(***************************************************************************)
ReadyWithout(t) == [p \in Level |-> uxListRemove(pxReadyTasksLists[p], t)]

RemoveFromFirstDelayed(t) ==
    /\ pxDelayedTaskList' = RemoveFirst(pxDelayedTaskList, t)
    /\ UNCHANGED <<pxOverflowDelayedTaskList, xItemValue, xNextTaskUnblockTime>>

RemoveFromDelayed(t) ==
    /\ pxDelayedTaskList' = RemoveFirst(pxDelayedTaskList, t)
    /\ pxOverflowDelayedTaskList' = RemoveFirst(pxOverflowDelayedTaskList, t)
    /\ xItemValue' = [xItemValue EXCEPT ![t] = 0]
    /\ UNCHANGED xNextTaskUnblockTime

\* uxListRemove of the xEventListItem of t, when it is in a list.
KeepsEventItem(t) == UNCHANGED <<xEventLists, xPendingReadyList>>

RemoveFromEvents(t) ==
    /\ xEventLists' = [e \in EventList |-> RemoveFirst(xEventLists[e], t)]
    /\ xPendingReadyList' = RemoveFirst(xPendingReadyList, t)

(***************************************************************************)
(* prvAddCurrentTaskToDelayedList.  (A faulty variant first.)              *)
(***************************************************************************)
AddCurrentIgnoringOverflow(wake) ==
    LET value == [xItemValue EXCEPT ![pxCurrentTCB] = wake] IN
    /\ xItemValue' = value
    /\ pxDelayedTaskList' =
           vListInsert(pxDelayedTaskList, pxCurrentTCB, value)
    /\ xNextTaskUnblockTime' = IF wake < xNextTaskUnblockTime
                               THEN wake ELSE xNextTaskUnblockTime
    /\ UNCHANGED pxOverflowDelayedTaskList

AddCurrentToDelayed(wake) ==
    LET value == [xItemValue EXCEPT ![pxCurrentTCB] = wake] IN
    /\ xItemValue' = value
    /\ IF wake < xTickCount
       THEN /\ pxOverflowDelayedTaskList' =
                   vListInsert(pxOverflowDelayedTaskList, pxCurrentTCB, value)
            /\ UNCHANGED <<pxDelayedTaskList, xNextTaskUnblockTime>>
       ELSE /\ pxDelayedTaskList' =
                   vListInsert(pxDelayedTaskList, pxCurrentTCB, value)
            /\ xNextTaskUnblockTime' = IF wake < xNextTaskUnblockTime
                                       THEN wake ELSE xNextTaskUnblockTime
            /\ UNCHANGED pxOverflowDelayedTaskList

\* The value of an xEventListItem: the highest priority sorts first.
EventItemValue(p) == MAX_PRIORITIES - p

WaitsForEvent(t) == \E e \in EventList : Contains(xEventLists[e], t)

TicksAfter(time, n) == (time + n) % TICKS
-----------------------------------------------------------------------------
(***************************************************************************)
(* The state vTaskStartScheduler leaves to xPortStartScheduler: Main was   *)
(* created, then the idle task, which has the lowest priority.             *)
(***************************************************************************)
Init ==
    /\ pxCurrentTCB = Main
    /\ pc = [t \in AllTasks |-> IF t \in {Main, Idle} THEN "run" ELSE "none"]
    /\ \E p \in Priority \ {0} :
        /\ uxPriority = [t \in AllTasks |-> IF t = Main THEN p ELSE 0]
        /\ pxReadyTasksLists =
               [q \in Level |-> IF q = p THEN <<Main, ListEnd>>
                                ELSE IF q = 0 THEN <<Idle, ListEnd>>
                                ELSE vListInitialise]
        /\ uxTopReadyPriority = p
    /\ uxBasePriority = uxPriority
    /\ xItemValue = [t \in AllTasks |-> 0]
    /\ xEventValue = [t \in AllTasks |-> EventItemValue(uxPriority[t])]
    /\ pxDelayedTaskList = <<>> /\ pxOverflowDelayedTaskList = <<>>
    /\ xPendingReadyList = <<>> /\ xTasksWaitingTermination = <<>>
    /\ xSuspendedTaskList = <<>>
    /\ xEventLists = [e \in EventList |-> <<>>]
    /\ uxCurrentNumberOfTasks = 2 /\ uxTasksDeleted = 0
    /\ xTickCount = 0 /\ xNumOfOverflows = 0
    /\ xNextTaskUnblockTime = portMAX_DELAY
    /\ uxSchedulerSuspended = 0 /\ uxPendedTicks = 0
    /\ xYieldPending = FALSE
    /\ mode = "task" /\ caller = "isr" /\ xSwitchRequired = FALSE
    /\ waking = NoList
    /\ ticks = 0
-----------------------------------------------------------------------------
(***************************************************************************)
(* Calls of the running task.                                              *)
(***************************************************************************)
InTask(place) == mode = "task" /\ pc[pxCurrentTCB] = place

GoTo(place) == pc' = [pc EXCEPT ![pxCurrentTCB] = place]

\* A call the application makes.  Those that may block or switch are not made
\* with the scheduler suspended.
Call(name) ==
    /\ name \in Calls
    /\ pxCurrentTCB # Idle
    /\ InTask("run")
    /\ uxSchedulerSuspended = 0

\* A handle of a task that exists and was not deleted.
IsHandle(t) == pc[t] \notin {"none", "deleted"}

\* xTaskGenericCreate.  The yield decided after the critical section compares
\* the caller's priority with the new task's.
xTaskGenericCreate(t, p) ==
    /\ Call("xTaskGenericCreate")
    /\ pc[t] = "none"
    /\ pc' = [pc EXCEPT ![t] = "run",
                        ![pxCurrentTCB] = IF uxPriority[pxCurrentTCB] < p
                                          THEN "yield" ELSE "run"]
    /\ uxPriority' = [uxPriority EXCEPT ![t] = p]
    /\ uxBasePriority' = [uxBasePriority EXCEPT ![t] = p]
    /\ xEventValue' = [xEventValue EXCEPT ![t] = EventItemValue(p)]
    /\ pxReadyTasksLists' = WithReady(pxReadyTasksLists, t, p)
    /\ uxTopReadyPriority' = Larger(p, uxTopReadyPriority)
    /\ uxCurrentNumberOfTasks' = uxCurrentNumberOfTasks + 1
    /\ UNCHANGED <<xItemValue, delayed, parked, events, uxTasksDeleted, ticks,
                   clock, suspension, loop, pxCurrentTCB, xYieldPending>>

vTaskDelete(t) ==
    /\ Call("vTaskDelete")
    /\ IsHandle(t)
    /\ pxReadyTasksLists' = ReadyWithout(t)
    /\ RemoveFromDelayed(t)
    /\ RemoveFromEvents(t)
    /\ xSuspendedTaskList' = RemoveFirst(xSuspendedTaskList, t)
    /\ xTasksWaitingTermination' =
           Append(RemoveFirst(xTasksWaitingTermination, t), t)
    /\ uxTasksDeleted' = uxTasksDeleted + 1
    /\ pc' = [pc EXCEPT ![t] = "deleted"]
    /\ UNCHANGED <<uxPriority, uxBasePriority, xEventValue, uxTopReadyPriority,
                   uxCurrentNumberOfTasks, ticks, clock, suspension, loop,
                   pxCurrentTCB, xYieldPending>>

vTaskSuspend(t) ==
    /\ Call("vTaskSuspend")
    /\ IsHandle(t)
    /\ pxReadyTasksLists' = ReadyWithout(t)
    /\ RemoveFromDelayed(t)
    /\ RemoveFromEvents(t)
    /\ xSuspendedTaskList' = Append(RemoveFirst(xSuspendedTaskList, t), t)
    /\ pc' = IF t = pxCurrentTCB THEN [pc EXCEPT ![t] = "yield"] ELSE pc
    /\ UNCHANGED <<uxPriority, uxBasePriority, xEventValue, uxTopReadyPriority,
                   xTasksWaitingTermination, counts, clock, suspension, loop,
                   pxCurrentTCB, xYieldPending>>

xTaskIsTaskSuspended(t) ==
    /\ Contains(xSuspendedTaskList, t)
    /\ ~ Contains(xPendingReadyList, t)
    /\ ~ WaitsForEvent(t)

\* What vTaskResume and xTaskResumeFromISR do to a suspended task; the switch
\* happens when its priority is at least the current task's.
ResumeNow(t) ==
    /\ xSuspendedTaskList' = RemoveFirst(xSuspendedTaskList, t)
    /\ SwitchIf(Preempts(t),
                WithReady(pxReadyTasksLists, t, uxPriority[t]),
                Larger(uxPriority[t], uxTopReadyPriority))
    /\ UNCHANGED <<tcb, delayed, xTasksWaitingTermination, events, counts,
                   clock, suspension, loop>>

vTaskResume(t) ==
    /\ Call("vTaskResume")
    /\ IsHandle(t) /\ t # pxCurrentTCB
    /\ xTaskIsTaskSuspended(t)
    /\ ResumeNow(t)

vTaskPrioritySet(t, p) ==
    LET current == uxPriority[pxCurrentTCB]
        used == uxPriority[t]
        new == IF uxBasePriority[t] = used THEN p ELSE used
        listed == t \in ItemsOf(pxReadyTasksLists[used])
        yield == IF p > uxBasePriority[t]
                 THEN t # pxCurrentTCB /\ p >= current
                 ELSE t = pxCurrentTCB
    IN  /\ Call("vTaskPrioritySet")
        /\ IsHandle(t)
        /\ p # uxBasePriority[t]
        /\ uxPriority' = [uxPriority EXCEPT ![t] = new]
        /\ uxBasePriority' = [uxBasePriority EXCEPT ![t] = p]
        /\ xEventValue' = [xEventValue EXCEPT ![t] = EventItemValue(p)]
        /\ SwitchIf(yield,
                    IF listed THEN WithReady(ReadyWithout(t), t, new)
                              ELSE pxReadyTasksLists,
                    IF listed THEN Larger(new, uxTopReadyPriority)
                              ELSE uxTopReadyPriority)
        /\ UNCHANGED <<pc, xItemValue, delayed, parked, events, counts, clock,
                       suspension, loop>>

\* taskYIELD, and vTaskDelay(0).
taskYIELD ==
    /\ Call("taskYIELD")
    /\ vTaskSwitchContext(pxReadyTasksLists, uxTopReadyPriority)
    /\ UNCHANGED <<tcb, delayed, parked, events, counts, clock, suspension,
                   loop>>

\* The portYIELD_WITHIN_API after a critical section or an xTaskResumeAll that
\* did not yield; interrupts were handled in between.
portYIELD_WITHIN_API ==
    /\ InTask("yield") \/ InTask("deleted")
    /\ pc' = IF InTask("yield") THEN [pc EXCEPT ![pxCurrentTCB] = "run"] ELSE pc
    /\ vTaskSwitchContext(pxReadyTasksLists, uxTopReadyPriority)
    /\ UNCHANGED <<uxPriority, uxBasePriority, xItemValue, xEventValue, delayed,
                   parked, events, counts, clock, suspension, loop>>
-----------------------------------------------------------------------------
(***************************************************************************)
(* Sections with the scheduler suspended.  xTaskResumeAll is the end of    *)
(* each; what comes before it does not depend on when interrupts are       *)
(* handled, for they touch only uxPendedTicks and xPendingReadyList.       *)
(***************************************************************************)
\* vTaskDelay with a positive time: the current task, blocked, has yet to
\* resume the scheduler.
vTaskDelay(n) ==
    /\ Call("vTaskDelay")
    /\ uxSchedulerSuspended' = uxSchedulerSuspended + 1
    /\ pxReadyTasksLists' = ReadyWithout(pxCurrentTCB)
    /\ AddCurrentToDelayed(TicksAfter(xTickCount, n))
    /\ GoTo("delay")
    /\ UNCHANGED <<uxPriority, uxBasePriority, xEventValue, uxTopReadyPriority,
                   parked, events, counts, clock, uxPendedTicks, loop,
                   pxCurrentTCB, xYieldPending>>

\* The test of vTaskDelayUntil: is the time n ticks after previous still to
\* come?  Either count may have overflowed.
ShouldDelay(previous, n, now) ==
    LET wake == TicksAfter(previous, n)
    IN  IF now < previous
        THEN wake < previous /\ wake > now
        ELSE wake < previous \/ wake > now

\* previous is the caller's *pxPreviousWakeTime.
vTaskDelayUntil(previous, n) ==
    /\ Call("vTaskDelayUntil")
    /\ uxSchedulerSuspended' = uxSchedulerSuspended + 1
    /\ IF ShouldDelay(previous, n, xTickCount)
       THEN /\ pxReadyTasksLists' = ReadyWithout(pxCurrentTCB)
            /\ AddCurrentToDelayed(TicksAfter(previous, n))
       ELSE UNCHANGED <<pxReadyTasksLists, delayed, xItemValue>>
    /\ GoTo("delay")
    /\ UNCHANGED <<uxPriority, uxBasePriority, xEventValue, uxTopReadyPriority,
                   parked, events, counts, clock, uxPendedTicks, loop,
                   pxCurrentTCB, xYieldPending>>

\* vTaskSuspendAll called by the application, which may nest it.
vTaskSuspendAll ==
    /\ "vTaskSuspendAll" \in Calls
    /\ pxCurrentTCB # Idle
    /\ InTask("run")
    /\ uxSchedulerSuspended < MaxNesting
    /\ uxSchedulerSuspended' = uxSchedulerSuspended + 1
    /\ UNCHANGED <<tcb, ready, delayed, parked, events, counts, clock,
                   uxPendedTicks, loop, pxCurrentTCB, xYieldPending>>

\* uxTaskGetSystemState, up to its xTaskResumeAll.  prvListTaskWithinSingleList
\* walks every list with listGET_OWNER_OF_NEXT_ENTRY, once to the first item and
\* then around: pxIndex ends one item further.
uxTaskGetSystemState ==
    /\ "uxTaskGetSystemState" \in Calls
    /\ pxCurrentTCB # Idle
    /\ InTask("run")
    /\ uxSchedulerSuspended < MaxNesting
    /\ uxSchedulerSuspended' = uxSchedulerSuspended + 1
    /\ pxReadyTasksLists' =
           [p \in Level |-> IF NonEmpty(pxReadyTasksLists, p)
                            THEN listGET_OWNER_OF_NEXT_ENTRY(pxReadyTasksLists[p])
                            ELSE pxReadyTasksLists[p]]
    /\ GoTo("state")
    /\ UNCHANGED <<uxPriority, uxBasePriority, xItemValue, xEventValue,
                   uxTopReadyPriority, delayed, parked, events, counts, clock,
                   uxPendedTicks, loop, pxCurrentTCB, xYieldPending>>

\* Where the caller of xTaskResumeAll goes on.
AfterResume(place, yielded) ==
    CASE place = "delay" -> IF yielded THEN "run" ELSE "yield"
      [] place = "found" -> "reap"
      [] OTHER -> "run"

xTaskResumeAll ==
    /\ \E place \in {"run", "delay", "state", "looked", "found"} : InTask(place)
    /\ uxSchedulerSuspended > 0
    /\ uxSchedulerSuspended' = uxSchedulerSuspended - 1
    /\ IF uxSchedulerSuspended = 1
       THEN /\ mode' = "drain"
            /\ UNCHANGED pc
       ELSE /\ GoTo(AfterResume(pc[pxCurrentTCB], FALSE))
            /\ UNCHANGED mode
    /\ UNCHANGED <<uxPriority, uxBasePriority, xItemValue, xEventValue, ready,
                   delayed, parked, events, counts, clock, uxPendedTicks,
                   caller, xSwitchRequired, waking, pxCurrentTCB, xYieldPending>>
-----------------------------------------------------------------------------
(***************************************************************************)
(* xTaskIncrementTick, run by the tick interrupt or by xTaskResumeAll for  *)
(* a tick that came while the scheduler was suspended.                     *)
(***************************************************************************)
\* taskSWITCH_DELAYED_LISTS; its assertion stops the system in mode "assert".
\* (Two faulty variants first.)
SwitchKeepsUnblockTime ==
    /\ pxDelayedTaskList' = pxOverflowDelayedTaskList
    /\ pxOverflowDelayedTaskList' = pxDelayedTaskList
    /\ xNumOfOverflows' = (xNumOfOverflows + 1) % OVERFLOWS
    /\ UNCHANGED xNextTaskUnblockTime

NoSwitchOfLists ==
    /\ xNumOfOverflows' = (xNumOfOverflows + 1) % OVERFLOWS
    /\ UNCHANGED delayed

SwitchDelayedLists ==
    /\ pxDelayedTaskList' = pxOverflowDelayedTaskList
    /\ pxOverflowDelayedTaskList' = pxDelayedTaskList
    /\ xNumOfOverflows' = (xNumOfOverflows + 1) % OVERFLOWS
    /\ xNextTaskUnblockTime' = IF pxOverflowDelayedTaskList = <<>>
                               THEN portMAX_DELAY
                               ELSE xItemValue[Head(pxOverflowDelayedTaskList)]

AssertionHolds(now) == now = 0 => pxDelayedTaskList = <<>>

xTaskIncrementTick(from) ==
    LET now == TicksAfter(xTickCount, 1) IN
    /\ xTickCount' = now
    /\ IF now = 0 /\ pxDelayedTaskList = <<>>
       THEN SwitchDelayedLists
       ELSE UNCHANGED <<delayed, xNumOfOverflows>>
    /\ mode' = IF ~ AssertionHolds(now) THEN "assert"
               ELSE IF now >= xNextTaskUnblockTime' THEN "unblock"
               ELSE "slice"
    /\ caller' = from
    /\ xSwitchRequired' = FALSE

\* One turn of the unblocking loop: the head of the delayed list is due.
UnblockHead ==
    /\ mode = "unblock"
    /\ pxDelayedTaskList # <<>>
    /\ LET t == Head(pxDelayedTaskList)
           p == uxPriority[t]
       IN  /\ xTickCount >= xItemValue[t]
           /\ pxDelayedTaskList' = Tail(pxDelayedTaskList)
           /\ xItemValue' = [xItemValue EXCEPT ![t] = 0]
           /\ RemoveFromEvents(t)
           /\ pxReadyTasksLists' = WithReady(pxReadyTasksLists, t, p)
           /\ uxTopReadyPriority' = Larger(p, uxTopReadyPriority)
           /\ xSwitchRequired' = (xSwitchRequired \/ Preempts(t))
    /\ UNCHANGED <<pc, uxPriority, uxBasePriority, xEventValue,
                   pxOverflowDelayedTaskList, xNextTaskUnblockTime, parked,
                   counts, clock, suspension, mode, caller, waking,
                   pxCurrentTCB, xYieldPending>>

\* The end of the loop: no delayed task, or none due.
UnblockDone ==
    /\ mode = "unblock"
    /\ \/ /\ pxDelayedTaskList = <<>>
          /\ xNextTaskUnblockTime' = portMAX_DELAY
       \/ /\ pxDelayedTaskList # <<>>
          /\ xTickCount < xItemValue[Head(pxDelayedTaskList)]
          /\ xNextTaskUnblockTime' = xItemValue[Head(pxDelayedTaskList)]
    /\ mode' = "slice"
    /\ UNCHANGED <<tcb, ready, pxDelayedTaskList, pxOverflowDelayedTaskList,
                   parked, events, counts, clock, suspension, caller,
                   xSwitchRequired, waking, pxCurrentTCB, xYieldPending>>

\* The value xTaskIncrementTick returns: a switch is required for an unblocked
\* task, for a time slice, or because one is pending. (A faulty variant
\* first.)
NoTimeSlice == xSwitchRequired \/ xYieldPending

SwitchWanted ==
    \/ xSwitchRequired
    \/ listCURRENT_LIST_LENGTH(pxReadyTasksLists[uxPriority[pxCurrentTCB]]) > 1
    \/ xYieldPending

\* FreeRTOS_Tick_Handler notes the switch, and it is done on the way out of
\* the interrupt.
TickISRReturn ==
    /\ mode = "slice" /\ caller = "isr"
    /\ mode' = "task"
    /\ xSwitchRequired' = FALSE
    /\ SwitchIf(SwitchWanted, pxReadyTasksLists, uxTopReadyPriority)
    /\ UNCHANGED <<tcb, delayed, parked, events, counts, clock, suspension,
                   caller, waking>>

\* A pended tick is done. (A faulty variant first.)
ForgetsPendedTicks ==
    /\ mode = "slice" /\ caller = "resume"
    /\ mode' = "pended"
    /\ caller' = "isr"
    /\ xSwitchRequired' = FALSE
    /\ xYieldPending' = SwitchWanted
    /\ uxPendedTicks' = 0
    /\ UNCHANGED <<tcb, ready, delayed, parked, events, counts, clock,
                   uxSchedulerSuspended, waking, pxCurrentTCB>>

PendedTickReturn ==
    /\ mode = "slice" /\ caller = "resume"
    /\ mode' = "pended"
    /\ caller' = "isr"
    /\ xSwitchRequired' = FALSE
    /\ xYieldPending' = SwitchWanted
    /\ uxPendedTicks' = uxPendedTicks - 1
    /\ UNCHANGED <<tcb, ready, delayed, parked, events, counts, clock,
                   uxSchedulerSuspended, waking, pxCurrentTCB>>
-----------------------------------------------------------------------------
(***************************************************************************)
(* The critical section of xTaskResumeAll.                                 *)
(***************************************************************************)
\* A task an interrupt made ready while the scheduler was suspended.
DrainPendingReady ==
    /\ mode = "drain"
    /\ xPendingReadyList # <<>>
    /\ LET t == Head(xPendingReadyList)
           p == uxPriority[t]
       IN  /\ xPendingReadyList' = Tail(xPendingReadyList)
           /\ RemoveFromDelayed(t)
           /\ xSuspendedTaskList' = RemoveFirst(xSuspendedTaskList, t)
           /\ pxReadyTasksLists' = WithReady(ReadyWithout(t), t, p)
           /\ uxTopReadyPriority' = Larger(p, uxTopReadyPriority)
           /\ xYieldPending' = (xYieldPending \/ Preempts(t))
    /\ UNCHANGED <<pc, uxPriority, uxBasePriority, xEventValue, xEventLists,
                   xTasksWaitingTermination, counts, clock, suspension, loop,
                   pxCurrentTCB>>

\* No task is pending any more.
DrainDone ==
    /\ mode = "drain"
    /\ xPendingReadyList = <<>>
    /\ mode' = "pended"
    /\ UNCHANGED <<tcb, ready, delayed, parked, events, counts, clock,
                   suspension, caller, xSwitchRequired, waking, pxCurrentTCB,
                   xYieldPending>>

PendedTick ==
    /\ mode = "pended"
    /\ uxPendedTicks > 0
    /\ xTaskIncrementTick("resume")
    /\ UNCHANGED <<tcb, ready, parked, events, counts, suspension, waking,
                   pxCurrentTCB, xYieldPending>>

\* The yield, still in the critical section, and the return.
ResumeAllDone ==
    /\ mode = "pended"
    /\ uxPendedTicks = 0
    /\ mode' = "task"
    /\ GoTo(AfterResume(pc[pxCurrentTCB], xYieldPending))
    /\ SwitchIf(xYieldPending, pxReadyTasksLists, uxTopReadyPriority)
    /\ UNCHANGED <<uxPriority, uxBasePriority, xItemValue, xEventValue, delayed,
                   parked, events, counts, clock, suspension, caller,
                   xSwitchRequired, waking>>
-----------------------------------------------------------------------------
(***************************************************************************)
(* Event lists.                                                            *)
(***************************************************************************)
\* wait_on (n = portMAX_DELAY) and the body of wait_event (n = 0):
\* vTaskPlaceOnEventList with interrupts disabled, then a yield.
WaitOn(e, n) ==
    /\ Call("vTaskPlaceOnEventList")
    /\ xEventLists' =
           [xEventLists EXCEPT ![e] = vListInsert(@, pxCurrentTCB, xEventValue)]
    /\ pxReadyTasksLists' = ReadyWithout(pxCurrentTCB)
    /\ IF n = portMAX_DELAY
       THEN /\ xSuspendedTaskList' = Append(xSuspendedTaskList, pxCurrentTCB)
            /\ UNCHANGED <<delayed, xItemValue>>
       ELSE /\ AddCurrentToDelayed(TicksAfter(xTickCount, n))
            /\ UNCHANGED xSuspendedTaskList
    /\ GoTo("yield")
    /\ UNCHANGED <<uxPriority, uxBasePriority, xEventValue, uxTopReadyPriority,
                   xTasksWaitingTermination, xPendingReadyList, counts, clock,
                   suspension, loop, pxCurrentTCB, xYieldPending>>

\* xTaskRemoveFromEventList: the head of the event list becomes ready, or goes
\* to xPendingReadyList while the scheduler is suspended.
xTaskRemoveFromEventList(e) ==
    LET t == Head(xEventLists[e])
        p == uxPriority[t]
    IN  /\ xEventLists' = [xEventLists EXCEPT ![e] = Tail(@)]
        /\ IF uxSchedulerSuspended = 0
           THEN /\ RemoveFromDelayed(t)
                /\ xSuspendedTaskList' = RemoveFirst(xSuspendedTaskList, t)
                /\ pxReadyTasksLists' = WithReady(ReadyWithout(t), t, p)
                /\ uxTopReadyPriority' = Larger(p, uxTopReadyPriority)
                /\ UNCHANGED xPendingReadyList
           ELSE /\ xPendingReadyList' = Append(xPendingReadyList, t)
                /\ UNCHANGED <<ready, delayed, xItemValue, xSuspendedTaskList>>
        /\ xYieldPending' = (xYieldPending \/ Preempts(t))

\* wake_up_from_isr: with interrupts masked, every waiter is removed.
StartWaking(e) ==
    /\ xEventLists[e] # <<>>
    /\ mode' = "wake"
    /\ waking' = e
    /\ UNCHANGED <<tcb, ready, delayed, parked, events, counts, clock,
                   suspension, caller, xSwitchRequired, pxCurrentTCB,
                   xYieldPending>>

wake_up(e) == Call("wake_up") /\ StartWaking(e)

WakeNext ==
    /\ mode = "wake"
    /\ xTaskRemoveFromEventList(waking)
    /\ IF Len(xEventLists[waking]) = 1
       THEN mode' = "task" /\ waking' = NoList
       ELSE UNCHANGED <<mode, waking>>
    /\ UNCHANGED <<pc, uxPriority, uxBasePriority, xEventValue,
                   xTasksWaitingTermination, counts, clock, suspension, caller,
                   xSwitchRequired, pxCurrentTCB>>
-----------------------------------------------------------------------------
(***************************************************************************)
(* Interrupts.                                                             *)
(***************************************************************************)
TickISR ==
    /\ mode = "task"
    /\ IF uxSchedulerSuspended = 0
       THEN /\ xTaskIncrementTick("isr")
            /\ UNCHANGED uxPendedTicks
       ELSE /\ uxPendedTicks < MaxPended
            /\ uxPendedTicks' = uxPendedTicks + 1
            /\ UNCHANGED <<delayed, clock, mode, caller, xSwitchRequired>>
    /\ ticks' = TicksAfter(ticks, 1)
    /\ UNCHANGED <<tcb, ready, parked, events, uxCurrentNumberOfTasks,
                   uxTasksDeleted, uxSchedulerSuspended, waking, pxCurrentTCB,
                   xYieldPending>>

Interrupt(name) == name \in Interrupts /\ mode = "task"

wake_up_from_isr(e) == Interrupt("wake_up_from_isr") /\ StartWaking(e)

\* The handler yields on its way out when it is told to. (A faulty variant
\* first.)
ResumesThoughSuspended(t) ==
    /\ Interrupt("xTaskResumeFromISR")
    /\ IsHandle(t)
    /\ xTaskIsTaskSuspended(t)
    /\ ResumeNow(t)

xTaskResumeFromISR(t) ==
    /\ Interrupt("xTaskResumeFromISR")
    /\ IsHandle(t)
    /\ xTaskIsTaskSuspended(t)
    /\ \/ uxSchedulerSuspended = 0 /\ ResumeNow(t)
       \/ /\ uxSchedulerSuspended # 0
          /\ xPendingReadyList' = Append(xPendingReadyList, t)
          /\ UNCHANGED <<tcb, ready, delayed, parked, xEventLists, counts,
                         clock, suspension, loop, pxCurrentTCB, xYieldPending>>
-----------------------------------------------------------------------------
(***************************************************************************)
(* The idle task.                                                          *)
(***************************************************************************)
InIdle(place) == pxCurrentTCB = Idle /\ InTask(place)

\* prvCheckTasksWaitingTermination reads the list with the scheduler suspended.
IdleLooks ==
    /\ InIdle("run")
    /\ uxTasksDeleted > 0
    /\ uxSchedulerSuspended' = uxSchedulerSuspended + 1
    /\ GoTo(IF xTasksWaitingTermination = <<>> THEN "looked" ELSE "found")
    /\ UNCHANGED <<uxPriority, uxBasePriority, xItemValue, xEventValue, ready,
                   delayed, parked, events, counts, clock, uxPendedTicks, loop,
                   pxCurrentTCB, xYieldPending>>

\* Its critical section, and prvDeleteTCB: the handle names no task any more.
IdleReaps ==
    /\ InIdle("reap")
    /\ LET t == Head(xTasksWaitingTermination)
       IN  /\ pc' = [pc EXCEPT ![t] = "none", ![Idle] = "run"]
           /\ uxPriority' = [uxPriority EXCEPT ![t] = 0]
           /\ uxBasePriority' = [uxBasePriority EXCEPT ![t] = 0]
           /\ xEventValue' = [xEventValue EXCEPT ![t] = EventItemValue(0)]
    /\ xTasksWaitingTermination' = Tail(xTasksWaitingTermination)
    /\ uxCurrentNumberOfTasks' = uxCurrentNumberOfTasks - 1
    /\ uxTasksDeleted' = uxTasksDeleted - 1
    /\ UNCHANGED <<ticks, xItemValue, ready, delayed, xSuspendedTaskList, events,
                   clock, suspension, loop, pxCurrentTCB, xYieldPending>>

\* No deleted task is left, for now.
IdleReaped ==
    /\ InIdle("run")
    /\ uxTasksDeleted = 0
    /\ GoTo("reaped")
    /\ UNCHANGED <<uxPriority, uxBasePriority, xItemValue, xEventValue, ready,
                   delayed, parked, events, counts, clock, suspension, loop,
                   pxCurrentTCB, xYieldPending>>

\* configIDLE_SHOULD_YIELD: another task is ready at the idle priority.
IdleYields ==
    /\ InIdle("reaped")
    /\ GoTo("run")
    /\ SwitchIf(listCURRENT_LIST_LENGTH(pxReadyTasksLists[0]) > 1,
                pxReadyTasksLists, uxTopReadyPriority)
    /\ UNCHANGED <<uxPriority, uxBasePriority, xItemValue, xEventValue, delayed,
                   parked, events, counts, clock, suspension, loop>>
-----------------------------------------------------------------------------
\* The current task's own choices.
CallNext ==
    \/ \E t \in Task : vTaskDelete(t) \/ vTaskSuspend(t) \/ vTaskResume(t)
    \/ \E t \in Task, p \in Priority :
          xTaskGenericCreate(t, p) \/ vTaskPrioritySet(t, p)
    \/ \E n \in Delay : vTaskDelay(n)
    \/ \E previous \in Tick, n \in Delay : vTaskDelayUntil(previous, n)
    \/ \E e \in EventList, n \in Wait : WaitOn(e, n)
    \/ \E e \in EventList : wake_up(e)
    \/ taskYIELD \/ vTaskSuspendAll \/ uxTaskGetSystemState

\* What the current task does without a choice: it ends the call it is in, or
\* is the idle task.
TaskNext ==
    \/ xTaskResumeAll \/ portYIELD_WITHIN_API
    \/ IdleLooks \/ IdleReaps \/ IdleReaped \/ IdleYields

\* The masked loops.
KernelNext ==
    \/ DrainPendingReady \/ DrainDone \/ PendedTick \/ ResumeAllDone
    \/ UnblockHead \/ UnblockDone \/ TickISRReturn \/ PendedTickReturn
    \/ WakeNext

InterruptNext ==
    \/ TickISR
    \/ \E e \in EventList : wake_up_from_isr(e)
    \/ \E t \in Task : xTaskResumeFromISR(t)

Next == CallNext \/ TaskNext \/ KernelNext \/ InterruptNext

Spec == Init /\ [][Next]_vars
-----------------------------------------------------------------------------
(***************************************************************************)
(* Properties.                                                             *)
(***************************************************************************)
TcbType ==
    /\ pxCurrentTCB \in AllTasks
    /\ pc \in [AllTasks -> Place]
    /\ uxPriority \in [AllTasks -> Level]
    /\ uxBasePriority \in [AllTasks -> Level]
    /\ xItemValue \in [AllTasks -> Tick]
    /\ xEventValue \in [AllTasks -> 1..MAX_PRIORITIES]

ListType ==
    /\ pxReadyTasksLists \in [Level -> Seq(AllTasks \cup {ListEnd})]
    /\ uxTopReadyPriority \in Level
    /\ pxDelayedTaskList \in Seq(AllTasks)
    /\ pxOverflowDelayedTaskList \in Seq(AllTasks)
    /\ xPendingReadyList \in Seq(AllTasks)
    /\ xTasksWaitingTermination \in Seq(AllTasks)
    /\ xSuspendedTaskList \in Seq(AllTasks)
    /\ xEventLists \in [EventList -> Seq(AllTasks)]

CountType ==
    /\ uxCurrentNumberOfTasks \in Nat
    /\ uxTasksDeleted \in Nat
    /\ xTickCount \in Tick
    /\ xNumOfOverflows \in 0..OVERFLOWS - 1
    /\ xNextTaskUnblockTime \in Tick
    /\ uxSchedulerSuspended \in Nat
    /\ uxPendedTicks \in Nat
    /\ ticks \in Tick

LoopType ==
    /\ xYieldPending \in BOOLEAN
    /\ mode \in Mode
    /\ caller \in {"isr", "resume"}
    /\ xSwitchRequired \in BOOLEAN
    /\ waking \in EventList \cup {NoList}

TypeOK == TcbType /\ ListType /\ CountType /\ LoopType

Exists(t) == pc[t] # "none"

Sleeping(t) ==
    Contains(pxDelayedTaskList, t) \/ Contains(pxOverflowDelayedTaskList, t)

Blocked(t) == Sleeping(t) \/ Contains(xSuspendedTaskList, t)

Ready(t) == \E p \in Level : Contains(pxReadyTasksLists[p], t)

\* The lists a task's xGenericListItem can be in, and the ones its
\* xEventListItem can be in, as families.
GenericList ==
    [l \in -4..MAX_PRIORITIES - 1 |->
        CASE l = -1 -> pxDelayedTaskList
          [] l = -2 -> pxOverflowDelayedTaskList
          [] l = -3 -> xSuspendedTaskList
          [] l = -4 -> xTasksWaitingTermination
          [] OTHER -> pxReadyTasksLists[l]]

\* Every task is in exactly one of the ready lists, the two delayed lists, the
\* suspended list and the termination list, and in it once, whatever calls and
\* interrupts moved it: a task linked twice, or into no list, is lost to the
\* scheduler or corrupts a ring (uxListRemove before each vListInsert).
EachTaskInOneList ==
    /\ \A l \in DOMAIN GenericList : NoRepeats(GenericList[l])
    /\ \A t \in AllTasks :
        LET lists == {l \in DOMAIN GenericList : Contains(GenericList[l], t)}
        IN  IF Exists(t)
            THEN \E l \in lists : lists = {l}
            ELSE lists = {}

\* A task waits on at most one event list, or is on xPendingReadyList and on
\* none, and meanwhile its xGenericListItem is in a delayed list or in
\* xSuspendedTaskList: a time-out, a wake-up and a suspension that race never
\* leave a ready task in an event list.
WaitersAreBlocked ==
    /\ NoRepeats(xPendingReadyList)
    /\ \A e \in EventList : NoRepeats(xEventLists[e])
    /\ \A t \in AllTasks :
        /\ WaitsForEvent(t) => Blocked(t) /\ ~ Contains(xPendingReadyList, t)
        /\ Contains(xPendingReadyList, t) => Blocked(t)
        /\ \A e, f \in EventList :
              Contains(xEventLists[e], t) /\ Contains(xEventLists[f], t) => e = f

\* xPendingReadyList holds tasks only while the scheduler is suspended, or
\* while xTaskResumeAll drains it: nobody is left there to be forgotten.
PendingOnlyWhenSuspended ==
    xPendingReadyList # <<>> => uxSchedulerSuspended > 0 \/ mode = "drain"

\* A ready task is in the list of its priority, and uxTopReadyPriority is not
\* below it, through every change of priority: the search of
\* taskSELECT_HIGHEST_PRIORITY_TASK, which only goes down, starts high enough.
ReadyByPriority ==
    \A p \in Level : \A t \in ItemsOf(pxReadyTasksLists[p]) :
        uxPriority[t] = p /\ p <= uxTopReadyPriority

\* The task that runs its own code is ready, and no ready task has a higher
\* priority, unless a switch is pending (xYieldPending) or the scheduler is
\* suspended: the processor always goes to the highest priority.
HighestPriorityRuns ==
    mode = "task" /\ pc[pxCurrentTCB] \in {"run", "looked", "found", "reap",
                                           "reaped"}
    =>
    /\ Contains(pxReadyTasksLists[uxPriority[pxCurrentTCB]], pxCurrentTCB)
    /\ \/ xYieldPending
       \/ uxSchedulerSuspended > 0
       \/ \A p \in Level :
             NonEmpty(pxReadyTasksLists, p) => p <= uxPriority[pxCurrentTCB]

\* Between ticks every task of the delayed list wakes at a time that is still
\* to come and every task of the overflow list after the count has wrapped,
\* each list in the order of the times, and xNextTaskUnblockTime is not later
\* than the first: no task oversleeps, across the overflow of xTickCount too.
SleepersAreAhead ==
    /\ Sorted(pxDelayedTaskList, xItemValue)
    /\ Sorted(pxOverflowDelayedTaskList, xItemValue)
    /\ mode \in {"task", "drain", "pended", "wake"} =>
        /\ \A t \in ToSet(pxDelayedTaskList) :
              /\ xItemValue[t] > xTickCount
              /\ xItemValue[t] >= xNextTaskUnblockTime
        /\ \A t \in ToSet(pxOverflowDelayedTaskList) :
              xItemValue[t] < xTickCount

\* A tick unblocks a task at the time it asked for and at no other.
WokenOnTime ==
    [][\A t \in AllTasks :
          mode = "unblock" /\ Sleeping(t) /\ ~ Sleeping(t)' =>
              xItemValue[t] = xTickCount]_vars

\* Every interrupt of the timer is counted once: in xTickCount, or in
\* uxPendedTicks until xTaskResumeAll catches up.
TicksAreCounted ==
    mode \in {"task", "drain", "wake"} =>
        ticks = TicksAfter(xTickCount, uxPendedTicks)

KeepsProcessor ==
    /\ pxCurrentTCB' = pxCurrentTCB
    /\ \A t \in AllTasks : Blocked(t) => ~ Ready(t)'

\* While the scheduler stays suspended the running task keeps the processor,
\* and no task changes from blocked to ready under it.
SuspensionHolds ==
    [][uxSchedulerSuspended > 0 /\ uxSchedulerSuspended' > 0 =>
          KeepsProcessor]_vars

\* The counters of tasks agree with the lists, and the idle task that found
\* the termination list not empty still finds it so in its critical section.
CountsAgree ==
    /\ uxCurrentNumberOfTasks = Cardinality({t \in AllTasks : Exists(t)})
    /\ uxTasksDeleted = Len(xTasksWaitingTermination)
    /\ pc[Idle] \in {"found", "reap"} => xTasksWaitingTermination # <<>>

\* configASSERT in taskSWITCH_DELAYED_LISTS (tasks.c:339): the delayed list is
\* empty when the tick count overflows.
DelayedListsSwitchEmpty == mode # "assert"
-----------------------------------------------------------------------------
(***************************************************************************)
(* Liveness.  The timer keeps interrupting, and an interrupt that comes    *)
(* while they are masked is handled when they are not; a loop that runs    *)
(* with interrupts masked goes on; and a task in the middle of a call goes *)
(* on with it if it is given the processor again and again, for handlers   *)
(* leave it time between two interrupts.  Nothing obliges the application  *)
(* to call anything, nor another interrupt to come.                        *)
(***************************************************************************)
Fairness ==
    /\ SF_vars(TickISR)
    /\ WF_vars(KernelNext)
    /\ \A t \in AllTasks : SF_vars(pxCurrentTCB = t /\ TaskNext)

FairSpec == Spec /\ Fairness

\* A task in a delayed list leaves it, in whichever of the two it is.
SleepersWake == \A t \in Task : Sleeping(t) ~> ~ Sleeping(t)

AtTop(t) ==
    Contains(pxReadyTasksLists[HighestReady(pxReadyTasksLists,
                                            uxTopReadyPriority)], t)

\* Tasks that stay ready at the highest priority all get the processor, again
\* and again (configUSE_TIME_SLICING).
EqualShare == \A t \in Task : <>[]AtTop(t) => []<>(pxCurrentTCB = t)
=============================================================================
