------------------------------ MODULE TasksInv ------------------------------
(***************************************************************************)
(* The inductive invariant of Tasks, for TLC to check before TasksProofs   *)
(* proves it.  The safety properties of Tasks about where tasks are follow *)
(* from it; none of them is inductive alone, for the calls rely on each    *)
(* other: a call moves the running task because a task that runs is ready, *)
(* it is ready because every switch takes a task from a ready list, and no *)
(* ready list loses a task in between because every call that takes one    *)
(* out leaves through a yield.                                             *)
(***************************************************************************)
EXTENDS Tasks

(***************************************************************************)
(* The lists.                                                              *)
(***************************************************************************)
\* Ready lists and a uxTopReadyPriority from which the selection of a task
\* finds one: the idle task is always ready.
ReadyOK(lists, top) ==
    /\ lists \in [Level -> Seq(AllTasks \cup {ListEnd})]
    /\ top \in Level
    /\ \A p \in Level : IsRing(lists[p], AllTasks)
    /\ \A p \in Level : ItemsOf(lists[p]) # {} => p <= top
    /\ Idle \in ItemsOf(lists[0])

DelayedOK ==
    /\ IsList(pxDelayedTaskList, AllTasks)
    /\ IsList(pxOverflowDelayedTaskList, AllTasks)

ParkedOK ==
    /\ IsList(xTasksWaitingTermination, AllTasks)
    /\ IsList(xSuspendedTaskList, AllTasks)

EventsOK ==
    /\ xEventLists \in [EventList -> Seq(AllTasks)]
    /\ \A e \in EventList : IsList(xEventLists[e], AllTasks)
    /\ IsList(xPendingReadyList, AllTasks)

(***************************************************************************)
(* Each task: where its two list items are.                                *)
(***************************************************************************)
InReady(t) == \E p \in Level : t \in ItemsOf(pxReadyTasksLists[p])
InDelayed(t) == t \in ToSet(pxDelayedTaskList)
InOverflow(t) == t \in ToSet(pxOverflowDelayedTaskList)
InSuspended(t) == t \in ToSet(xSuspendedTaskList)
InTermination(t) == t \in ToSet(xTasksWaitingTermination)
InEvents(t) == \E e \in EventList : t \in ToSet(xEventLists[e])
InPending(t) == t \in ToSet(xPendingReadyList)

InOneList(t) ==
    /\ InReady(t) => ~ InDelayed(t) /\ ~ InOverflow(t)
    /\ InReady(t) => ~ InSuspended(t) /\ ~ InTermination(t)
    /\ InDelayed(t) =>
          ~ InOverflow(t) /\ ~ InSuspended(t) /\ ~ InTermination(t)
    /\ InOverflow(t) => ~ InSuspended(t) /\ ~ InTermination(t)
    /\ InSuspended(t) => ~ InTermination(t)
    /\ pc[t] # "none" <=> \/ InReady(t) \/ InDelayed(t) \/ InOverflow(t)
                          \/ InSuspended(t) \/ InTermination(t)
    /\ pc[t] = "deleted" <=> InTermination(t)

AtItsLevel(t) ==
    \A p \in Level : t \in ItemsOf(pxReadyTasksLists[p]) => uxPriority[t] = p

WaitsBlocked(t) ==
    /\ InEvents(t) \/ InPending(t) =>
          InDelayed(t) \/ InOverflow(t) \/ InSuspended(t)
    /\ InEvents(t) => ~ InPending(t)
    /\ \A e, f \in EventList :
          t \in ToSet(xEventLists[e]) /\ t \in ToSet(xEventLists[f]) => e = f

TaskOK(t) == InOneList(t) /\ AtItsLevel(t) /\ WaitsBlocked(t)

(***************************************************************************)
(* The running task, the nesting of sections and the masked loops.         *)
(***************************************************************************)
InSection(t) == pc[t] \in {"delay", "state", "looked", "found"}

Resuming ==
    \/ mode \in {"drain", "pended"}
    \/ mode \in {"unblock", "slice"} /\ caller = "resume"

\* A task that runs, or that will go on without a switch, is ready.
RunningReady ==
    pc[pxCurrentTCB] \notin {"yield", "deleted", "delay"} => InReady(pxCurrentTCB)

\* Only the running task is inside a section, and it has the scheduler
\* suspended or is resuming it.
SectionsOfCurrent ==
    \A t \in AllTasks : InSection(t) =>
        /\ t = pxCurrentTCB
        /\ uxSchedulerSuspended > 0 \/ Resuming \/ mode = "assert"

\* With the scheduler suspended, or while it is resumed, the running task is
\* not in a place it could only leave by a switch.
SuspendedPlaces ==
    /\ uxSchedulerSuspended > 0 \/ Resuming =>
          pc[pxCurrentTCB] = "run" \/ InSection(pxCurrentTCB)
    /\ pc[pxCurrentTCB] = "delay" => uxSchedulerSuspended <= 1

\* The idle task takes no call that could leave the scheduler suspended.
IdlePlaces ==
    /\ \A t \in Task : pc[t] \notin {"looked", "found", "reap", "reaped"}
    /\ pxCurrentTCB = Idle /\ uxSchedulerSuspended > 0 =>
          uxSchedulerSuspended = 1 /\ pc[Idle] \in {"looked", "found"}

Loops ==
    /\ mode \notin {"task", "wake"} => uxSchedulerSuspended = 0
    /\ mode \in {"unblock", "slice"} /\ caller = "resume" => uxPendedTicks > 0
    /\ mode = "wake" => waking \in EventList /\ xEventLists[waking] # <<>>
    /\ xPendingReadyList # <<>> => uxSchedulerSuspended > 0 \/ mode = "drain"

Control ==
    /\ RunningReady /\ SectionsOfCurrent /\ SuspendedPlaces /\ IdlePlaces
    /\ Loops

\* The scheduler's lists, its tasks, its running task and its counters fit
\* together: the strengthening that every call, loop step and interrupt keeps.
IInv ==
    /\ TcbType /\ CountType /\ LoopType
    /\ ReadyOK(pxReadyTasksLists, uxTopReadyPriority)
    /\ DelayedOK /\ ParkedOK /\ EventsOK
    /\ \A t \in AllTasks : TaskOK(t)
    /\ Control /\ CountsAgree

-----------------------------------------------------------------------------
(***************************************************************************)
(* Strengthenings for the time and for the choice of the running task,     *)
(* each inductive together with IInv.                                      *)
(***************************************************************************)
\* xTaskResumeAll is in the middle of a pended tick: counted in xTickCount
\* already, and not yet taken off uxPendedTicks.
Catching == mode \in {"unblock", "slice", "assert"} /\ caller = "resume"

TickInv ==
    /\ Catching => uxPendedTicks > 0
    /\ ticks = TicksAfter(xTickCount, IF Catching THEN uxPendedTicks - 1
                                                  ELSE uxPendedTicks)

\* The running task has the highest priority of the ready ones, or a switch is
\* due: it is pending, the loop of the tick asks for it, or the running task
\* can only go on through one.
SwitchDue ==
    \/ xYieldPending
    \/ mode \in {"unblock", "slice"} /\ xSwitchRequired
    \/ pc[pxCurrentTCB] \in {"yield", "deleted", "delay"}

RunsHighest ==
    \A t \in AllTasks : InReady(t) => uxPriority[t] <= uxPriority[pxCurrentTCB]

HighInv == SwitchDue \/ RunsHighest

\* The delayed tasks wake in order, those of the overflow list after the count
\* has wrapped; while a tick is unblocking tasks, one whose time has come may
\* still be in the list.
SleepInv ==
    /\ Sorted(pxDelayedTaskList, xItemValue)
    /\ Sorted(pxOverflowDelayedTaskList, xItemValue)
    /\ \A t \in ToSet(pxOverflowDelayedTaskList) : xItemValue[t] < xTickCount
    /\ \A t \in ToSet(pxDelayedTaskList) :
          /\ xItemValue[t] >= xTickCount
          /\ mode # "unblock" => /\ xItemValue[t] > xTickCount
                                 /\ xItemValue[t] >= xNextTaskUnblockTime
    /\ mode # "assert"
=============================================================================
