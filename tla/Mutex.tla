-------------------------------- MODULE Mutex --------------------------------
(***************************************************************************)
(* Mutexes of Source/queue.c and the priority inheritance of               *)
(* Source/tasks.c.  A mutex is a queue of length 1 without storage; a task *)
(* that finds it taken lends the holder its priority and sleeps in the     *)
(* list of the mutex.                                                      *)
(*                                                                         *)
(* No interrupt may use a mutex (semphr.h), so that what a task does       *)
(* between vTaskSuspendAll and xTaskResumeAll is one step here: Queue has  *)
(* its parts.  The critical sections of a call, and what lies between      *)
(* them, stay apart.  Ready lists are reduced to which tasks are ready     *)
(* (Tasks), and time to whether a call's time is over (TimeOut).           *)
(***************************************************************************)
EXTENDS Lists

CONSTANTS
    Task, Idle,      \* the application's tasks, and the idle task
    Plain,           \* mutexes of xSemaphoreCreateMutex
    Recursive,       \* mutexes of xSemaphoreCreateRecursiveMutex
    NULL,
    uxCreated,       \* the priorities tasks are created with
    Priority,        \* those that vTaskPrioritySet is given
    MAX_PRIORITIES,
    Waits,           \* the times to wait that tasks pass: members of Wait
    MaxCount         \* bound on uxRecursiveCallCount

Mutexes == Plain \cup Recursive
AllTasks == Task \cup {Idle}
Level == 0..MAX_PRIORITIES - 1
Wait == {"none", "some", "forever"}

ASSUME MutexAssumption ==
    /\ IsFiniteSet(Task) /\ Idle \notin Task /\ ListEnd \notin AllTasks
    /\ Plain \cap Recursive = {}
    /\ NULL \notin AllTasks \cup Mutexes
    /\ MAX_PRIORITIES \in Nat \ {0}
    /\ uxCreated \in [AllTasks -> Level] /\ uxCreated[Idle] = 0
    /\ Priority \subseteq Level
    /\ Waits \subseteq Wait
    /\ MaxCount \in Nat \ {0}

\* Where a task stands.  "run": in no call; "try": before the critical section
\* that takes the mutex; "wait": the section found it taken; "count": before
\* the ++uxRecursiveCallCount of a successful call.
Place == {"run", "try", "wait", "count"}

VARIABLES
    pxCurrentTCB, pc,
    status,            \* of a task: "ready", "delayed", "blocked" on a mutex
    uxPriority, uxBasePriority,
    xEventValue,       \* xItemValue of xEventListItem
    wanted,            \* of a task: the mutex its call is for, or NULL
    wait, time,        \* of its call; time: "unset", "left" or "over"
    uxMessagesWaiting, pxMutexHolder, uxRecursiveCallCount,
    xTasksWaitingToReceive,
    depth,             \* history: what a task took of a mutex and has yet to give
    disturbed          \* history: since the mutexes were last all at rest, a
                       \* task asked for one while it held another, was given
                       \* a priority while it used one, or fell below a ready
                       \* task when its inherited priority ended

priorities == <<uxPriority, uxBasePriority, xEventValue>>
calls == <<wanted, wait, time>>
mutexes == <<uxMessagesWaiting, pxMutexHolder, uxRecursiveCallCount,
             xTasksWaitingToReceive, depth>>
vars == <<pxCurrentTCB, pc, status, priorities, calls, mutexes, disturbed>>

EventItemValue(p) == MAX_PRIORITIES - p

\* The mutexes are created and given once.
Init ==
    /\ pc = [t \in AllTasks |-> "run"]
    /\ status = [t \in AllTasks |-> "ready"]
    /\ uxPriority = uxCreated
    /\ uxBasePriority = uxCreated
    /\ xEventValue = [t \in AllTasks |-> EventItemValue(uxCreated[t])]
    /\ pxCurrentTCB \in {t \in AllTasks :
                            \A u \in AllTasks : uxCreated[u] <= uxCreated[t]}
    /\ wanted = [t \in AllTasks |-> NULL]
    /\ wait = [t \in AllTasks |-> "none"]
    /\ time = [t \in AllTasks |-> "unset"]
    /\ uxMessagesWaiting = [m \in Mutexes |-> 1]
    /\ pxMutexHolder = [m \in Mutexes |-> NULL]
    /\ uxRecursiveCallCount = [m \in Recursive |-> 0]
    /\ xTasksWaitingToReceive = [m \in Mutexes |-> <<>>]
    /\ depth = [t \in AllTasks |-> [m \in Mutexes |-> 0]]
    /\ disturbed = FALSE
-----------------------------------------------------------------------------
Running(t, place) == pxCurrentTCB = t /\ pc[t] = place /\ t # Idle

GoTo(t, place) == pc' = [pc EXCEPT ![t] = place]

Held(t) == {m \in Mutexes : depth[t][m] > 0}

\* Whether mutexes are in use once t uses none but those it holds.
InUse(t, holds) ==
    holds # {} \/ \E u \in Task \ {t} : Held(u) # {} \/ wanted[u] # NULL

\* A ready task of the highest priority, after the step.
vTaskSwitchContext ==
    \E t \in AllTasks :
        /\ status'[t] = "ready"
        /\ \A u \in AllTasks :
              status'[u] = "ready" => uxPriority'[u] <= uxPriority'[t]
        /\ pxCurrentTCB' = t

\* The call is over.
Return(t) ==
    /\ wanted' = [wanted EXCEPT ![t] = NULL]
    /\ wait' = [wait EXCEPT ![t] = "none"]
    /\ time' = [time EXCEPT ![t] = "unset"]

(***************************************************************************)
(* xSemaphoreTake and xSemaphoreTakeRecursive.                             *)
(***************************************************************************)
BeginTake(t, m, w) ==
    /\ Running(t, "run")
    /\ pxMutexHolder[m] # t
    /\ GoTo(t, "try")
    /\ wanted' = [wanted EXCEPT ![t] = m]
    /\ wait' = [wait EXCEPT ![t] = w]
    /\ disturbed' = (disturbed \/ Held(t) # {})
    /\ UNCHANGED <<pxCurrentTCB, status, priorities, time, mutexes>>

\* xQueueTakeMutexRecursive by the holder.
TakeAgain(t, m) ==
    /\ Running(t, "run")
    /\ m \in Recursive
    /\ pxMutexHolder[m] = t
    /\ uxRecursiveCallCount[m] < MaxCount
    /\ uxRecursiveCallCount' = [uxRecursiveCallCount EXCEPT ![m] = @ + 1]
    /\ depth' = [depth EXCEPT ![t][m] = @ + 1]
    /\ UNCHANGED <<pxCurrentTCB, pc, status, priorities, calls, uxMessagesWaiting,
                   pxMutexHolder, xTasksWaitingToReceive, disturbed>>

\* The critical section of xQueueGenericReceive: it takes the mutex.  Nobody
\* waits to send to a mutex, for it is given without a time to wait.
Take(t) ==
    LET m == wanted[t] IN
    /\ Running(t, "try")
    /\ uxMessagesWaiting[m] > 0
    /\ uxMessagesWaiting' = [uxMessagesWaiting EXCEPT ![m] = @ - 1]
    /\ pxMutexHolder' = [pxMutexHolder EXCEPT ![m] = t]
    /\ depth' = [depth EXCEPT ![t][m] = @ + 1]
    /\ IF m \in Recursive
       THEN GoTo(t, "count") /\ UNCHANGED calls
       ELSE GoTo(t, "run") /\ Return(t)
    /\ UNCHANGED <<pxCurrentTCB, status, priorities, uxRecursiveCallCount,
                   xTasksWaitingToReceive, disturbed>>

\* ... and xQueueTakeMutexRecursive counts, in no critical section.
Count(t) ==
    /\ Running(t, "count")
    /\ uxRecursiveCallCount' = [uxRecursiveCallCount EXCEPT ![wanted[t]] = @ + 1]
    /\ GoTo(t, "run")
    /\ Return(t)
    /\ UNCHANGED <<pxCurrentTCB, status, priorities, uxMessagesWaiting,
                   pxMutexHolder, xTasksWaitingToReceive, depth, disturbed>>

\* What xQueueTakeMutexRecursive counts of a call that failed.  (A faulty variant
\* first.)
CountsFailure(m) ==
    uxRecursiveCallCount' =
        [n \in Recursive |-> uxRecursiveCallCount[n] + IF n = m THEN 1 ELSE 0]

AfterFailure(m) == UNCHANGED uxRecursiveCallCount

\* ... or finds it taken, and there is no time to wait,
Refuse(t) ==
    /\ Running(t, "try")
    /\ uxMessagesWaiting[wanted[t]] = 0
    /\ wait[t] = "none"
    /\ GoTo(t, "run")
    /\ Return(t)
    /\ AfterFailure(wanted[t])
    /\ disturbed' = (disturbed /\ InUse(t, Held(t)))
    /\ UNCHANGED <<pxCurrentTCB, status, priorities, uxMessagesWaiting,
                   pxMutexHolder, xTasksWaitingToReceive, depth>>

\* ... or some.
Prepare(t) ==
    /\ Running(t, "try")
    /\ uxMessagesWaiting[wanted[t]] = 0
    /\ wait[t] # "none"
    /\ time' = [time EXCEPT ![t] = IF @ = "unset" THEN "left" ELSE @]
    /\ GoTo(t, "wait")
    /\ UNCHANGED <<pxCurrentTCB, status, priorities, wanted, wait, mutexes,
                   disturbed>>

\* Who is lent the running task's priority, when there is a holder.  (A faulty
\* variant first.)
InheritsIfReady(h) ==
    /\ h # NULL
    /\ status[h] = "ready"
    /\ uxPriority[h] < uxPriority[pxCurrentTCB]

Inherits(h) == h # NULL /\ uxPriority[h] < uxPriority[pxCurrentTCB]

\* vTaskPriorityInherit: the holder's place in an event list stays as it is.
vTaskPriorityInherit(h) ==
    IF Inherits(h)
    THEN LET p == uxPriority[pxCurrentTCB]
         IN  /\ uxPriority' = [uxPriority EXCEPT ![h] = p]
             /\ xEventValue' = [xEventValue EXCEPT ![h] = EventItemValue(p)]
             /\ UNCHANGED uxBasePriority
    ELSE UNCHANGED priorities

\* The section with the scheduler suspended: the time is over,
TimeOutTake(t) ==
    /\ Running(t, "wait")
    /\ time[t] = "over"
    /\ GoTo(t, "run")
    /\ Return(t)
    /\ AfterFailure(wanted[t])
    /\ disturbed' = (disturbed /\ InUse(t, Held(t)))
    /\ UNCHANGED <<pxCurrentTCB, status, priorities, uxMessagesWaiting,
                   pxMutexHolder, xTasksWaitingToReceive, depth>>

\* ... the mutex was given meanwhile,
TryAgain(t) ==
    /\ Running(t, "wait")
    /\ time[t] # "over"
    /\ uxMessagesWaiting[wanted[t]] > 0
    /\ GoTo(t, "try")
    /\ UNCHANGED <<pxCurrentTCB, status, priorities, calls, mutexes, disturbed>>

\* Whether it is taken still.  (A faulty variant first.)
Unasked(m) == TRUE

StillTaken(m) == uxMessagesWaiting[m] = 0

\* ... or the task blocks, and tries again when it is woken.
Block(t) ==
    LET m == wanted[t] IN
    /\ Running(t, "wait")
    /\ time[t] # "over"
    /\ StillTaken(m)
    /\ vTaskPriorityInherit(pxMutexHolder[m])
    /\ xTasksWaitingToReceive' = [xTasksWaitingToReceive EXCEPT ![m] =
                                     vListInsert(@, t, xEventValue')]
    /\ status' = [status EXCEPT ![t] = "blocked"]
    /\ GoTo(t, "try")
    /\ vTaskSwitchContext
    /\ UNCHANGED <<calls, uxMessagesWaiting, pxMutexHolder,
                   uxRecursiveCallCount, depth, disturbed>>

(***************************************************************************)
(* xSemaphoreGive and xSemaphoreGiveRecursive, by the task that took the   *)
(* mutex.                                                                  *)
(***************************************************************************)
\* vTaskPriorityDisinherit of the running task, whatever mutex it gives.  (Two
\* faulty variants first.)
KeepsPriority(t) == UNCHANGED priorities

KeepsEventValue(t) ==
    /\ uxPriority' = [uxPriority EXCEPT ![t] = uxBasePriority[t]]
    /\ UNCHANGED <<uxBasePriority, xEventValue>>

vTaskPriorityDisinherit(t) ==
    LET base == uxBasePriority[t] IN
    IF uxPriority[t] # base
    THEN /\ uxPriority' = [uxPriority EXCEPT ![t] = base]
         /\ xEventValue' = [xEventValue EXCEPT ![t] = EventItemValue(base)]
         /\ UNCHANGED uxBasePriority
    ELSE UNCHANGED priorities

\* xTaskRemoveFromEventList: the first waiter becomes ready.
xTaskRemoveFromEventList(m) ==
    IF xTasksWaitingToReceive[m] = <<>>
    THEN UNCHANGED <<status, xTasksWaitingToReceive>>
    ELSE /\ status' = [status EXCEPT ![Head(xTasksWaitingToReceive[m])] = "ready"]
         /\ xTasksWaitingToReceive' =
                [xTasksWaitingToReceive EXCEPT ![m] = Tail(@)]

\* Whether the giver yields: to the waiter it woke, its own priority disinherited.
Yields(t, waiters) ==
    waiters # <<>> /\ uxPriority[Head(waiters)] >= uxPriority'[t]

\* A giver that does not yield goes on with its own priority, even below that of
\* another ready task.
FallsBelow(t, yields) ==
    ~ yields /\ \E u \in AllTasks :
                   status[u] = "ready" /\ uxPriority'[u] > uxPriority'[t]

\* xQueueGenericSend to the mutex.  A waiter that is woken tries again to take
\* it, and until it does another may.
Give(t, m) ==
    /\ Running(t, "run")
    /\ pxMutexHolder[m] = t
    /\ m \in Recursive => uxRecursiveCallCount[m] = 1
    /\ uxRecursiveCallCount' =
           [n \in Recursive |-> IF n = m THEN 0 ELSE uxRecursiveCallCount[n]]
    /\ vTaskPriorityDisinherit(t)
    /\ pxMutexHolder' = [pxMutexHolder EXCEPT ![m] = NULL]
    /\ uxMessagesWaiting' = [uxMessagesWaiting EXCEPT ![m] = @ + 1]
    /\ xTaskRemoveFromEventList(m)
    /\ IF Yields(t, xTasksWaitingToReceive[m])
       THEN vTaskSwitchContext
       ELSE UNCHANGED pxCurrentTCB
    /\ depth' = [depth EXCEPT ![t][m] = @ - 1]
    /\ disturbed' =
           (/\ disturbed \/ FallsBelow(t, Yields(t, xTasksWaitingToReceive[m]))
            /\ InUse(t, Held(t) \ {m}))
    /\ UNCHANGED <<pc, calls>>

\* xQueueGiveMutexRecursive, not for the last time.
GiveOne(t, m) ==
    /\ Running(t, "run")
    /\ m \in Recursive
    /\ pxMutexHolder[m] = t
    /\ uxRecursiveCallCount[m] > 1
    /\ uxRecursiveCallCount' = [uxRecursiveCallCount EXCEPT ![m] = @ - 1]
    /\ depth' = [depth EXCEPT ![t][m] = @ - 1]
    /\ UNCHANGED <<pxCurrentTCB, pc, status, priorities, calls, uxMessagesWaiting,
                   pxMutexHolder, xTasksWaitingToReceive, disturbed>>
-----------------------------------------------------------------------------
(***************************************************************************)
(* The rest of the scheduler, as far as mutexes meet it.                   *)
(***************************************************************************)
\* An inherited priority stays in use; the event item gets the new one.
vTaskPrioritySet(t, u, p) ==
    /\ Running(t, "run")
    /\ p # uxBasePriority[u]
    /\ uxPriority' = [uxPriority EXCEPT ![u] =
                         IF @ = uxBasePriority[u] THEN p ELSE @]
    /\ uxBasePriority' = [uxBasePriority EXCEPT ![u] = p]
    /\ xEventValue' = [xEventValue EXCEPT ![u] = EventItemValue(p)]
    /\ disturbed' = (disturbed \/ Held(u) # {} \/ wanted[u] # NULL)
    /\ UNCHANGED status
    /\ IF \/ p > uxBasePriority[u] /\ u # t /\ p >= uxPriority[t]
          \/ p < uxBasePriority[u] /\ u = t
       THEN vTaskSwitchContext
       ELSE UNCHANGED pxCurrentTCB
    /\ UNCHANGED <<pc, calls, mutexes>>

\* vTaskDelay, and every other wait that has nothing to do with a mutex.
vTaskDelay(t) ==
    /\ Running(t, "run")
    /\ status' = [status EXCEPT ![t] = "delayed"]
    /\ UNCHANGED priorities
    /\ vTaskSwitchContext
    /\ UNCHANGED <<pc, calls, mutexes, disturbed>>

\* A tick: delays end and times are over, and ready tasks of the running task's
\* priority take turns.
SwitchWanted(woken) ==
    \/ \E t \in woken : uxPriority[t] >= uxPriority[pxCurrentTCB]
    \/ \E t \in AllTasks \ {pxCurrentTCB} :
          /\ status'[t] = "ready"
          /\ uxPriority[t] = uxPriority[pxCurrentTCB]

Tick(delayed, expired) ==
    LET late == {t \in expired : status[t] = "blocked"}
        woken == late \cup delayed
    IN  /\ \A t \in delayed : status[t] = "delayed"
        /\ \A t \in expired : wait[t] = "some" /\ time[t] = "left"
        /\ time' = [t \in AllTasks |-> IF t \in expired THEN "over" ELSE time[t]]
        /\ xTasksWaitingToReceive' =
               [m \in Mutexes |-> Without(xTasksWaitingToReceive[m], late)]
        /\ status' = [t \in AllTasks |-> IF t \in woken THEN "ready" ELSE status[t]]
        /\ UNCHANGED priorities
        /\ IF SwitchWanted(woken) THEN vTaskSwitchContext
           ELSE UNCHANGED pxCurrentTCB
        /\ UNCHANGED <<pc, wanted, wait, uxMessagesWaiting, pxMutexHolder,
                       uxRecursiveCallCount, depth, disturbed>>
-----------------------------------------------------------------------------
\* What a task does once it made a call.
Proceed(t) ==
    \/ Take(t) \/ Count(t) \/ Refuse(t) \/ Prepare(t)
    \/ TimeOutTake(t) \/ TryAgain(t) \/ Block(t)

Next ==
    \/ \E t \in Task :
        \/ \E m \in Mutexes :
            \/ \E w \in Waits : BeginTake(t, m, w)
            \/ TakeAgain(t, m) \/ Give(t, m) \/ GiveOne(t, m)
        \/ Proceed(t)
        \/ \E u \in Task, p \in Priority : vTaskPrioritySet(t, u, p)
        \/ vTaskDelay(t)
    \/ \E delayed, expired \in SUBSET Task : Tick(delayed, expired)

Spec == Init /\ [][Next]_vars
-----------------------------------------------------------------------------
(***************************************************************************)
(* Properties.                                                             *)
(***************************************************************************)
Waiters(m) == ToSet(xTasksWaitingToReceive[m])

\* A task never waits for a mutex whose holder has a lower priority than its
\* own ("to avoid unbounded priority inversion", task.h:150), whether the holder
\* is ready or itself asleep, and whoever timed out or was woken meanwhile, as
\* long as tasks use one mutex at a time, keep their priorities meanwhile, and no
\* giver went on below a ready task.
NoInversion ==
    \A m \in Mutexes : \A t \in Waiters(m) :
        pxMutexHolder[m] # NULL =>
            disturbed \/ uxPriority[pxMutexHolder[m]] >= uxPriority[t]

\* An inherited priority ends with the last mutex: no order of time-outs,
\* nested gives and settings of the priority leaves one behind.
InheritanceEnds ==
    \A t \in AllTasks : Held(t) = {} => uxPriority[t] = uxBasePriority[t]

\* The waiter that a give wakes has the highest priority of all, on the same
\* condition: the list stays sorted although items change their value in it.
FirstIsHighest ==
    \A m \in Mutexes : \A i, j \in 1..Len(xTasksWaitingToReceive[m]) :
        LET first == xTasksWaitingToReceive[m][i]
            second == xTasksWaitingToReceive[m][j]
        IN  i < j => disturbed \/ uxPriority[first] >= uxPriority[second]

\* uxRecursiveCallCount, changed in no critical section, counts what the holder
\* took and did not give; the mutex is free exactly when nobody has any of it.
CountsTakes ==
    /\ \A m \in Mutexes :
          /\ uxMessagesWaiting[m] = 1 <=> pxMutexHolder[m] = NULL
          /\ \A t \in AllTasks : depth[t][m] > 0 <=> pxMutexHolder[m] = t
    /\ \A m \in Recursive :
          LET h == pxMutexHolder[m] IN
          uxRecursiveCallCount[m] =
              IF h = NULL THEN 0
              ELSE IF pc[h] = "count" /\ wanted[h] = m THEN depth[h][m] - 1
              ELSE depth[h][m]

\* While tasks sleep beside a mutex that is free, one that wants it is awake
\* and on its way to it: a time-out that races a give loses no wake-up.
FreeIsWanted ==
    \A m \in Mutexes :
        uxMessagesWaiting[m] = 1 /\ Waiters(m) # {} =>
            \E t \in Task : /\ wanted[t] = m
                            /\ status[t] = "ready"
                            /\ time[t] = "over" => pc[t] = "try"

\* queue.c:1064, in the critical section of xQueueGenericReceive: "To be running
\* we must be the highest priority task wanting to access the queue."
HighestOfThoseWanting ==
    pc[pxCurrentTCB] = "try" =>
        \A t \in Task :
            status[t] = "ready" /\ wanted[t] = wanted[pxCurrentTCB] =>
                uxPriority[t] <= uxPriority[pxCurrentTCB]
=============================================================================
