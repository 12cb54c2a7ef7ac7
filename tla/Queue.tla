-------------------------------- MODULE Queue --------------------------------
(***************************************************************************)
(* Who waits for a queue of Source/queue.c, and who wakes whom.  A task    *)
(* that finds the queue full (or empty) leaves its critical section,       *)
(* suspends the scheduler, locks the queue, looks again, and only then     *)
(* enters the list of waiters; interrupts go on sending and receiving, but *)
(* while the queue is locked they count what they did and leave the lists  *)
(* to prvUnlockQueue.                                                      *)
(*                                                                         *)
(* The items themselves are in QueueStorage; here the queue is its count.  *)
(* The two directions are alike and are told apart by an index:            *)
(* xTasksWaitingTo["send"] is xTasksWaitingToSend, xLock["send"] is        *)
(* xTxLock, which counts sends, and so on.  The scheduler (see Tasks) is   *)
(* reduced to what the queue sees of it, and time to whether a call's time *)
(* is over (see TimeOut).                                                  *)
(***************************************************************************)
EXTENDS Lists

CONSTANTS
    Task,        \* the application's tasks
    Idle,        \* the idle task
    uxPriority,  \* of every task
    uxLength,    \* of the queue
    Calls,       \* what tasks call: members of Operation, and "reset"
    Interrupts,  \* what handlers call: members of Operation
    Waits,       \* the times to wait that tasks pass: members of Wait
    MaxLock      \* bound on xRxLock and xTxLock

AllTasks == Task \cup {Idle}
Side == {"send", "receive"}
Operation == {"send", "overwrite", "receive", "peek"}

\* No time, a time, or portMAX_DELAY.
Wait == {"none", "some", "forever"}

ASSUME QueueAssumption ==
    /\ IsFiniteSet(Task) /\ Idle \notin Task /\ ListEnd \notin AllTasks
    /\ uxPriority \in [AllTasks -> Nat]
    /\ \A t \in Task : uxPriority[Idle] <= uxPriority[t]
    /\ uxLength \in Nat \ {0}
    /\ "overwrite" \in Calls \cup Interrupts => uxLength = 1
    /\ Waits \subseteq Wait
    /\ MaxLock \in Nat

queueUNLOCKED == -1
queueLOCKED_UNMODIFIED == 0

\* Where a task stands.  "out": in no call; "try": at the top of the loop;
\* "suspend", "lock": before vTaskSuspendAll and prvLockQueue; "check": before
\* xTaskCheckForTimeOut; "place": found the queue full or empty again;
\* "unlock": in prvUnlockQueue, of the side `unlocking'; "resume": before
\* xTaskResumeAll; "yield": before the yield after it; "over": about to fail.
Place == {"out", "try", "suspend", "lock", "check", "place", "unlock",
          "resume", "yield", "over"}

VARIABLES
    uxMessagesWaiting, xTasksWaitingTo, xLock,
    pc, op, wait,     \* of a task: its place, its call and the call's time
    time,             \* of a call: "unset", "left" or "over"
    then,             \* of a call in its locked section: "block", "again", "fail"
    unlocking,        \* the side prvUnlockQueue is at
    status,           \* of a task: "ready", "blocked", "pending" (made ready
                      \* while the scheduler is suspended)
    pxCurrentTCB, uxSchedulerSuspended, xYieldPending,
    uxPendedTicks     \* are there any?

queue == <<uxMessagesWaiting, xTasksWaitingTo, xLock>>
calls == <<pc, op, wait, time, then, unlocking>>
switch == <<pxCurrentTCB, xYieldPending>>
scheduler == <<status, switch, uxSchedulerSuspended, uxPendedTicks>>
vars == <<queue, calls, scheduler>>

Init ==
    /\ uxMessagesWaiting = 0
    /\ xTasksWaitingTo = [s \in Side |-> <<>>]
    /\ xLock = [s \in Side |-> queueUNLOCKED]
    /\ pc = [t \in Task |-> "out"]
    /\ op = [t \in Task |-> "send"]
    /\ wait = [t \in Task |-> "none"]
    /\ time = [t \in Task |-> "unset"]
    /\ then = [t \in Task |-> "again"]
    /\ unlocking = "send"
    /\ status = [t \in AllTasks |-> "ready"]
    /\ pxCurrentTCB \in AllTasks
    /\ \A t \in AllTasks : uxPriority[t] <= uxPriority[pxCurrentTCB]
    /\ uxSchedulerSuspended = FALSE
    /\ xYieldPending = FALSE
    /\ uxPendedTicks = FALSE
-----------------------------------------------------------------------------
(***************************************************************************)
(* Operations on the queue.                                                *)
(***************************************************************************)
SideOf(o) == IF o \in {"send", "overwrite"} THEN "send" ELSE "receive"

\* Whether an operation need not wait.
Possible(o) ==
    /\ o = "send" => uxMessagesWaiting < uxLength
    /\ SideOf(o) = "receive" => uxMessagesWaiting > 0

CountAfter(o) ==
    IF o = "overwrite" THEN 1
    ELSE IF o = "send" THEN uxMessagesWaiting + 1
    ELSE IF o = "receive" THEN uxMessagesWaiting - 1
    ELSE uxMessagesWaiting

\* The side whose turn an operation makes it, with its waiters.  A peek leaves
\* the item to the next receiver.  (A faulty variant first.)
PeekWakesNobody(o) ==
    IF o = "receive" THEN <<"send", xTasksWaitingTo["send"]>>
    ELSE <<"receive", IF o = "peek" THEN <<>> ELSE xTasksWaitingTo["receive"]>>

Served(o) ==
    IF o = "receive" THEN <<"send", xTasksWaitingTo["send"]>>
    ELSE <<"receive", xTasksWaitingTo["receive"]>>

Opposite(s) == IF s = "send" THEN "receive" ELSE "send"

(***************************************************************************)
(* The scheduler.                                                          *)
(***************************************************************************)
Preempts(t) == uxPriority[t] >= uxPriority[pxCurrentTCB]

\* vTaskSwitchContext, the scheduler not suspended: some ready task of the
\* highest priority; the idle task is always ready.
vTaskSwitchContext(state) ==
    /\ xYieldPending' = FALSE
    /\ \E t \in AllTasks :
        /\ state[t] = "ready"
        /\ \A u \in AllTasks :
              state[u] = "ready" => uxPriority[u] <= uxPriority[t]
        /\ pxCurrentTCB' = t

\* xTaskRemoveFromEventList of the first waiter of a side, if there is one:
\* waiters is a pair as Served gives it.
xTaskRemoveFromEventList(waiters) ==
    IF waiters[2] = <<>>
    THEN UNCHANGED <<xTasksWaitingTo, status>>
    ELSE /\ xTasksWaitingTo' = [xTasksWaitingTo EXCEPT ![waiters[1]] = Tail(@)]
         /\ status' = [status EXCEPT ![Head(waiters[2])] =
                          IF uxSchedulerSuspended THEN "pending" ELSE "ready"]

\* What it returns. (A faulty variant first.)
NeverTells(waiters) == FALSE
WakesPreempter(waiters) == waiters[2] # <<>> /\ Preempts(Head(waiters[2]))

Running(t, place) == pxCurrentTCB = t /\ pc[t] = place

GoTo(t, place) == pc' = [pc EXCEPT ![t] = place]
-----------------------------------------------------------------------------
(***************************************************************************)
(* xQueueGenericSend and xQueueGenericReceive.                             *)
(***************************************************************************)
Begin(t, o, w) ==
    /\ o \in Calls /\ Running(t, "out")
    /\ GoTo(t, "try")
    /\ op' = [op EXCEPT ![t] = o]
    /\ wait' = [wait EXCEPT ![t] = IF o = "overwrite" THEN "none" ELSE w]
    /\ UNCHANGED <<time, then, unlocking, queue, scheduler>>

\* The call is over and what it remembered with it.
Return(t) ==
    /\ GoTo(t, "out")
    /\ op' = [op EXCEPT ![t] = "send"]
    /\ wait' = [wait EXCEPT ![t] = "none"]
    /\ time' = [time EXCEPT ![t] = "unset"]

\* The critical section when the operation can be done: the yield to a woken
\* task is in it, as a software interrupt.
Succeed(t) ==
    /\ Running(t, "try")
    /\ Possible(op[t])
    /\ uxMessagesWaiting' = CountAfter(op[t])
    /\ xTaskRemoveFromEventList(Served(op[t]))
    /\ IF WakesPreempter(Served(op[t])) THEN vTaskSwitchContext(status')
                                        ELSE UNCHANGED switch
    /\ Return(t)
    /\ UNCHANGED <<xLock, then, unlocking, uxSchedulerSuspended, uxPendedTicks>>

\* ... when it cannot, and the call waits for no time,
Refuse(t) ==
    /\ Running(t, "try")
    /\ ~ Possible(op[t])
    /\ wait[t] = "none"
    /\ Return(t)
    /\ UNCHANGED <<then, unlocking, queue, scheduler>>

\* ... or for some: the time runs from the first failure.
Prepare(t) ==
    /\ Running(t, "try")
    /\ ~ Possible(op[t])
    /\ wait[t] # "none"
    /\ time' = [time EXCEPT ![t] = IF @ = "unset" THEN "left" ELSE @]
    /\ GoTo(t, "suspend")
    /\ UNCHANGED <<op, wait, then, unlocking, queue, scheduler>>

vTaskSuspendAll(t) ==
    /\ Running(t, "suspend")
    /\ uxSchedulerSuspended' = TRUE
    /\ GoTo(t, "lock")
    /\ UNCHANGED <<op, wait, time, then, unlocking, queue, status, switch,
                   uxPendedTicks>>

prvLockQueue(t) ==
    /\ Running(t, "lock")
    /\ xLock' = [s \in Side |-> IF xLock[s] = queueUNLOCKED
                                THEN queueLOCKED_UNMODIFIED ELSE xLock[s]]
    /\ GoTo(t, "check")
    /\ UNCHANGED <<uxMessagesWaiting, xTasksWaitingTo, op, wait, time, then,
                   unlocking, scheduler>>

\* xTaskCheckForTimeOut, then prvIsQueueFull or prvIsQueueEmpty.  (Two faulty
\* variants first.)
BlocksUntested(t) == IF time[t] = "over" THEN "fail" ELSE "block"
IgnoresTime(t) == IF Possible(op[t]) THEN "again" ELSE "block"

Verdict(t) ==
    IF time[t] = "over" THEN "fail"
    ELSE IF Possible(op[t]) THEN "again" ELSE "block"

Check(t) ==
    /\ Running(t, "check")
    /\ then' = [then EXCEPT ![t] = Verdict(t)]
    /\ GoTo(t, IF Verdict(t) = "block" THEN "place" ELSE "unlock")
    /\ unlocking' = "send"
    /\ UNCHANGED <<op, wait, time, queue, scheduler>>

\* The list is in order of priority.
EventValue == [t \in Task |-> uxPriority[t] * (-1)]

vTaskPlaceOnEventList(t) ==
    /\ Running(t, "place")
    /\ xTasksWaitingTo' = [xTasksWaitingTo EXCEPT ![SideOf(op[t])] =
                              vListInsert(@, t, EventValue)]
    /\ status' = [status EXCEPT ![t] = "blocked"]
    /\ GoTo(t, "unlock")
    /\ UNCHANGED <<uxMessagesWaiting, xLock, op, wait, time, then, unlocking,
                   switch, uxSchedulerSuspended, uxPendedTicks>>

\* How many waiters prvUnlockQueue wakes for a count of operations. (A faulty
\* variant first.)
WakesOne(count, waiters) ==
    IF count > queueLOCKED_UNMODIFIED /\ waiters # <<>> THEN 1 ELSE 0

Replayed(count, waiters) ==
    IF count <= Len(waiters) THEN count ELSE Len(waiters)

\* prvUnlockQueue: for each operation counted a waiter of the other side is
\* woken, one side in each of two critical sections, sends first.
prvUnlockQueue(t) ==
    LET other == Opposite(unlocking)
        waiters == xTasksWaitingTo[other]
        n == Replayed(xLock[unlocking], waiters)
        woken == {waiters[i] : i \in 1..n}
    IN  /\ Running(t, "unlock")
        /\ xTasksWaitingTo' =
               [xTasksWaitingTo EXCEPT ![other] = SubSeq(@, n + 1, Len(@))]
        /\ status' = [u \in AllTasks |->
                         IF u \in woken THEN "pending" ELSE status[u]]
        /\ xYieldPending' = (xYieldPending \/ \E u \in woken : Preempts(u))
        /\ xLock' = [xLock EXCEPT ![unlocking] = queueUNLOCKED]
        /\ IF unlocking = "send"
           THEN unlocking' = "receive" /\ UNCHANGED pc
           ELSE unlocking' = "send" /\ GoTo(t, "resume")
        /\ UNCHANGED <<uxMessagesWaiting, op, wait, time, then, pxCurrentTCB,
                       uxSchedulerSuspended, uxPendedTicks>>

(***************************************************************************)
(* Ticks: some of the calls that wait for a time find that it is over, and *)
(* their tasks, if they are blocked, become ready.                         *)
(***************************************************************************)
CanExpire == {t \in Task : wait[t] = "some" /\ time[t] = "left"}

\* Out of both lists. (A faulty variant first.)
StaysInEventList(late) == UNCHANGED xTasksWaitingTo

LeaveEventList(late) ==
    xTasksWaitingTo' =
        [s \in Side |-> Without(xTasksWaitingTo[s], late)]

\* late: the tasks that a tick unblocks; now: their states before it.
Expire(expired, late, now) ==
    /\ time' = [t \in Task |-> IF t \in expired THEN "over" ELSE time[t]]
    /\ LeaveEventList(late)
    /\ status' = [t \in AllTasks |-> IF t \in late THEN "ready" ELSE now[t]]

\* xTaskIncrementTick asks for a switch.
SwitchWanted(late) ==
    \/ \E t \in late : Preempts(t)
    \/ \E t, u \in AllTasks :
          /\ t # u
          /\ status'[t] = "ready" /\ status'[u] = "ready"
          /\ uxPriority[t] = uxPriority[pxCurrentTCB]
          /\ uxPriority[u] = uxPriority[pxCurrentTCB]

\* xTaskResumeAll: pending tasks become ready, ticks are caught up, and a
\* switch that is due is made.  A call whose time was over fails; one that
\* blocked, or is to try again, goes back to the top of the loop.
xTaskResumeAll(t) ==
    LET drained == {u \in Task : status[u] = "pending"}
        now == [u \in AllTasks |-> IF u \in drained THEN "ready" ELSE status[u]]
    IN  /\ Running(t, "resume")
        /\ uxSchedulerSuspended' = FALSE
        /\ uxPendedTicks' = FALSE
        /\ \E expired \in SUBSET CanExpire :
            LET late == {u \in expired : now[u] = "blocked"}
                yield == \/ xYieldPending
                         \/ \E u \in drained : Preempts(u)
                         \/ uxPendedTicks /\ SwitchWanted(late)
            IN  /\ expired # {} => uxPendedTicks
                /\ Expire(expired, late, now)
                /\ IF yield THEN vTaskSwitchContext(status')
                            ELSE UNCHANGED switch
                /\ GoTo(t, IF then[t] = "fail" THEN "over"
                           ELSE IF then[t] = "again" \/ yield THEN "try"
                           ELSE "yield")
        /\ then' = [then EXCEPT ![t] = "again"]
        /\ UNCHANGED <<uxMessagesWaiting, xLock, op, wait, unlocking>>

Fail(t) ==
    /\ Running(t, "over")
    /\ Return(t)
    /\ UNCHANGED <<then, unlocking, queue, scheduler>>

portYIELD_WITHIN_API(t) ==
    /\ Running(t, "yield")
    /\ GoTo(t, "try")
    /\ vTaskSwitchContext(status)
    /\ UNCHANGED <<op, wait, time, then, unlocking, queue, status,
                   uxSchedulerSuspended, uxPendedTicks>>

\* xQueueReset.
xQueueGenericReset(t) ==
    LET senders == <<"send", xTasksWaitingTo["send"]>> IN
    /\ "reset" \in Calls /\ Running(t, "out")
    /\ uxMessagesWaiting' = 0
    /\ xLock' = [s \in Side |-> queueUNLOCKED]
    /\ xTaskRemoveFromEventList(senders)
    /\ IF WakesPreempter(senders) THEN vTaskSwitchContext(status')
                                  ELSE UNCHANGED switch
    /\ UNCHANGED <<calls, uxSchedulerSuspended, uxPendedTicks>>
-----------------------------------------------------------------------------
(***************************************************************************)
(* Interrupts.                                                             *)
(***************************************************************************)
Tick ==
    /\ \/ /\ uxSchedulerSuspended
          /\ uxPendedTicks' = TRUE
          /\ UNCHANGED <<xTasksWaitingTo, time, status, switch>>
       \/ /\ ~ uxSchedulerSuspended
          /\ UNCHANGED uxPendedTicks
          /\ \E expired \in SUBSET CanExpire :
              LET late == {t \in expired : status[t] = "blocked"}
              IN  /\ Expire(expired, late, status)
                  /\ IF xYieldPending \/ SwitchWanted(late)
                     THEN vTaskSwitchContext(status')
                     ELSE UNCHANGED switch
    /\ UNCHANGED <<uxMessagesWaiting, xLock, pc, op, wait, then, unlocking,
                   uxSchedulerSuspended>>

\* Whether the lists are left to prvUnlockQueue. (A faulty variant first.)
NeverDefers(s) == FALSE
Defers(s) == xLock[s] # queueUNLOCKED

\* xQueueGenericSendFromISR and xQueueReceiveFromISR; the handler may yield
\* when it is told that a task of higher priority was woken, and a switch is
\* pending if it does not.
FromISR(o) ==
    /\ o \in Interrupts
    /\ Possible(o)
    /\ uxMessagesWaiting' = CountAfter(o)
    /\ \/ /\ Defers(SideOf(o))
          /\ xLock[SideOf(o)] < MaxLock
          /\ xLock' = [xLock EXCEPT ![SideOf(o)] = @ + 1]
          /\ UNCHANGED <<xTasksWaitingTo, status, switch>>
       \/ /\ ~ Defers(SideOf(o))
          /\ xTaskRemoveFromEventList(Served(o))
          /\ IF WakesPreempter(Served(o))
             THEN \/ xYieldPending' = TRUE /\ UNCHANGED pxCurrentTCB
                  \/ ~ uxSchedulerSuspended /\ vTaskSwitchContext(status')
             ELSE UNCHANGED switch
          /\ UNCHANGED xLock
    /\ UNCHANGED <<calls, uxSchedulerSuspended, uxPendedTicks>>
-----------------------------------------------------------------------------
\* What a task does once it made a call.
Proceed(t) ==
    \/ Succeed(t) \/ Refuse(t) \/ Prepare(t)
    \/ vTaskSuspendAll(t) \/ prvLockQueue(t) \/ Check(t)
    \/ vTaskPlaceOnEventList(t) \/ prvUnlockQueue(t) \/ xTaskResumeAll(t)
    \/ Fail(t) \/ portYIELD_WITHIN_API(t)

Next ==
    \/ \E t \in Task :
        \/ \E o \in Operation, w \in Waits : Begin(t, o, w)
        \/ xQueueGenericReset(t)
        \/ Proceed(t)
    \/ Tick
    \/ \E o \in Operation \ {"peek"} : FromISR(o)

Spec == Init /\ [][Next]_vars
-----------------------------------------------------------------------------
(***************************************************************************)
(* Properties.                                                             *)
(***************************************************************************)
\* A task waits in the list of its own call and in no other, once, exactly
\* when it is blocked, and a time-out that races a wake-up leaves it in none.
WaitersAreBlocked ==
    \A s \in Side :
        /\ NoRepeats(xTasksWaitingTo[s])
        /\ \A t \in Task :
              Contains(xTasksWaitingTo[s], t) <=>
                  status[t] = "blocked" /\ SideOf(op[t]) = s

\* The tasks of a side that will test the queue before they sleep again.
Awake(s) ==
    {t \in Task : /\ SideOf(op[t]) = s
                  /\ status[t] # "blocked"
                  /\ \/ pc[t] = "try"
                     \/ pc[t] \in {"unlock", "resume", "yield"}
                        /\ then[t] # "fail"}

\* What interrupts did that prvUnlockQueue has yet to make known.
Deferred(s) == IF xLock[s] > queueLOCKED_UNMODIFIED THEN xLock[s] ELSE 0

\* While a task sleeps on an empty queue, each item that came since is on its
\* way to somebody: a receiver that is awake or a count that prvUnlockQueue
\* will replay; and likewise the places that a sender sleeps for.  No order of
\* sends, locks, interrupts, time-outs and peeks loses a wake-up.
NoWakeUpLost ==
    /\ xTasksWaitingTo["receive"] # <<>> =>
           uxMessagesWaiting <= Cardinality(Awake("receive")) + Deferred("send")
    /\ xTasksWaitingTo["send"] # <<>> =>
           uxLength - uxMessagesWaiting <=
               Cardinality(Awake("send")) + Deferred("receive")

\* While a side is locked, its lists of waiters change only by the insertion
\* of the task that locked it, which inserts with interrupts enabled.
LockHoldsTheLists ==
    [][\A s \in Side :
          xLock[Opposite(s)] # queueUNLOCKED /\ xLock[Opposite(s)]' # queueUNLOCKED =>
              \/ UNCHANGED xTasksWaitingTo[s]
              \/ xTasksWaitingTo[s]' =
                     vListInsert(xTasksWaitingTo[s], pxCurrentTCB, EventValue)]_vars

\* The task that runs is ready and of the highest ready priority, unless a
\* switch is pending, the scheduler is suspended, or the task is about to
\* yield: whoever an interrupt or prvUnlockQueue woke is not made to wait for
\* a task of lower priority.
HighestPriorityRuns ==
    \/ uxSchedulerSuspended
    \/ xYieldPending
    \/ pxCurrentTCB \in Task /\ pc[pxCurrentTCB] = "yield"
    \/ /\ status[pxCurrentTCB] = "ready"
       /\ \A t \in AllTasks :
             status[t] = "ready" => uxPriority[t] <= uxPriority[pxCurrentTCB]
-----------------------------------------------------------------------------
(***************************************************************************)
(* Liveness.  Ticks come, so that time passes for every call, and share    *)
(* the processor among equals (EqualShare of Tasks); a task in a call goes *)
(* on with it if it is given the processor again and again.  No task need  *)
(* make a call, and no other interrupt need come.                          *)
(***************************************************************************)
Expires(t) == Tick /\ time[t] = "left" /\ time'[t] = "over"
Dispatch(t) == Tick /\ pxCurrentTCB # t /\ pxCurrentTCB' = t

Fairness ==
    \A t \in Task :
        /\ SF_vars(Expires(t))
        /\ SF_vars(Proceed(t))
        /\ SF_vars(Dispatch(t))

FairSpec == Spec /\ Fairness

\* A call with a time to wait returns, whatever others and interrupts do to
\* the queue meanwhile: a task that is woken for an item that is gone again
\* does not start to wait anew.
TimedCallsReturn ==
    \A t \in Task : wait[t] = "some" ~> pc[t] = "out"

\* Nobody sleeps for ever beside items, or places, that stay.
ItemsAreTaken ==
    /\ []<>(xTasksWaitingTo["receive"] = <<>> \/ uxMessagesWaiting = 0)
    /\ []<>(xTasksWaitingTo["send"] = <<>> \/ uxMessagesWaiting = uxLength)
=============================================================================
