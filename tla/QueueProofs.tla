------------------------------ MODULE QueueProofs ------------------------------
(***************************************************************************)
(* The safety properties of Queue, for every number of tasks, every length *)
(* of the queue and every bound on the lock.  The inductive invariant has  *)
(* three layers, each proved with the ones before it: Waiting says where   *)
(* tasks stand, whether they are blocked and which lists they are in;      *)
(* Running that a switch that is due is made or pending; Counting that the *)
(* tasks that will look, and the operations that the lock counts, are      *)
(* enough for what is there to be taken.                                   *)
(***************************************************************************)
EXTENDS Queue, ListLemmas, FiniteSetTheorems

(***************************************************************************)
(* Waiting.                                                                *)
(***************************************************************************)
Status == {"ready", "blocked", "pending"}

TypeOK ==
    /\ pxCurrentTCB \in AllTasks
    /\ uxMessagesWaiting \in 0..uxLength
    /\ xTasksWaitingTo \in [Side -> Seq(Task)]
    /\ xLock \in [Side -> Nat \cup {queueUNLOCKED}]
    /\ pc \in [Task -> Place]
    /\ op \in [Task -> Operation]
    /\ wait \in [Task -> Wait]
    /\ time \in [Task -> {"unset", "left", "over"}]
    /\ then \in [Task -> {"block", "again", "fail"}]
    /\ unlocking \in Side
    /\ status \in [AllTasks -> Status]
    /\ uxSchedulerSuspended \in BOOLEAN
    /\ xYieldPending \in BOOLEAN
    /\ uxPendedTicks \in BOOLEAN

\* Between vTaskSuspendAll and xTaskResumeAll a task keeps the processor, and the
\* queue is locked from prvLockQueue to prvUnlockQueue, one side longer than the other.
Suspending == {"lock", "check", "place", "unlock", "resume"}
At(places) == pxCurrentTCB \in Task /\ pc[pxCurrentTCB] \in places
Locked(s) ==
    \/ At({"check", "place"})
    \/ At({"unlock"}) /\ (unlocking = "send" \/ s = "receive")

SectionOK ==
    /\ uxSchedulerSuspended <=> At(Suspending)
    /\ \A t \in Task : pc[t] \in Suspending => t = pxCurrentTCB
    /\ \A s \in Side : IF Locked(s) THEN xLock[s] \in Nat ELSE xLock[s] = queueUNLOCKED
    /\ unlocking = "receive" => At({"unlock"})

\* Where a task is that does not run for it blocked, or was woken since.
Blocking(t) == pc[t] \in {"unlock", "resume"} /\ then[t] = "block"

StatusOK ==
    /\ status[Idle] = "ready"
    /\ status[pxCurrentTCB] # "ready" => ~At({"try"})
    /\ \A t \in Task :
        /\ status[t] = "pending" => uxSchedulerSuspended
        /\ status[t] # "ready" => pc[t] \in {"try", "yield"} \/ Blocking(t)
        /\ pc[t] = "place" => then[t] = "block"
        /\ pc[t] = "yield" => then[t] = "again"

\* The lists have the tasks that are blocked, each in the list of its call.
BlockedOn(s) == {t \in Task : status[t] = "blocked" /\ SideOf(op[t]) = s}

ListsOK ==
    \A s \in Side :
        /\ IsList(xTasksWaitingTo[s], Task)
        /\ ToSet(xTasksWaitingTo[s]) = BlockedOn(s)

Waiting == TypeOK /\ SectionOK /\ StatusOK /\ ListsOK

LEMMA ConstantFacts ==
    /\ Task \subseteq AllTasks /\ Idle \in AllTasks /\ Idle \notin Task
    /\ IsFiniteSet(Task)
    /\ uxLength \in Nat \ {0} /\ \A t \in AllTasks : uxPriority[t] \in Nat
BY QueueAssumption DEF AllTasks

LEMMA WaitingInit == Init => Waiting
<1> SUFFICES ASSUME Init PROVE Waiting
  OBVIOUS
<1>1. <<>> \in Seq(Task) /\ IsList(<<>>, Task) /\ ToSet(<<>>) = {}
  BY EmptyList, EmptySeq
<1>2. TypeOK
  <2>1. /\ xTasksWaitingTo \in [Side -> Seq(Task)]
        /\ xLock \in [Side -> Nat \cup {queueUNLOCKED}]
    BY <1>1 DEF Init
  <2>2. /\ pc \in [Task -> Place] /\ op \in [Task -> Operation] /\ wait \in [Task -> Wait]
        /\ status \in [AllTasks -> Status]
    BY DEF Init, Place, Operation, Wait, Status
  <2>3. /\ time \in [Task -> {"unset", "left", "over"}]
        /\ then \in [Task -> {"block", "again", "fail"}]
    BY DEF Init
  <2>4. unlocking \in Side /\ uxMessagesWaiting \in 0..uxLength
    BY ConstantFacts DEF Init, Side
  <2> QED BY <2>1, <2>2, <2>3, <2>4 DEF Init, TypeOK
<1>3. SectionOK /\ StatusOK
  BY <1>2, ConstantFacts
     DEF Init, SectionOK, StatusOK, At, Locked, Suspending, Blocking, AllTasks
<1>4. ListsOK
  BY <1>1, ConstantFacts DEF Init, ListsOK, BlockedOn
<1> QED BY <1>2, <1>3, <1>4 DEF Waiting

\* What vTaskSwitchContext leaves.
Switched ==
    /\ pxCurrentTCB' \in AllTasks /\ xYieldPending' = FALSE
    /\ status'[pxCurrentTCB'] = "ready"
    /\ \A u \in AllTasks :
          status'[u] = "ready" => uxPriority[u] <= uxPriority[pxCurrentTCB']

LEMMA Switches == vTaskSwitchContext(status') => Switched
BY DEF vTaskSwitchContext, Switched

\* Tasks leave the lists when they are not blocked any more.
LEMMA ListsShrink ==
    ASSUME TypeOK, ListsOK,
           \A s \in Side : /\ IsList(xTasksWaitingTo'[s], Task)
                           /\ ToSet(xTasksWaitingTo'[s]) =
                                  {u \in ToSet(xTasksWaitingTo[s]) : status'[u] = "blocked"},
           \A u \in Task : status'[u] = "blocked" => status[u] = "blocked" /\ op'[u] = op[u]
    PROVE  ListsOK'
BY DEF ListsOK, BlockedOn

\* The first waiter of a side is woken.
LEMMA Wakes ==
    ASSUME Waiting, NEW s \in Side, xTaskRemoveFromEventList(<<s, xTasksWaitingTo[s]>>)
    PROVE  /\ xTasksWaitingTo' \in [Side -> Seq(Task)]
           /\ \A r \in Side : /\ IsList(xTasksWaitingTo'[r], Task)
                              /\ ToSet(xTasksWaitingTo'[r]) =
                                     {u \in ToSet(xTasksWaitingTo[r]) : status'[u] = "blocked"}
                              /\ r # s => xTasksWaitingTo'[r] = xTasksWaitingTo[r]
           /\ xTasksWaitingTo[s] = <<>> => UNCHANGED <<xTasksWaitingTo, status>>
           /\ xTasksWaitingTo[s] # <<>> =>
                  LET h == Head(xTasksWaitingTo[s])
                  IN  /\ h \in Task /\ status[h] = "blocked" /\ SideOf(op[h]) = s
                      /\ status' = [status EXCEPT ![h] = IF uxSchedulerSuspended THEN "pending"
                                                         ELSE "ready"]
<1> USE DEF Waiting, TypeOK
<1>1. \A r \in Side : IsList(xTasksWaitingTo[r], Task) /\ ToSet(xTasksWaitingTo[r]) = BlockedOn(r)
  BY DEF ListsOK
<1>2. CASE xTasksWaitingTo[s] = <<>>
  <2>1. UNCHANGED <<xTasksWaitingTo, status>>
    BY <1>2 DEF xTaskRemoveFromEventList
  <2> QED BY <1>1, <1>2, <2>1 DEF BlockedOn
<1>3. CASE xTasksWaitingTo[s] # <<>>
  <2>1. PICK h : h = Head(xTasksWaitingTo[s])
    OBVIOUS
  <2>2. /\ IsList(Tail(xTasksWaitingTo[s]), Task)
        /\ h \in BlockedOn(s)
        /\ ToSet(Tail(xTasksWaitingTo[s])) = BlockedOn(s) \ {h}
    BY <1>1, <1>3, <2>1, TailList
  <2>3. /\ xTasksWaitingTo' = [xTasksWaitingTo EXCEPT ![s] = Tail(@)]
        /\ status' = [status EXCEPT ![h] = IF uxSchedulerSuspended THEN "pending" ELSE "ready"]
    BY <1>3, <2>1 DEF xTaskRemoveFromEventList
  <2>4. h \in Task /\ status[h] = "blocked" /\ SideOf(op[h]) = s
    BY <2>2 DEF BlockedOn
  <2>5. /\ xTasksWaitingTo' \in [Side -> Seq(Task)]
        /\ xTasksWaitingTo'[s] = Tail(xTasksWaitingTo[s])
        /\ \A r \in Side : r # s => xTasksWaitingTo'[r] = xTasksWaitingTo[r]
    BY <2>2, <2>3 DEF IsList
  <2>6. \A u \in Task : status'[u] = "blocked" <=> status[u] = "blocked" /\ u # h
    BY <2>3, <2>4, ConstantFacts
  <2>7. ASSUME NEW r \in Side
        PROVE  /\ IsList(xTasksWaitingTo'[r], Task)
               /\ ToSet(xTasksWaitingTo'[r]) =
                      {u \in ToSet(xTasksWaitingTo[r]) : status'[u] = "blocked"}
    <3>1. CASE r = s
      BY <1>1, <2>2, <2>5, <2>6, <3>1 DEF BlockedOn
    <3>2. CASE r # s
      BY <1>1, <2>4, <2>5, <2>6, <3>2 DEF BlockedOn
    <3> QED BY <3>1, <3>2
  <2> QED BY <1>3, <2>1, <2>3, <2>4, <2>5, <2>7
<1> QED BY <1>2, <1>3

\* A call goes on, or is over, with the lists and the scheduler as they were.
LEMMA WaitingCalls ==
    ASSUME Waiting, NEW t \in Task,
           \/ \E o \in Operation, w \in Waits : Begin(t, o, w)
           \/ Refuse(t) \/ Prepare(t) \/ vTaskSuspendAll(t) \/ prvLockQueue(t) \/ Check(t)
           \/ Fail(t)
    PROVE  Waiting'
<1> USE DEF Waiting, TypeOK, GoTo, Running
<1>1. /\ pxCurrentTCB = t /\ UNCHANGED <<pxCurrentTCB, xTasksWaitingTo, status>>
      /\ pc[t] \in {"out", "try", "suspend", "lock", "check", "over"}
      /\ status[t] = "ready"
  <2>1. pxCurrentTCB = t /\ pc[t] \in {"out", "try", "suspend", "lock", "check", "over"}
    BY DEF Begin, Refuse, Prepare, vTaskSuspendAll, prvLockQueue, Check, Fail
  <2>2. UNCHANGED <<pxCurrentTCB, xTasksWaitingTo, status>>
    BY DEF Begin, Refuse, Prepare, vTaskSuspendAll, prvLockQueue, Check, Fail, queue, scheduler,
       switch
  <2>3. status[t] = "ready"
    BY <2>1 DEF StatusOK, Blocking, At
  <2> QED BY <2>1, <2>2, <2>3
<1>2. \A u \in Task : status[u] = "blocked" => op'[u] = op[u]
  BY <1>1 DEF Begin, Refuse, Prepare, vTaskSuspendAll, prvLockQueue, Check, Fail, Return
<1>3. ListsOK'
  BY <1>1, <1>2 DEF ListsOK, BlockedOn
<1>4. TypeOK'
  <2>1. CASE \E o \in Operation, w \in Waits : Begin(t, o, w)
    BY <2>1, QueueAssumption DEF Begin, Place, Wait, queue, scheduler, switch
  <2>2. CASE Refuse(t) \/ Fail(t)
    BY <2>2 DEF Refuse, Fail, Return, Place, Operation, Wait, queue, scheduler, switch
  <2>3. CASE Prepare(t) \/ vTaskSuspendAll(t)
    BY <2>3 DEF Prepare, vTaskSuspendAll, Place, queue, scheduler, switch
  <2>4. CASE prvLockQueue(t)
    BY <2>4 DEF prvLockQueue, Place, queue, scheduler, switch, queueLOCKED_UNMODIFIED
  <2>5. CASE Check(t)
    BY <2>5 DEF Check, Verdict, Place, Side, queue, scheduler, switch
  <2> QED BY <2>1, <2>2, <2>3, <2>4, <2>5
<1>5. StatusOK'
  BY <1>1 DEF Begin, Refuse, Prepare, vTaskSuspendAll, prvLockQueue, Check, Fail, Return,
     StatusOK, Blocking, At, Verdict, scheduler
<1>6. SectionOK'
  <2>1. CASE \E o \in Operation, w \in Waits : Begin(t, o, w)
    BY <1>1, <2>1 DEF Begin, SectionOK, At, Locked, Suspending, queue, scheduler
  <2>2. CASE Refuse(t) \/ Fail(t) \/ Prepare(t)
    BY <1>1, <2>2 DEF Refuse, Fail, Prepare, Return, SectionOK, At, Locked, Suspending, queue,
       scheduler
  <2>3. CASE vTaskSuspendAll(t)
    BY <1>1, <2>3 DEF vTaskSuspendAll, SectionOK, At, Locked, Suspending, queue
  <2>4. CASE prvLockQueue(t)
    BY <1>1, <2>4 DEF prvLockQueue, SectionOK, At, Locked, Suspending, scheduler,
       queueLOCKED_UNMODIFIED
  <2>5. CASE Check(t)
    BY <1>1, <2>5 DEF Check, Verdict, SectionOK, At, Locked, Suspending, Side, queue, scheduler
  <2> QED BY <2>1, <2>2, <2>3, <2>4, <2>5
<1> QED BY <1>3, <1>4, <1>5, <1>6

\* Which side an operation serves.
Other(o) == IF o = "receive" THEN "send" ELSE "receive"

LEMMA ServedSide ==
    ASSUME NEW o
    PROVE  Other(o) \in Side /\ Served(o) = <<Other(o), xTasksWaitingTo[Other(o)]>>
BY DEF Served, Other, Side

\* A waiter is woken and the processor changes hands if that is due, with no section open.
LEMMA WaitingServed ==
    ASSUME Waiting, NEW s \in Side, xTaskRemoveFromEventList(<<s, xTasksWaitingTo[s]>>),
           ~uxSchedulerSuspended, uxSchedulerSuspended' = uxSchedulerSuspended,
           UNCHANGED pxCurrentTCB \/ Switched,
           \A u \in Task : status'[u] = "blocked" => op'[u] = op[u]
    PROVE  /\ ListsOK' /\ pxCurrentTCB' \in AllTasks
           /\ xTasksWaitingTo' \in [Side -> Seq(Task)] /\ status' \in [AllTasks -> Status]
           /\ status'[Idle] = "ready"
           /\ \A u \in AllTasks : status'[u] # status[u] =>
                                      status[u] = "blocked" /\ status'[u] = "ready"
           /\ status[pxCurrentTCB] = "ready" => status'[pxCurrentTCB'] = "ready"
           /\ ~At(Suspending) /\ \A u \in Task : pc[u] \notin Suspending
<1> USE DEF Waiting, TypeOK
<1>1. /\ xTasksWaitingTo' \in [Side -> Seq(Task)]
      /\ \A r \in Side : /\ IsList(xTasksWaitingTo'[r], Task)
                         /\ ToSet(xTasksWaitingTo'[r]) =
                                {u \in ToSet(xTasksWaitingTo[r]) : status'[u] = "blocked"}
  BY Wakes
<1>2. /\ status' \in [AllTasks -> Status]
      /\ \A u \in AllTasks : status'[u] # status[u] =>
                                 u \in Task /\ status[u] = "blocked" /\ status'[u] = "ready"
  <2>1. CASE xTasksWaitingTo[s] = <<>>
    BY <2>1, Wakes
  <2>2. CASE xTasksWaitingTo[s] # <<>>
    <3>1. PICK h : h \in Task /\ status[h] = "blocked" /\ status' = [status EXCEPT ![h] = "ready"]
      BY <2>2, Wakes
    <3> QED BY <3>1, ConstantFacts DEF Status
  <2> QED BY <2>1, <2>2
<1>3. ListsOK'
  BY <1>1, <1>2, ListsShrink, ConstantFacts DEF Status
<1>4. ~At(Suspending) /\ \A u \in Task : pc[u] \notin Suspending
  BY DEF SectionOK, At
<1> QED BY <1>1, <1>2, <1>3, <1>4, ConstantFacts DEF StatusOK, Switched

LEMMA WaitingSucceed == Waiting /\ (\E t \in Task : Succeed(t)) => Waiting'
<1> SUFFICES ASSUME Waiting, NEW t \in Task, Succeed(t) PROVE Waiting'
  OBVIOUS
<1> USE DEF Waiting, TypeOK
<1>1. /\ pxCurrentTCB = t /\ pc[t] = "try" /\ status[t] = "ready"
      /\ pc' = [pc EXCEPT ![t] = "out"] /\ op' = [op EXCEPT ![t] = "send"]
      /\ wait' = [wait EXCEPT ![t] = "none"] /\ time' = [time EXCEPT ![t] = "unset"]
      /\ UNCHANGED <<xLock, then, unlocking, uxSchedulerSuspended, uxPendedTicks>>
  BY DEF Succeed, Running, Return, GoTo, StatusOK, At
<1>2. /\ Other(op[t]) \in Side
      /\ xTaskRemoveFromEventList(<<Other(op[t]), xTasksWaitingTo[Other(op[t])]>>)
  BY ServedSide DEF Succeed
<1>3. (UNCHANGED pxCurrentTCB \/ Switched) /\ xYieldPending' \in BOOLEAN
  BY Switches DEF Succeed, switch, Switched
<1>4. ~uxSchedulerSuspended
  BY <1>1 DEF SectionOK, At, Suspending
<1>5. \A u \in Task : status'[u] = "blocked" => op'[u] = op[u]
  <2>1. status'[t] # "blocked"
    BY <1>1, <1>2, Wakes, ConstantFacts
  <2> QED BY <1>1, <2>1
<1>6. /\ ListsOK' /\ pxCurrentTCB' \in AllTasks
      /\ xTasksWaitingTo' \in [Side -> Seq(Task)] /\ status' \in [AllTasks -> Status]
      /\ status'[Idle] = "ready"
      /\ \A u \in AllTasks : status'[u] # status[u] =>
                                 status[u] = "blocked" /\ status'[u] = "ready"
      /\ status'[pxCurrentTCB'] = "ready"
      /\ ~At(Suspending) /\ \A u \in Task : pc[u] \notin Suspending
  BY <1>1, <1>2, <1>3, <1>4, <1>5, WaitingServed
<1>7. uxMessagesWaiting' \in 0..uxLength
  BY ConstantFacts DEF Succeed, CountAfter, Possible, SideOf, Operation
<1>8. TypeOK'
  BY <1>1, <1>3, <1>6, <1>7 DEF Place, Operation, Wait
<1>9. StatusOK'
  BY <1>1, <1>6, ConstantFacts DEF StatusOK, Blocking, At
<1>10. SectionOK'
  BY <1>1, <1>4, <1>6 DEF SectionOK, At, Locked, Suspending
<1> QED BY <1>6, <1>8, <1>9, <1>10

LEMMA WaitingReset == Waiting /\ (\E t \in Task : xQueueGenericReset(t)) => Waiting'
<1> SUFFICES ASSUME Waiting, NEW t \in Task, xQueueGenericReset(t) PROVE Waiting'
  OBVIOUS
<1> USE DEF Waiting, TypeOK
<1>1. /\ pxCurrentTCB = t /\ pc[t] = "out" /\ status[t] = "ready"
      /\ uxMessagesWaiting' = 0 /\ xLock' = [s \in Side |-> queueUNLOCKED]
      /\ UNCHANGED <<pc, op, wait, time, then, unlocking, uxSchedulerSuspended, uxPendedTicks>>
  BY DEF xQueueGenericReset, Running, calls, StatusOK, Blocking
<1>2. "send" \in Side /\ xTaskRemoveFromEventList(<<"send", xTasksWaitingTo["send"]>>)
  BY DEF xQueueGenericReset, Side
<1>3. (UNCHANGED pxCurrentTCB \/ Switched) /\ xYieldPending' \in BOOLEAN
  BY Switches DEF xQueueGenericReset, switch, Switched
<1>4. ~uxSchedulerSuspended
  BY <1>1 DEF SectionOK, At, Suspending
<1>5. /\ ListsOK' /\ pxCurrentTCB' \in AllTasks
      /\ xTasksWaitingTo' \in [Side -> Seq(Task)] /\ status' \in [AllTasks -> Status]
      /\ status'[Idle] = "ready"
      /\ \A u \in AllTasks : status'[u] # status[u] =>
                                 status[u] = "blocked" /\ status'[u] = "ready"
      /\ status'[pxCurrentTCB'] = "ready"
      /\ ~At(Suspending) /\ \A u \in Task : pc[u] \notin Suspending
  BY <1>1, <1>2, <1>3, <1>4, WaitingServed
<1>6. TypeOK'
  BY <1>1, <1>3, <1>5, ConstantFacts
<1>7. StatusOK'
  BY <1>1, <1>5, ConstantFacts DEF StatusOK, Blocking, At
<1>8. SectionOK'
  BY <1>1, <1>4, <1>5 DEF SectionOK, At, Locked, Suspending
<1> QED BY <1>5, <1>6, <1>7, <1>8

LEMMA WaitingFromISR == Waiting /\ (\E o \in Operation \ {"peek"} : FromISR(o)) => Waiting'
<1> SUFFICES ASSUME Waiting, NEW o \in Operation \ {"peek"}, FromISR(o) PROVE Waiting'
  OBVIOUS
<1> USE DEF Waiting, TypeOK
<1>1. /\ UNCHANGED <<pc, op, wait, time, then, unlocking, uxSchedulerSuspended, uxPendedTicks>>
      /\ uxMessagesWaiting' \in 0..uxLength
  BY ConstantFacts DEF FromISR, calls, CountAfter, Possible, SideOf, Operation
<1>2. CASE /\ xLock[SideOf(o)] # queueUNLOCKED /\ xLock' = [xLock EXCEPT ![SideOf(o)] = @ + 1]
           /\ UNCHANGED <<xTasksWaitingTo, status, pxCurrentTCB, xYieldPending>>
  <2>1. SideOf(o) \in Side /\ xLock[SideOf(o)] \in Nat
    BY <1>2 DEF SideOf, Side
  <2>2. TypeOK' /\ ListsOK' /\ StatusOK'
    BY <1>1, <1>2, <2>1 DEF ListsOK, BlockedOn, StatusOK, Blocking, At
  <2>3. SectionOK'
    BY <1>1, <1>2, <2>1 DEF SectionOK, At, Locked, Suspending
  <2> QED BY <2>2, <2>3
<1>3. CASE /\ UNCHANGED xLock
           /\ xTaskRemoveFromEventList(Served(o))
           /\ \/ UNCHANGED switch
              \/ xYieldPending' = TRUE /\ UNCHANGED pxCurrentTCB
              \/ ~uxSchedulerSuspended /\ Switched
  <2>1. /\ Other(o) \in Side
        /\ xTaskRemoveFromEventList(<<Other(o), xTasksWaitingTo[Other(o)]>>)
    BY <1>3, ServedSide
  <2>2. /\ UNCHANGED pxCurrentTCB \/ (~uxSchedulerSuspended /\ Switched)
        /\ xYieldPending' \in BOOLEAN
    BY <1>3 DEF switch, Switched
  <2>3. CASE ~uxSchedulerSuspended
    <3>1. /\ ListsOK' /\ pxCurrentTCB' \in AllTasks
          /\ xTasksWaitingTo' \in [Side -> Seq(Task)] /\ status' \in [AllTasks -> Status]
          /\ status'[Idle] = "ready"
          /\ \A u \in AllTasks : status'[u] # status[u] =>
                                     status[u] = "blocked" /\ status'[u] = "ready"
          /\ ~At(Suspending) /\ \A u \in Task : pc[u] \notin Suspending
      BY <1>1, <2>1, <2>2, <2>3, WaitingServed
    <3>2. TypeOK'
      BY <1>1, <1>3, <2>2, <3>1
    <3>3. StatusOK'
      <4>1. status'[pxCurrentTCB'] # "ready" => ~At({"try"})'
        BY <1>1, <2>2, <3>1, ConstantFacts DEF StatusOK, At, Switched
      <4> QED BY <1>1, <3>1, <4>1, ConstantFacts DEF StatusOK, Blocking
    <3>4. SectionOK'
      BY <1>1, <1>3, <2>3, <3>1 DEF SectionOK, At, Locked, Suspending
    <3> QED BY <3>1, <3>2, <3>3, <3>4
  <2>4. CASE uxSchedulerSuspended
    <3>1. UNCHANGED pxCurrentTCB
      BY <2>2, <2>4
    <3>2. /\ xTasksWaitingTo' \in [Side -> Seq(Task)]
          /\ \A r \in Side : /\ IsList(xTasksWaitingTo'[r], Task)
                             /\ ToSet(xTasksWaitingTo'[r]) =
                                    {u \in ToSet(xTasksWaitingTo[r]) : status'[u] = "blocked"}
      BY <2>1, Wakes
    <3>3. /\ status' \in [AllTasks -> Status]
          /\ \A u \in AllTasks : status'[u] # status[u] =>
                                     u \in Task /\ status[u] = "blocked" /\ status'[u] = "pending"
      <4>1. CASE xTasksWaitingTo[Other(o)] = <<>>
        BY <2>1, <4>1, Wakes
      <4>2. CASE xTasksWaitingTo[Other(o)] # <<>>
        <5>1. PICK h : /\ h \in Task /\ status[h] = "blocked"
                       /\ status' = [status EXCEPT ![h] = "pending"]
          BY <2>1, <2>4, <4>2, Wakes
        <5> QED BY <5>1, ConstantFacts DEF Status
      <4> QED BY <4>1, <4>2
    <3>4. ListsOK'
      BY <1>1, <3>2, <3>3, ListsShrink, ConstantFacts
    <3>5. TypeOK'
      BY <1>1, <1>3, <2>2, <3>1, <3>2, <3>3
    <3>6. StatusOK'
      BY <1>1, <2>4, <3>1, <3>3, ConstantFacts DEF StatusOK, Blocking, At
    <3>7. SectionOK'
      BY <1>1, <1>3, <2>4, <3>1 DEF SectionOK, At, Locked, Suspending
    <3> QED BY <3>4, <3>5, <3>6, <3>7
  <2> QED BY <2>3, <2>4
<1>4. \/ /\ Defers(SideOf(o)) /\ xLock' = [xLock EXCEPT ![SideOf(o)] = @ + 1]
         /\ UNCHANGED <<xTasksWaitingTo, status, switch>>
      \/ /\ UNCHANGED xLock
         /\ xTaskRemoveFromEventList(Served(o))
         /\ \/ UNCHANGED switch
            \/ xYieldPending' = TRUE /\ UNCHANGED pxCurrentTCB
            \/ ~uxSchedulerSuspended /\ Switched
  BY Switches DEF FromISR
<1> QED BY <1>2, <1>3, <1>4 DEF Defers, switch

LEMMA WaitingPlace == Waiting /\ (\E t \in Task : vTaskPlaceOnEventList(t)) => Waiting'
<1> SUFFICES ASSUME Waiting, NEW t \in Task, vTaskPlaceOnEventList(t) PROVE Waiting'
  OBVIOUS
<1> USE DEF Waiting, TypeOK
<1>1. /\ pxCurrentTCB = t /\ pc[t] = "place" /\ status[t] = "ready" /\ then[t] = "block"
      /\ pc' = [pc EXCEPT ![t] = "unlock"] /\ status' = [status EXCEPT ![t] = "blocked"]
      /\ UNCHANGED <<uxMessagesWaiting, xLock, op, wait, time, then, unlocking, pxCurrentTCB,
                     xYieldPending, uxSchedulerSuspended, uxPendedTicks>>
  BY DEF vTaskPlaceOnEventList, Running, GoTo, StatusOK, Blocking, switch
<1>2. PICK s \in Side : s = SideOf(op[t])
  BY DEF SideOf, Side
<1>3. xTasksWaitingTo' = [xTasksWaitingTo EXCEPT ![s] =
                              vListInsert(xTasksWaitingTo[s], t, EventValue)]
  BY <1>2 DEF vTaskPlaceOnEventList
<1>4. /\ IsList(xTasksWaitingTo[s], Task) /\ t \notin ToSet(xTasksWaitingTo[s])
      /\ ToSet(xTasksWaitingTo[s]) = BlockedOn(s)
  BY <1>1 DEF ListsOK, BlockedOn
<1>5. /\ IsList(vListInsert(xTasksWaitingTo[s], t, EventValue), Task)
      /\ ToSet(vListInsert(xTasksWaitingTo[s], t, EventValue)) = BlockedOn(s) \cup {t}
  BY <1>4, vListInsertList
<1>6. ListsOK'
  <2>1. \A u \in Task : status'[u] = "blocked" <=> status[u] = "blocked" \/ u = t
    BY <1>1, ConstantFacts
  <2>2. ASSUME NEW r \in Side
        PROVE  IsList(xTasksWaitingTo'[r], Task) /\ ToSet(xTasksWaitingTo'[r]) = BlockedOn(r)'
    <3>1. CASE r = s
      BY <1>1, <1>2, <1>3, <1>5, <2>1, <3>1 DEF BlockedOn
    <3>2. CASE r # s
      BY <1>1, <1>2, <1>3, <2>1, <3>2 DEF BlockedOn, ListsOK
    <3> QED BY <3>1, <3>2
  <2> QED BY <2>2 DEF ListsOK
<1>7. TypeOK'
  <2>1. vListInsert(xTasksWaitingTo[s], t, EventValue) \in Seq(Task)
    BY <1>5 DEF IsList
  <2> QED BY <1>1, <1>3, <2>1 DEF Place, Status
<1>8. StatusOK'
  BY <1>1, ConstantFacts DEF StatusOK, Blocking, At
<1>9. SectionOK'
  <2>1. unlocking = "send"
    BY <1>1 DEF SectionOK, At, Side
  <2> QED BY <1>1, <2>1 DEF SectionOK, At, Locked, Suspending
<1> QED BY <1>6, <1>7, <1>8, <1>9

LEMMA WaitingUnlock == Waiting /\ (\E t \in Task : prvUnlockQueue(t)) => Waiting'
<1> SUFFICES ASSUME Waiting, NEW t \in Task, prvUnlockQueue(t) PROVE Waiting'
  OBVIOUS
<1> USE DEF Waiting, TypeOK
<1>1. /\ pxCurrentTCB = t /\ pc[t] = "unlock" /\ uxSchedulerSuspended
      /\ xLock' = [xLock EXCEPT ![unlocking] = queueUNLOCKED]
      /\ xYieldPending' \in BOOLEAN
      /\ IF unlocking = "send"
         THEN unlocking' = "receive" /\ UNCHANGED pc
         ELSE unlocking' = "send" /\ pc' = [pc EXCEPT ![t] = "resume"]
      /\ UNCHANGED <<uxMessagesWaiting, op, wait, time, then, pxCurrentTCB,
                     uxSchedulerSuspended, uxPendedTicks>>
  BY DEF prvUnlockQueue, Running, GoTo, SectionOK, At, Suspending
<1>2. PICK s \in Side : s = Opposite(unlocking)
  BY DEF Opposite, Side
<1>3. PICK n : n = Replayed(xLock[unlocking], xTasksWaitingTo[s])
  OBVIOUS
<1>4. n \in 0..Len(xTasksWaitingTo[s])
  <2>1. xLock[unlocking] \in Nat
    BY <1>1 DEF SectionOK, Locked, At, Side
  <2>2. Len(xTasksWaitingTo[s]) \in Nat
    BY LenProperties
  <2> QED BY <1>3, <2>1, <2>2 DEF Replayed
<1>5. PICK woken : woken = FirstItems(xTasksWaitingTo[s], n)
  OBVIOUS
<1>6. /\ xTasksWaitingTo' = [xTasksWaitingTo EXCEPT ![s] =
                                ItemsAfter(xTasksWaitingTo[s], n)]
      /\ status' = [u \in AllTasks |-> IF u \in woken THEN "pending" ELSE status[u]]
  BY <1>2, <1>3, <1>5 DEF prvUnlockQueue, ItemsAfter, FirstItems
<1>7. \A r \in Side : IsList(xTasksWaitingTo[r], Task) /\ ToSet(xTasksWaitingTo[r]) = BlockedOn(r)
  BY DEF ListsOK
<1>8. /\ IsList(ItemsAfter(xTasksWaitingTo[s], n), Task)
      /\ woken \subseteq BlockedOn(s)
      /\ ToSet(ItemsAfter(xTasksWaitingTo[s], n)) = BlockedOn(s) \ woken
  BY <1>4, <1>5, <1>7, SuffixList
<1>9. /\ \A u \in Task : status'[u] = "blocked" <=> status[u] = "blocked" /\ u \notin woken
      /\ woken \subseteq Task /\ \A u \in woken : status[u] = "blocked" /\ SideOf(op[u]) = s
      /\ status' \in [AllTasks -> Status]
  BY <1>6, <1>8, ConstantFacts DEF BlockedOn, Status
<1>10. ListsOK'
  <2>1. ASSUME NEW r \in Side
        PROVE  /\ IsList(xTasksWaitingTo'[r], Task)
               /\ ToSet(xTasksWaitingTo'[r]) =
                      {u \in ToSet(xTasksWaitingTo[r]) : status'[u] = "blocked"}
    <3>1. CASE r = s
      BY <1>6, <1>7, <1>8, <1>9, <3>1 DEF BlockedOn
    <3>2. CASE r # s
      BY <1>6, <1>7, <1>9, <3>2 DEF BlockedOn
    <3> QED BY <3>1, <3>2
  <2> QED BY <1>1, <1>9, <2>1, ListsShrink
<1>11. TypeOK'
  <2>1. xTasksWaitingTo' \in [Side -> Seq(Task)]
    BY <1>6, <1>8 DEF IsList
  <2>2. unlocking' \in Side /\ pc' \in [Task -> Place]
    BY <1>1 DEF Side, Place
  <2> QED BY <1>1, <1>9, <2>1, <2>2
<1>12. StatusOK'
  BY <1>1, <1>6, <1>9, ConstantFacts DEF StatusOK, Blocking, At
<1>13. SectionOK'
  <2>1. CASE unlocking = "send"
    BY <1>1, <2>1 DEF SectionOK, At, Locked, Suspending, Side
  <2>2. CASE unlocking = "receive"
    BY <1>1, <2>2 DEF SectionOK, At, Locked, Suspending, Side
  <2> QED BY <2>1, <2>2 DEF Side
<1> QED BY <1>10, <1>11, <1>12, <1>13

\* Ticks and xTaskResumeAll: the tasks that are late leave their lists.
LEMMA WaitingExpire ==
    ASSUME Waiting, NEW expired, NEW late \in SUBSET Task, NEW now \in [AllTasks -> Status],
           \A u \in AllTasks : now[u] = "blocked" <=> status[u] = "blocked",
           Expire(expired, late, now), op' = op
    PROVE  /\ ListsOK' /\ xTasksWaitingTo' \in [Side -> Seq(Task)]
           /\ time' \in [Task -> {"unset", "left", "over"}]
           /\ status' \in [AllTasks -> Status]
           /\ \A u \in AllTasks : status'[u] = IF u \in late THEN "ready" ELSE now[u]
           /\ \A s \in Side : xTasksWaitingTo'[s] = Without(xTasksWaitingTo[s], late)
<1> USE DEF Waiting, TypeOK
<1>1. /\ status' = [u \in AllTasks |-> IF u \in late THEN "ready" ELSE now[u]]
      /\ time' = [u \in Task |-> IF u \in expired THEN "over" ELSE time[u]]
      /\ xTasksWaitingTo' = [s \in Side |-> Without(xTasksWaitingTo[s], late)]
  BY DEF Expire, LeaveEventList
<1>2. \A s \in Side : IsList(xTasksWaitingTo[s], Task) /\ ToSet(xTasksWaitingTo[s]) = BlockedOn(s)
  BY DEF ListsOK
<1>3. \A s \in Side : /\ IsList(Without(xTasksWaitingTo[s], late), Task)
                      /\ ToSet(Without(xTasksWaitingTo[s], late)) = BlockedOn(s) \ late
  BY <1>2, WithoutList
<1>4. \A u \in Task : status'[u] = "blocked" <=> status[u] = "blocked" /\ u \notin late
  BY <1>1, ConstantFacts
<1>5. ListsOK'
  BY <1>1, <1>3, <1>4 DEF ListsOK, BlockedOn
<1>6. status' \in [AllTasks -> Status] /\ time' \in [Task -> {"unset", "left", "over"}]
  BY <1>1 DEF Status
<1>7. xTasksWaitingTo' \in [Side -> Seq(Task)]
  BY <1>1, <1>3 DEF IsList
<1> QED BY <1>1, <1>5, <1>6, <1>7

LEMMA WaitingTick == Waiting /\ Tick => Waiting'
<1> SUFFICES ASSUME Waiting, Tick PROVE Waiting'
  OBVIOUS
<1> USE DEF Waiting, TypeOK
<1>1. UNCHANGED <<uxMessagesWaiting, xLock, pc, op, wait, then, unlocking, uxSchedulerSuspended>>
  BY DEF Tick
<1>2. CASE /\ uxPendedTicks' = TRUE
           /\ UNCHANGED <<xTasksWaitingTo, time, status, switch>>
  <2>1. TypeOK' /\ StatusOK' /\ ListsOK'
    BY <1>1, <1>2 DEF switch, StatusOK, Blocking, At, ListsOK, BlockedOn
  <2>2. SectionOK'
    BY <1>1, <1>2 DEF switch, SectionOK, At, Locked
  <2> QED BY <2>1, <2>2
<1>3. CASE /\ ~uxSchedulerSuspended
           /\ UNCHANGED uxPendedTicks
           /\ \E expired \in SUBSET CanExpire :
              LET late == {t \in expired : status[t] = "blocked"}
              IN  /\ Expire(expired, late, status)
                  /\ IF xYieldPending \/ SwitchWanted(late)
                     THEN vTaskSwitchContext(status')
                     ELSE UNCHANGED switch
  <2>1. PICK expired \in SUBSET CanExpire :
            /\ Expire(expired, {t \in expired : status[t] = "blocked"}, status)
            /\ vTaskSwitchContext(status') \/ UNCHANGED switch
    BY <1>3
  <2>2. PICK late : late = {t \in expired : status[t] = "blocked"}
    OBVIOUS
  <2>3. /\ late \in SUBSET Task /\ \A u \in late : status[u] = "blocked"
        /\ Expire(expired, late, status)
    BY <2>1, <2>2 DEF CanExpire
  <2>4. /\ ListsOK' /\ xTasksWaitingTo' \in [Side -> Seq(Task)]
        /\ time' \in [Task -> {"unset", "left", "over"}]
        /\ status' \in [AllTasks -> Status]
        /\ \A u \in AllTasks : status'[u] = IF u \in late THEN "ready" ELSE status[u]
    <3>1. /\ status \in [AllTasks -> Status] /\ op' = op /\ Waiting
          /\ \A u \in AllTasks : status[u] = "blocked" <=> status[u] = "blocked"
      BY <1>1
    <3> HIDE DEF Waiting, TypeOK
    <3> QED BY <2>3, <3>1, WaitingExpire
  <2>5. Switched \/ UNCHANGED switch
    BY <2>1, Switches
  <2>6. /\ \A u \in AllTasks : status'[u] # status[u] =>
                                 status[u] = "blocked" /\ status'[u] = "ready"
        /\ status'[Idle] = "ready"
        /\ ~At(Suspending) /\ \A u \in Task : pc[u] \notin Suspending
    BY <1>3, <2>3, <2>4, ConstantFacts DEF StatusOK, SectionOK, At
  <2>7. TypeOK'
    BY <1>1, <1>3, <2>4, <2>5 DEF Switched, switch
  <2>8. StatusOK'
    <3>1. status'[pxCurrentTCB'] # "ready" => ~At({"try"})'
      BY <1>1, <2>5, <2>6, ConstantFacts DEF StatusOK, At, Switched, switch
    <3> QED BY <1>1, <2>6, <3>1, ConstantFacts DEF StatusOK, Blocking
  <2>9. SectionOK'
    <3>1. ~At(Suspending)' /\ ~At({"check", "place"})' /\ ~At({"unlock"})'
      BY <1>1, <2>5, <2>6 DEF At, Suspending
    <3>2. ~At({"check", "place"}) /\ ~At({"unlock"})
      BY <2>6 DEF At, Suspending
    <3> QED BY <1>1, <1>3, <2>6, <3>1, <3>2 DEF SectionOK, Locked
  <2> QED BY <2>4, <2>7, <2>8, <2>9
<1> QED BY <1>2, <1>3 DEF Tick

LEMMA WaitingYield == Waiting /\ (\E t \in Task : portYIELD_WITHIN_API(t)) => Waiting'
<1> SUFFICES ASSUME Waiting, NEW t \in Task, portYIELD_WITHIN_API(t) PROVE Waiting'
  OBVIOUS
<1> USE DEF Waiting, TypeOK
<1>1. /\ pxCurrentTCB = t /\ pc[t] = "yield" /\ then[t] = "again"
      /\ pc' = [pc EXCEPT ![t] = "try"]
      /\ UNCHANGED <<uxMessagesWaiting, xTasksWaitingTo, xLock, op, wait, time, then, unlocking,
                     status, uxSchedulerSuspended, uxPendedTicks>>
  BY DEF portYIELD_WITHIN_API, Running, GoTo, StatusOK, queue
<1>2. Switched
  <2>1. status' = status /\ vTaskSwitchContext(status)
    BY DEF portYIELD_WITHIN_API
  <2> QED BY <2>1 DEF vTaskSwitchContext, Switched
<1>3. ~uxSchedulerSuspended /\ ~At(Suspending) /\ \A u \in Task : pc[u] \notin Suspending
  BY <1>1 DEF SectionOK, At, Suspending
<1>4. TypeOK'
  BY <1>1, <1>2 DEF Switched, Place
<1>5. ListsOK'
  BY <1>1 DEF ListsOK, BlockedOn
<1>6. StatusOK'
  BY <1>1, <1>2, ConstantFacts DEF StatusOK, Blocking, At, Switched
<1>7. SectionOK'
  BY <1>1, <1>3, <1>4 DEF SectionOK, At, Locked, Suspending
<1> QED BY <1>4, <1>5, <1>6, <1>7

LEMMA WaitingResume == Waiting /\ (\E t \in Task : xTaskResumeAll(t)) => Waiting'
<1> SUFFICES ASSUME Waiting, NEW t \in Task, xTaskResumeAll(t) PROVE Waiting'
  OBVIOUS
<1> USE DEF Waiting, TypeOK
<1>1. /\ pxCurrentTCB = t /\ pc[t] = "resume" /\ uxSchedulerSuspended
      /\ uxSchedulerSuspended' = FALSE /\ uxPendedTicks' = FALSE
      /\ then' = [then EXCEPT ![t] = "again"]
      /\ UNCHANGED <<uxMessagesWaiting, xLock, op, wait, unlocking>>
  BY DEF xTaskResumeAll, Running, SectionOK, At, Suspending
<1>2. PICK now : now = [u \in AllTasks |-> IF u \in {v \in Task : status[v] = "pending"}
                                          THEN "ready" ELSE status[u]]
  OBVIOUS
<1>3. PICK expired \in SUBSET CanExpire :
          /\ Expire(expired, {u \in expired : now[u] = "blocked"}, now)
          /\ vTaskSwitchContext(status') \/ UNCHANGED switch
          /\ \/ pc' = [pc EXCEPT ![t] = "over"] /\ then[t] = "fail"
             \/ pc' = [pc EXCEPT ![t] = "try"]
                /\ (then[t] = "again" \/ vTaskSwitchContext(status'))
             \/ pc' = [pc EXCEPT ![t] = "yield"] /\ then[t] = "block"
  BY <1>2 DEF xTaskResumeAll, GoTo
<1>4. PICK late : late = {u \in expired : now[u] = "blocked"}
  OBVIOUS
<1>5. /\ now \in [AllTasks -> Status]
      /\ \A u \in AllTasks : now[u] = "blocked" <=> status[u] = "blocked"
      /\ \A u \in AllTasks : now[u] # "pending" /\ (status[u] = "ready" => now[u] = "ready")
  <2>1. \A u \in AllTasks : now[u] = IF u \in Task /\ status[u] = "pending" THEN "ready"
                                     ELSE status[u]
    BY <1>2
  <2>2. status[Idle] = "ready" /\ \A u \in AllTasks : u \in Task \/ u = Idle
    BY DEF StatusOK, AllTasks
  <2>3. now \in [AllTasks -> Status]
    BY <1>2 DEF Status
  <2> QED BY <2>1, <2>2, <2>3
<1>6. /\ late \in SUBSET Task /\ \A u \in late : status[u] = "blocked"
      /\ Expire(expired, late, now)
  BY <1>3, <1>4, <1>5, ConstantFacts DEF CanExpire
<1>7. /\ ListsOK' /\ xTasksWaitingTo' \in [Side -> Seq(Task)]
      /\ time' \in [Task -> {"unset", "left", "over"}]
      /\ status' \in [AllTasks -> Status]
      /\ \A u \in AllTasks : status'[u] = IF u \in late THEN "ready" ELSE now[u]
  <2>1. /\ op' = op /\ Waiting /\ now \in [AllTasks -> Status] /\ late \in SUBSET Task
        /\ \A u \in AllTasks : now[u] = "blocked" <=> status[u] = "blocked"
        /\ Expire(expired, late, now)
    BY <1>1, <1>5, <1>6
  <2> HIDE DEF Waiting, TypeOK
  <2> QED BY <2>1, WaitingExpire
<1>8. /\ \A u \in AllTasks : /\ status'[u] # "pending"
                             /\ status'[u] = "blocked" => status[u] = "blocked"
                             /\ status[u] = "ready" => status'[u] = "ready"
      /\ status'[Idle] = "ready"
  BY <1>5, <1>6, <1>7, ConstantFacts DEF StatusOK
<1>9. Switched \/ UNCHANGED switch
  BY <1>3, Switches
<1>10. TypeOK'
  BY <1>1, <1>3, <1>7, <1>9 DEF Switched, switch, Place
<1>11. StatusOK'
  <2>1. status'[pxCurrentTCB'] # "ready" => ~At({"try"})'
    <3>1. CASE Switched
      BY <3>1 DEF Switched
    <3>2. CASE UNCHANGED switch /\ ~Switched
      <4>1. pc' = [pc EXCEPT ![t] = "try"] => then[t] = "again"
        BY <1>3, <3>2, Switches
      <4>2. then[t] = "again" => status[t] = "ready"
        BY <1>1 DEF StatusOK, Blocking
      <4>3. pxCurrentTCB' = t /\ (pc'[t] = "try" => status'[t] = "ready")
        BY <1>1, <1>3, <1>8, <3>2, <4>1, <4>2, ConstantFacts DEF switch
      <4> QED BY <4>3 DEF At
    <3> QED BY <1>9, <3>1, <3>2
  <2>2. ASSUME NEW u \in Task, status'[u] # "ready"
        PROVE  pc'[u] \in {"try", "yield"} \/ Blocking(u)'
    <3>1. status[u] # "ready" /\ (pc[u] \in {"try", "yield"} \/ Blocking(u))
      BY <1>8, <2>2, ConstantFacts DEF StatusOK
    <3>2. CASE u # t
      BY <1>1, <1>3, <3>1, <3>2 DEF Blocking
    <3>3. CASE u = t
      BY <1>1, <1>3, <3>1, <3>3 DEF Blocking
    <3> QED BY <3>2, <3>3
  <2>3. ASSUME NEW u \in Task
        PROVE  (pc'[u] = "place" => then'[u] = "block") /\ (pc'[u] = "yield" => then'[u] = "again")
    BY <1>1, <1>3 DEF StatusOK
  <2> QED BY <1>8, <2>1, <2>2, <2>3, ConstantFacts DEF StatusOK
<1>12. SectionOK'
  <2>1. \A u \in Task : pc'[u] \notin Suspending
    BY <1>1, <1>3 DEF SectionOK, Suspending
  <2>2. ~At(Suspending)' /\ ~At({"check", "place"})' /\ ~At({"unlock"})'
    BY <1>10, <2>1 DEF At, Suspending
  <2>3. ~At({"check", "place"}) /\ ~At({"unlock"})
    BY <1>1 DEF At
  <2> QED BY <1>1, <2>1, <2>2, <2>3 DEF SectionOK, Locked
<1> QED BY <1>7, <1>10, <1>11, <1>12

LEMMA WaitingNext == Waiting /\ [Next]_vars => Waiting'
<1> SUFFICES ASSUME Waiting, [Next]_vars PROVE Waiting'
  OBVIOUS
<1>1. CASE UNCHANGED vars
  BY <1>1 DEF vars, queue, calls, scheduler, switch, Waiting, TypeOK, SectionOK, StatusOK, ListsOK,
     At, Locked, Blocking, BlockedOn
<1>2. CASE Tick
  BY <1>2, WaitingTick
<1>3. CASE \E o \in Operation \ {"peek"} : FromISR(o)
  BY <1>3, WaitingFromISR
<1>4. CASE \E t \in Task : xQueueGenericReset(t)
  BY <1>4, WaitingReset
<1>5. ASSUME NEW t \in Task,
             (\E o \in Operation, w \in Waits : Begin(t, o, w)) \/ Refuse(t) \/ Prepare(t)
             \/ vTaskSuspendAll(t) \/ prvLockQueue(t) \/ Check(t) \/ Fail(t)
      PROVE  Waiting'
  BY <1>5, WaitingCalls
<1>6. CASE \E t \in Task : Succeed(t)
  BY <1>6, WaitingSucceed
<1>7. CASE \E t \in Task : vTaskPlaceOnEventList(t)
  BY <1>7, WaitingPlace
<1>8. CASE \E t \in Task : prvUnlockQueue(t)
  BY <1>8, WaitingUnlock
<1>9. CASE \E t \in Task : xTaskResumeAll(t)
  BY <1>9, WaitingResume
<1>10. CASE \E t \in Task : portYIELD_WITHIN_API(t)
  BY <1>10, WaitingYield
<1> QED
  BY <1>1, <1>2, <1>3, <1>4, <1>5, <1>6, <1>7, <1>8, <1>9, <1>10 DEF Next, Proceed

THEOREM WaitingHolds == Spec => []Waiting
BY WaitingInit, WaitingNext, PTL DEF Spec

\* WaitersAreBlocked is an invariant: the lists have the tasks that are
\* blocked, each in the list of its call and once.
THEOREM BlockedInTheirLists == Spec => []WaitersAreBlocked
<1>1. Waiting => WaitersAreBlocked
  BY ContainsIsIn DEF Waiting, ListsOK, BlockedOn, IsList, WaitersAreBlocked
<1> QED BY <1>1, WaitingHolds, PTL

-----------------------------------------------------------------------------
(***************************************************************************)
(* Running.                                                                *)
(***************************************************************************)
\* HighestPriorityRuns, which has to hold with the scheduler suspended too.
Highest ==
    \/ xYieldPending
    \/ At({"yield"})
    \/ \A u \in AllTasks : status[u] = "ready" => uxPriority[u] <= uxPriority[pxCurrentTCB]

LEMMA HighestKept ==
    ASSUME Waiting, Highest, UNCHANGED pxCurrentTCB, xYieldPending => xYieldPending',
           At({"yield"}) => At({"yield"})',
           \A u \in AllTasks : status'[u] = "ready" => \/ status[u] = "ready"
                                                       \/ ~Preempts(u)
    PROVE  Highest'
<1>1. \A u \in AllTasks : uxPriority[u] \in Nat
  BY ConstantFacts
<1>2. pxCurrentTCB \in AllTasks
  BY DEF Waiting, TypeOK
<1> QED BY <1>1, <1>2 DEF Highest, Preempts

LEMMA HighestSwitched == Switched => Highest'
BY DEF Switched, Highest

\* A waiter is woken, and the processor given to it if it preempts.
LEMMA HighestServed ==
    ASSUME Waiting, Highest, NEW s \in Side, xTaskRemoveFromEventList(<<s, xTasksWaitingTo[s]>>),
           \/ Switched \/ xYieldPending'
           \/ UNCHANGED switch /\ ~WakesPreempter(<<s, xTasksWaitingTo[s]>>),
           At({"yield"}) => At({"yield"})' \/ Switched \/ xYieldPending'
    PROVE  Highest'
<1>1. CASE Switched
  BY <1>1, HighestSwitched
<1>2. CASE xYieldPending'
  BY <1>2 DEF Highest
<1>3. CASE ~Switched /\ ~xYieldPending'
  <2>1. UNCHANGED switch /\ ~WakesPreempter(<<s, xTasksWaitingTo[s]>>)
    BY <1>3
  <2>2. \A u \in AllTasks : status'[u] = "ready" => status[u] = "ready" \/ ~Preempts(u)
    <3>1. CASE xTasksWaitingTo[s] = <<>>
      BY <3>1, Wakes
    <3>2. CASE xTasksWaitingTo[s] # <<>>
      <4>1. ~Preempts(Head(xTasksWaitingTo[s]))
        BY <2>1, <3>2 DEF WakesPreempter
      <4>2. PICK h : h = Head(xTasksWaitingTo[s])
        OBVIOUS
      <4>3. \E new : status' = [status EXCEPT ![h] = new]
        BY <3>2, <4>2, Wakes
      <4> QED BY <4>1, <4>2, <4>3 DEF Waiting, TypeOK
    <3> QED BY <3>1, <3>2
  <2> QED BY <1>3, <2>1, <2>2, HighestKept DEF switch
<1> QED BY <1>1, <1>2, <1>3

\* Some tasks become ready because time passed, and some that were pending.
LEMMA HighestExpire ==
    ASSUME Waiting, Highest, NEW expired \in SUBSET CanExpire, NEW now \in [AllTasks -> Status],
           Expire(expired, {u \in expired : now[u] = "blocked"}, now),
           \A u \in AllTasks : now[u] = "ready" => status[u] = "ready" \/ ~Preempts(u),
           SwitchWanted({u \in expired : now[u] = "blocked"}) => expired = {},
           UNCHANGED switch, At({"yield"}) => At({"yield"})'
    PROVE  Highest'
<1>1. PICK late : late = {u \in expired : now[u] = "blocked"}
  OBVIOUS
<1>2. late \subseteq AllTasks
  BY <1>1, ConstantFacts DEF CanExpire
<1>3. \A u \in AllTasks : status'[u] = IF u \in late THEN "ready" ELSE now[u]
  BY <1>1 DEF Expire
<1>4. \A u \in late : ~Preempts(u)
  BY <1>1 DEF SwitchWanted
<1> QED BY <1>3, <1>4, HighestKept DEF switch

LEMMA HighestInit == Init => Highest
BY DEF Init, Highest

LEMMA HighestProceed ==
    ASSUME Waiting, Highest, NEW t \in Task,
           \/ \E o \in Operation, w \in Waits : Begin(t, o, w)
           \/ xQueueGenericReset(t)
           \/ Proceed(t)
    PROVE  Highest'
<1>1. CASE (\E o \in Operation, w \in Waits : Begin(t, o, w)) \/ Refuse(t) \/ Prepare(t)
           \/ vTaskSuspendAll(t) \/ prvLockQueue(t) \/ Check(t) \/ Fail(t)
  <2>1. UNCHANGED <<pxCurrentTCB, xYieldPending, status>> /\ ~At({"yield"})
    BY <1>1 DEF Begin, Refuse, Prepare, vTaskSuspendAll, prvLockQueue, Check, Fail, Running, At,
       scheduler, switch
  <2> QED BY <2>1, HighestKept
<1>2. CASE Succeed(t)
  <2>1. ~At({"yield"})
    BY <1>2 DEF Succeed, Running, At
  <2>2. PICK s \in Side : Served(op[t]) = <<s, xTasksWaitingTo[s]>>
    BY ServedSide
  <2>3. /\ xTaskRemoveFromEventList(<<s, xTasksWaitingTo[s]>>)
        /\ Switched \/ (UNCHANGED switch /\ ~WakesPreempter(<<s, xTasksWaitingTo[s]>>))
    BY <1>2, <2>2, Switches DEF Succeed
  <2> QED BY <2>1, <2>3, HighestServed
<1>3. CASE xQueueGenericReset(t)
  <2>1. ~At({"yield"})
    BY <1>3 DEF xQueueGenericReset, Running, At
  <2>2. "send" \in Side
    BY DEF Side
  <2>3. /\ xTaskRemoveFromEventList(<<"send", xTasksWaitingTo["send"]>>)
        /\ Switched
           \/ (UNCHANGED switch /\ ~WakesPreempter(<<"send", xTasksWaitingTo["send"]>>))
    BY <1>3, Switches DEF xQueueGenericReset
  <2> QED BY <2>1, <2>2, <2>3, HighestServed
<1>4. CASE vTaskPlaceOnEventList(t)
  <2>1. /\ UNCHANGED switch /\ ~At({"yield"})
        /\ status' = [status EXCEPT ![t] = "blocked"]
    BY <1>4 DEF vTaskPlaceOnEventList, Running, At
  <2> QED BY <2>1, HighestKept DEF switch, Waiting, TypeOK
<1>5. CASE prvUnlockQueue(t)
  <2>1. /\ UNCHANGED pxCurrentTCB /\ ~At({"yield"}) /\ (xYieldPending => xYieldPending')
        /\ \A u \in AllTasks : status'[u] \in {"pending", status[u]}
    BY <1>5 DEF prvUnlockQueue, Running, At
  <2> QED BY <2>1, HighestKept
<1>6. CASE portYIELD_WITHIN_API(t)
  <2>1. status' = status /\ vTaskSwitchContext(status)
    BY <1>6 DEF portYIELD_WITHIN_API, scheduler
  <2> QED BY <2>1, HighestSwitched DEF vTaskSwitchContext, Switched
<1>7. CASE xTaskResumeAll(t)
  <2>1. pxCurrentTCB = t /\ ~At({"yield"})
    BY <1>7 DEF xTaskResumeAll, Running, At
  <2>2. PICK drained : drained = {u \in Task : status[u] = "pending"}
    OBVIOUS
  <2>3. PICK now : now = [u \in AllTasks |-> IF u \in drained THEN "ready" ELSE status[u]]
    OBVIOUS
  <2>4. PICK expired \in SUBSET CanExpire :
            /\ Expire(expired, {u \in expired : now[u] = "blocked"}, now)
            /\ expired # {} => uxPendedTicks
            /\ \/ vTaskSwitchContext(status')
               \/ /\ ~\E u \in drained : Preempts(u)
                  /\ ~(uxPendedTicks /\ SwitchWanted({u \in expired : now[u] = "blocked"}))
                  /\ UNCHANGED switch
    BY <1>7, <2>2, <2>3 DEF xTaskResumeAll
  <2>5. CASE vTaskSwitchContext(status')
    BY <2>5, Switches, HighestSwitched
  <2>6. CASE ~vTaskSwitchContext(status')
    <3>1. now \in [AllTasks -> Status]
      BY <2>3 DEF Waiting, TypeOK, Status
    <3>2. \A u \in AllTasks : now[u] = "ready" => status[u] = "ready" \/ ~Preempts(u)
      BY <2>3, <2>4, <2>6
    <3>3. /\ SwitchWanted({u \in expired : now[u] = "blocked"}) => expired = {}
          /\ UNCHANGED switch
      BY <2>4, <2>6
    <3>4. Expire(expired, {u \in expired : now[u] = "blocked"}, now)
      BY <2>4
    <3> QED BY <2>1, <3>1, <3>2, <3>3, <3>4, HighestExpire
  <2> QED BY <2>5, <2>6
<1> QED BY <1>1, <1>2, <1>3, <1>4, <1>5, <1>6, <1>7 DEF Proceed

LEMMA HighestNext == Waiting /\ Highest /\ [Next]_vars => Highest'
<1> SUFFICES ASSUME Waiting, Highest, [Next]_vars PROVE Highest'
  OBVIOUS
<1>1. CASE UNCHANGED vars
  BY <1>1 DEF vars, calls, scheduler, switch, Highest, At
<1>2. CASE Tick
  <2>1. UNCHANGED pc
    BY <1>2 DEF Tick
  <2>2. CASE UNCHANGED <<status, switch>>
    BY <2>1, <2>2, HighestKept DEF switch, At
  <2>3. CASE vTaskSwitchContext(status')
    BY <2>3, Switches, HighestSwitched
  <2>4. CASE ~UNCHANGED <<status, switch>> /\ ~vTaskSwitchContext(status')
    <3>1. PICK expired \in SUBSET CanExpire :
              /\ Expire(expired, {u \in expired : status[u] = "blocked"}, status)
              /\ ~SwitchWanted({u \in expired : status[u] = "blocked"})
              /\ UNCHANGED switch
      BY <1>2, <2>4 DEF Tick
    <3>2. /\ status \in [AllTasks -> Status]
          /\ At({"yield"}) => At({"yield"})'
          /\ \A u \in AllTasks : status[u] = "ready" => status[u] = "ready" \/ ~Preempts(u)
      BY <2>1, <3>1 DEF Waiting, TypeOK, At, switch
    <3> QED BY <3>1, <3>2, HighestExpire
  <2> QED BY <2>2, <2>3, <2>4
<1>3. ASSUME NEW o \in Operation \ {"peek"}, FromISR(o) PROVE Highest'
  <2>1. UNCHANGED pc
    BY <1>3 DEF FromISR, calls
  <2>2. PICK s \in Side : Served(o) = <<s, xTasksWaitingTo[s]>>
    BY ServedSide
  <2>3. CASE UNCHANGED <<status, switch>>
    BY <2>1, <2>3, HighestKept DEF switch, At
  <2>4. CASE /\ xTaskRemoveFromEventList(<<s, xTasksWaitingTo[s]>>)
             /\ \/ Switched \/ xYieldPending'
                \/ UNCHANGED switch /\ ~WakesPreempter(<<s, xTasksWaitingTo[s]>>)
    <3>1. At({"yield"}) => At({"yield"})' \/ Switched \/ xYieldPending'
      BY <2>1, <2>4 DEF At, switch
    <3> QED BY <2>4, <3>1, HighestServed
  <2> QED BY <1>3, <2>2, <2>3, <2>4, Switches DEF FromISR
<1> QED BY <1>1, <1>2, <1>3, HighestProceed DEF Next

\* HighestPriorityRuns is an invariant: whoever is woken, by a task, an
\* interrupt, a tick or prvUnlockQueue, gets the processor at once or has a
\* switch pending if its priority is higher.
THEOREM HighestRuns == Spec => []HighestPriorityRuns
<1>1. Waiting /\ Highest => HighestPriorityRuns
  <2> SUFFICES ASSUME Waiting, Highest, ~uxSchedulerSuspended, ~xYieldPending, ~At({"yield"})
               PROVE  /\ status[pxCurrentTCB] = "ready"
                      /\ \A u \in AllTasks :
                            status[u] = "ready" => uxPriority[u] <= uxPriority[pxCurrentTCB]
    BY DEF HighestPriorityRuns, At
  <2>1. ~At({"try"}) => status[pxCurrentTCB] = "ready"
    BY ConstantFacts DEF Waiting, TypeOK, StatusOK, SectionOK, At, Blocking, Suspending, AllTasks
  <2>2. At({"try"}) => status[pxCurrentTCB] = "ready"
    BY DEF Waiting, StatusOK
  <2> QED BY <2>1, <2>2 DEF Highest
<1> QED BY <1>1, HighestInit, HighestNext, WaitingHolds, PTL DEF Spec

-----------------------------------------------------------------------------
\* Out of the section that locks the queue it is not locked.
LEMMA Unlocked ==
    ASSUME Waiting, ~At({"check", "place", "unlock"})
    PROVE  \A s \in Side : xLock[s] = queueUNLOCKED
BY DEF Waiting, SectionOK, Locked, At

\* What LockHoldsTheLists says of a side.
Held(s) ==
    xLock[Opposite(s)] # queueUNLOCKED /\ xLock[Opposite(s)]' # queueUNLOCKED =>
        \/ UNCHANGED xTasksWaitingTo[s]
        \/ xTasksWaitingTo[s]' = vListInsert(xTasksWaitingTo[s], pxCurrentTCB, EventValue)

LEMMA HeldNext ==
    ASSUME Waiting, [Next]_vars, NEW s \in Side
    PROVE  Held(s)
<1>1. Opposite(s) \in Side
  BY DEF Opposite, Side
<1>2. CASE UNCHANGED xTasksWaitingTo
  BY <1>2 DEF Held
<1>3. CASE ~At({"check", "place", "unlock"}) /\ UNCHANGED xLock
  BY <1>1, <1>3, Unlocked DEF Held
<1>4. CASE Tick
  <2>1. uxSchedulerSuspended => UNCHANGED xTasksWaitingTo
    BY <1>4 DEF Tick
  <2>2. ~uxSchedulerSuspended => ~At({"check", "place", "unlock"})
    BY DEF Waiting, SectionOK, At, Suspending
  <2>3. UNCHANGED xLock
    BY <1>4 DEF Tick
  <2> QED BY <1>2, <1>3, <2>1, <2>2, <2>3
<1>5. ASSUME NEW o \in Operation \ {"peek"}, FromISR(o) PROVE Held(s)
  <2>1. CASE Defers(SideOf(o))
    BY <1>2, <1>5, <2>1 DEF FromISR
  <2>2. CASE ~Defers(SideOf(o))
    <3>1. xTaskRemoveFromEventList(<<Other(o), xTasksWaitingTo[Other(o)]>>) /\ Other(o) \in Side
      BY <1>5, <2>2, ServedSide DEF FromISR
    <3>2. s # Other(o) => UNCHANGED xTasksWaitingTo[s]
      BY <3>1, Wakes
    <3>3. s = Other(o) => xLock[Opposite(s)] = queueUNLOCKED
      BY <2>2 DEF Defers, Other, Opposite, SideOf, Operation
    <3> QED BY <3>2, <3>3 DEF Held
  <2> QED BY <2>1, <2>2
<1>6. ASSUME NEW t \in Task,
             \/ \E o \in Operation, w \in Waits : Begin(t, o, w)
             \/ Refuse(t) \/ Prepare(t) \/ vTaskSuspendAll(t) \/ prvLockQueue(t) \/ Check(t)
             \/ Fail(t) \/ portYIELD_WITHIN_API(t)
      PROVE  Held(s)
  BY <1>2, <1>6 DEF Begin, Refuse, Prepare, vTaskSuspendAll, prvLockQueue, Check, Fail,
     portYIELD_WITHIN_API, queue
<1>7. ASSUME NEW t \in Task, Succeed(t) \/ xTaskResumeAll(t) PROVE Held(s)
  <2>1. ~At({"check", "place", "unlock"}) /\ UNCHANGED xLock
    BY <1>7 DEF Succeed, xTaskResumeAll, Running, At
  <2> QED BY <1>3, <2>1
<1>8. ASSUME NEW t \in Task, xQueueGenericReset(t) PROVE Held(s)
  <2>1. xLock' = [r \in Side |-> queueUNLOCKED]
    BY <1>8 DEF xQueueGenericReset
  <2> QED BY <1>1, <2>1 DEF Held
<1>9. ASSUME NEW t \in Task, vTaskPlaceOnEventList(t) PROVE Held(s)
  <2>1. pxCurrentTCB = t /\ xTasksWaitingTo \in [Side -> Seq(Task)]
    BY <1>9 DEF vTaskPlaceOnEventList, Running, Waiting, TypeOK
  <2>2. xTasksWaitingTo' = [xTasksWaitingTo EXCEPT ![SideOf(op[t])] = vListInsert(@, t, EventValue)]
    BY <1>9 DEF vTaskPlaceOnEventList
  <2>3. \/ UNCHANGED xTasksWaitingTo[s]
        \/ xTasksWaitingTo[s]' = vListInsert(xTasksWaitingTo[s], t, EventValue)
    BY <2>1, <2>2
  <2> QED BY <2>1, <2>3 DEF Held
<1>10. ASSUME NEW t \in Task, prvUnlockQueue(t) PROVE Held(s)
  <2>1. PICK new : xTasksWaitingTo' = [xTasksWaitingTo EXCEPT ![Opposite(unlocking)] = new]
    BY <1>10 DEF prvUnlockQueue
  <2>2. xLock' = [xLock EXCEPT ![unlocking] = queueUNLOCKED]
    BY <1>10 DEF prvUnlockQueue
  <2>3. CASE s = Opposite(unlocking)
    <3>1. Opposite(s) = unlocking
      BY <2>3 DEF Opposite, Side, Waiting, TypeOK
    <3> QED BY <2>2, <3>1 DEF Held, Waiting, TypeOK
  <2>4. CASE s # Opposite(unlocking)
    BY <2>1, <2>4 DEF Held, Waiting, TypeOK
  <2> QED BY <2>3, <2>4
<1>11. CASE UNCHANGED vars
  BY <1>2, <1>11 DEF vars, queue
<1> QED BY <1>4, <1>5, <1>6, <1>7, <1>8, <1>9, <1>10, <1>11 DEF Next, Proceed

\* LockHoldsTheLists: while a side of the queue stays locked, only the task
\* that locked it touches the side's list, and only to enter it.
THEOREM ListsHeld == Spec => LockHoldsTheLists
<1>1. Waiting /\ [Next]_vars => [\A s \in Side : Held(s)]_vars
  BY HeldNext
<1>2. [\A s \in Side : Held(s)]_vars =>
      [\A s \in Side :
          xLock[Opposite(s)] # queueUNLOCKED /\ xLock[Opposite(s)]' # queueUNLOCKED =>
              \/ UNCHANGED xTasksWaitingTo[s]
              \/ xTasksWaitingTo[s]' =
                     vListInsert(xTasksWaitingTo[s], pxCurrentTCB, EventValue)]_vars
  BY DEF Held
<1> QED BY <1>1, <1>2, WaitingHolds, PTL DEF Spec, LockHoldsTheLists

-----------------------------------------------------------------------------
(***************************************************************************)
(* Counting.                                                               *)
(***************************************************************************)
LEMMA FirstItemsCount ==
    ASSUME NEW S, NEW s, IsList(s, S), NEW n \in 0..Len(s)
    PROVE  IsFiniteSet(FirstItems(s, n)) /\ Cardinality(FirstItems(s, n)) = n
<1>1. s \in Seq(S) /\ Len(s) \in Nat /\ n \in Nat /\ \A i, j \in 1..n : s[i] = s[j] => i = j
  BY LenProperties DEF IsList, NoRepeats
<1> DEFINE f == [i \in 1..n |-> s[i]]
<1>2. f \in Bijection(1..n, FirstItems(s, n))
  BY <1>1 DEF FirstItems, Bijection, Injection, Surjection, IsInjective
<1>3. ExistsBijection(1..n, FirstItems(s, n))
  BY <1>2 DEF ExistsBijection
<1> QED BY <1>1, <1>3, FS_CountingElements, FS_Interval, FS_Bijection

\* A set of tasks after one left it and others came.
LEMMA Counts ==
    ASSUME NEW A \in SUBSET Task, NEW B \in SUBSET Task
    PROVE  /\ Cardinality(A) \in Nat /\ Cardinality(B) \in Nat
           /\ A \subseteq B => Cardinality(A) <= Cardinality(B)
           /\ \A x : A \ {x} \subseteq B => Cardinality(A) <= Cardinality(B) + 1
           /\ \A x \in B : x \notin A /\ A \subseteq B => Cardinality(A) + 1 <= Cardinality(B)
           /\ \A x : \A y \in B : y \notin A /\ A \ {x} \subseteq B =>
                  Cardinality(A) <= Cardinality(B)
           /\ \A W : W \subseteq B /\ W \cap A = {} /\ A \subseteq B =>
                  Cardinality(A) + Cardinality(W) <= Cardinality(B)
<1>1. IsFiniteSet(A) /\ IsFiniteSet(B)
  BY ConstantFacts, FS_Subset
<1>2. Cardinality(A) \in Nat /\ Cardinality(B) \in Nat
  BY <1>1, FS_CardinalityType
<1>3. A \subseteq B => Cardinality(A) <= Cardinality(B)
  BY <1>1, FS_Subset
<1>4. ASSUME NEW x, A \ {x} \subseteq B PROVE Cardinality(A) <= Cardinality(B) + 1
  <2>1. /\ IsFiniteSet(A \ {x}) /\ Cardinality(A \ {x}) <= Cardinality(B)
    BY <1>1, <1>4, FS_Subset
  <2>2. Cardinality(A \ {x}) = IF x \in A THEN Cardinality(A) - 1 ELSE Cardinality(A)
    BY <1>1, FS_RemoveElement
  <2> QED BY <1>2, <2>1, <2>2
<1>5. ASSUME NEW x \in B, x \notin A, A \subseteq B
      PROVE  Cardinality(A) + 1 <= Cardinality(B)
  <2>1. Cardinality(A \cup {x}) = Cardinality(A) + 1
    BY <1>1, <1>5, FS_AddElement
  <2>2. Cardinality(A \cup {x}) <= Cardinality(B)
    BY <1>1, <1>5, FS_Subset
  <2> QED BY <2>1, <2>2
<1>6. ASSUME NEW x, NEW y \in B, y \notin A, A \ {x} \subseteq B
      PROVE  Cardinality(A) <= Cardinality(B)
  <2>1. Cardinality(B \ {y}) = Cardinality(B) - 1 /\ IsFiniteSet(B \ {y})
    BY <1>1, FS_RemoveElement
  <2>2. Cardinality(A \ {x}) <= Cardinality(B \ {y})
    BY <1>6, <2>1, FS_Subset
  <2>3. Cardinality(A \ {x}) = IF x \in A THEN Cardinality(A) - 1 ELSE Cardinality(A)
    BY <1>1, FS_RemoveElement
  <2> QED BY <1>2, <2>1, <2>2, <2>3
<1>7. ASSUME NEW W, W \subseteq B, W \cap A = {}, A \subseteq B
      PROVE  Cardinality(A) + Cardinality(W) <= Cardinality(B)
  <2>1. IsFiniteSet(W) /\ Cardinality(W) \in Nat
    BY <1>1, <1>7, FS_Subset, FS_CardinalityType
  <2>2. Cardinality(A \cup W) = Cardinality(A) + Cardinality(W) - Cardinality({})
    BY <1>1, <1>7, <2>1, FS_Union
  <2>3. Cardinality(A \cup W) <= Cardinality(B)
    BY <1>1, <1>7, FS_Subset
  <2> QED BY <1>2, <2>1, <2>2, <2>3, FS_EmptySet
<1> QED BY <1>2, <1>3, <1>4, <1>5, <1>6, <1>7

\* A side is wanted by the tasks in its list and by one about to enter it.
Wanted(s) == xTasksWaitingTo[s] # <<>> \/ (At({"place"}) /\ SideOf(op[pxCurrentTCB]) = s)

\* The operations of a side that the queue has room, or items, for.
Places(s) == IF s = "receive" THEN uxMessagesWaiting ELSE uxLength - uxMessagesWaiting

EnoughFor(s) == Wanted(s) => Places(s) <= Cardinality(Awake(s)) + Deferred(Opposite(s))

OverwritesOne == \A t \in Task : op[t] = "overwrite" => uxLength = 1

Counting == OverwritesOne /\ \A s \in Side : EnoughFor(s)

CountsTyped ==
    \A s \in Side : /\ Opposite(s) \in Side /\ Places(s) \in Nat
                    /\ Deferred(Opposite(s)) \in Nat
                    /\ Awake(s) \in SUBSET Task /\ Cardinality(Awake(s)) \in Nat

LEMMA CountTypes == Waiting => CountsTyped
<1> SUFFICES ASSUME Waiting, NEW s \in Side
             PROVE  /\ Opposite(s) \in Side /\ Places(s) \in Nat
                    /\ Deferred(Opposite(s)) \in Nat
                    /\ Awake(s) \in SUBSET Task /\ Cardinality(Awake(s)) \in Nat
  BY DEF CountsTyped
<1>1. Opposite(s) \in Side
  BY DEF Opposite, Side
<1>2. Places(s) \in Nat
  BY ConstantFacts DEF Waiting, TypeOK, Places
<1>3. Deferred(Opposite(s)) \in Nat
  BY <1>1 DEF Waiting, TypeOK, Deferred, queueUNLOCKED, queueLOCKED_UNMODIFIED
<1>4. Awake(s) \in SUBSET Task
  BY DEF Awake
<1> QED BY <1>1, <1>2, <1>3, <1>4, Counts

\* What a step may do to the numbers of a side.
LEMMA EnoughAfter ==
    ASSUME Waiting, Waiting', NEW s \in Side, EnoughFor(s),
           Wanted(s)' =>
               \/ Places(s)' = 0
               \/ /\ Wanted(s)
                  /\ Places(s)' + Cardinality(Awake(s)) + Deferred(Opposite(s)) <=
                         Places(s) + Cardinality(Awake(s))' + Deferred(Opposite(s))'
    PROVE  EnoughFor(s)'
<1>1. CountsTyped /\ CountsTyped'
  BY CountTypes, PTL
<1>2. /\ Places(s) \in Nat /\ Cardinality(Awake(s)) \in Nat /\ Deferred(Opposite(s)) \in Nat
      /\ Places(s)' \in Nat /\ Cardinality(Awake(s))' \in Nat /\ Deferred(Opposite(s))' \in Nat
  BY <1>1 DEF CountsTyped
<1> QED BY <1>1, <1>2 DEF EnoughFor

LEMMA EnoughQuiet ==
    ASSUME Waiting, Waiting', NEW s \in Side, EnoughFor(s),
           Wanted(s)' => Places(s)' = 0 \/ Wanted(s),
           Awake(s) \subseteq Awake(s)', Places(s)' <= Places(s),
           Deferred(Opposite(s)) <= Deferred(Opposite(s))'
    PROVE  EnoughFor(s)'
<1>1. CountsTyped /\ CountsTyped'
  BY CountTypes, PTL
<1>2. /\ Places(s) \in Nat /\ Deferred(Opposite(s)) \in Nat
      /\ Places(s)' \in Nat /\ Deferred(Opposite(s))' \in Nat
      /\ Awake(s) \in SUBSET Task /\ Awake(s)' \in SUBSET Task
  BY <1>1 DEF CountsTyped
<1>3. /\ Cardinality(Awake(s)) <= Cardinality(Awake(s))'
      /\ Cardinality(Awake(s)) \in Nat /\ Cardinality(Awake(s))' \in Nat
  BY <1>2, Counts
<1> QED BY <1>2, <1>3, EnoughAfter

LEMMA CountingInit == Init => Counting
<1> SUFFICES ASSUME Init PROVE Counting
  OBVIOUS
<1>1. \A s \in Side : ~Wanted(s)
  BY DEF Init, Wanted, At
<1> QED BY <1>1 DEF Init, Counting, OverwritesOne, EnoughFor

\* A call goes on, with the queue, its lists and the scheduler's states as they were.
LEMMA CountingCalls ==
    ASSUME Waiting, Waiting', Counting, NEW t \in Task,
           \/ \E o \in Operation, w \in Waits : Begin(t, o, w)
           \/ Refuse(t) \/ Prepare(t) \/ vTaskSuspendAll(t) \/ prvLockQueue(t) \/ Check(t)
           \/ Fail(t) \/ portYIELD_WITHIN_API(t)
    PROVE  \A s \in Side : EnoughFor(s)'
<1> SUFFICES ASSUME NEW s \in Side PROVE EnoughFor(s)'
  OBVIOUS
<1> USE DEF Waiting, TypeOK, Running, GoTo
<1>1. /\ pxCurrentTCB = t /\ UNCHANGED <<xTasksWaitingTo, status, uxMessagesWaiting>>
      /\ \A u \in Task : u # t => pc'[u] = pc[u] /\ op'[u] = op[u] /\ then'[u] = then[u]
  BY DEF Begin, Refuse, Prepare, vTaskSuspendAll, prvLockQueue, Check, Fail, Return,
     portYIELD_WITHIN_API, queue, scheduler
<1>2. Places(s)' = Places(s) /\ EnoughFor(s) /\ Opposite(s) \in Side
  BY <1>1 DEF Places, Counting, Opposite, Side
<1>3. \A u \in Task : u # t => (u \in Awake(s) <=> u \in Awake(s)')
  BY <1>1 DEF Awake
<1>4. Places(s) \in Nat /\ Deferred(Opposite(s)) \in Nat
  BY CountTypes DEF CountsTyped
<1>5. CASE Refuse(t) \/ Prepare(t)
  <2>1. pc[t] = "try" /\ ~Possible(op[t]) /\ UNCHANGED <<xLock, pxCurrentTCB>>
    BY <1>5 DEF Refuse, Prepare, queue, scheduler, switch
  <2>2. ~At({"place"})'
    BY <1>1, <1>5, <2>1 DEF Refuse, Prepare, Return, At
  <2>3. Wanted(s)' => Wanted(s)
    BY <1>1, <2>2 DEF Wanted
  <2>4. CASE s = SideOf(op[t])
    <3>1. Places(s) = 0
      BY <2>1, <2>4, ConstantFacts DEF Possible, SideOf, Places, Operation
    <3> QED BY <1>2, <2>3, <3>1, EnoughAfter
  <2>5. CASE s # SideOf(op[t])
    <3>1. t \notin Awake(s)
      BY <2>5 DEF Awake
    <3>2. Awake(s) \subseteq Awake(s)'
      BY <1>3, <3>1 DEF Awake
    <3>3. Deferred(Opposite(s))' = Deferred(Opposite(s))
      BY <2>1 DEF Deferred
    <3> HIDE DEF Waiting, TypeOK
      <3> QED BY <1>2, <1>4, <2>3, <3>2, <3>3, EnoughQuiet
  <2> QED BY <2>4, <2>5
<1>6. CASE Check(t)
  <2>1. /\ UNCHANGED <<xLock, pxCurrentTCB, op>> /\ pc[t] = "check"
        /\ pc'[t] = IF Verdict(t) = "block" THEN "place" ELSE "unlock"
    BY <1>6 DEF Check, queue, scheduler, switch
  <2>2. Awake(s) \subseteq Awake(s)'
    BY <1>3, <2>1 DEF Awake
  <2>3. Deferred(Opposite(s))' = Deferred(Opposite(s))
    BY <2>1 DEF Deferred
  <2>4. Wanted(s)' => Places(s)' = 0 \/ Wanted(s)
    <3>1. CASE At({"place"})' /\ SideOf(op[t]) = s
      <4>1. ~Possible(op[t])
        BY <1>1, <2>1, <3>1 DEF At, Verdict
      <4>2. Places(s) = 0
        BY <3>1, <4>1, ConstantFacts DEF Possible, SideOf, Places, Operation
      <4> QED BY <1>2, <4>2
    <3>2. CASE ~(At({"place"})' /\ SideOf(op[t]) = s)
      BY <1>1, <2>1, <3>2 DEF Wanted
    <3> QED BY <3>1, <3>2
  <2> HIDE DEF Waiting, TypeOK
  <2> QED BY <1>2, <1>4, <2>2, <2>3, <2>4, EnoughQuiet
<1>7. CASE (\E o \in Operation, w \in Waits : Begin(t, o, w)) \/ vTaskSuspendAll(t)
           \/ prvLockQueue(t) \/ Fail(t) \/ portYIELD_WITHIN_API(t)
  <2>1. /\ pc[t] \in {"out", "suspend", "lock", "over", "yield"} /\ UNCHANGED then
        /\ pc'[t] \in {"try", "lock", "check", "out"}
        /\ pc[t] = "yield" => pc'[t] = "try" /\ op' = op
    BY <1>7 DEF Begin, vTaskSuspendAll, prvLockQueue, Fail, Return, portYIELD_WITHIN_API
  <2>2. Awake(s) \subseteq Awake(s)'
    BY <1>1, <1>3, <2>1 DEF Awake
  <2>3. Wanted(s)' => Wanted(s)
    <3>1. \A u \in Task : pc'[u] = "place" => pc[u] = "place" /\ u = t
      BY <1>1, <2>1 DEF SectionOK, Suspending
    <3> QED BY <1>1, <2>1, <3>1 DEF Wanted, At
  <2>4. Deferred(Opposite(s))' = Deferred(Opposite(s))
    <3>1. CASE prvLockQueue(t)
      BY <1>2, <3>1 DEF prvLockQueue, Deferred, queueUNLOCKED, queueLOCKED_UNMODIFIED
    <3>2. CASE UNCHANGED xLock
      BY <3>2 DEF Deferred
    <3> QED BY <1>7, <3>1, <3>2 DEF Begin, vTaskSuspendAll, Fail, portYIELD_WITHIN_API, queue
  <2> HIDE DEF Waiting, TypeOK
  <2> QED BY <1>2, <1>4, <2>2, <2>3, <2>4, EnoughQuiet
<1> QED BY <1>5, <1>6, <1>7

LEMMA CountingPlace ==
    ASSUME Waiting, Waiting', Counting, NEW t \in Task, vTaskPlaceOnEventList(t)
    PROVE  \A s \in Side : EnoughFor(s)'
<1> SUFFICES ASSUME NEW s \in Side PROVE EnoughFor(s)'
  OBVIOUS
<1>1. /\ pxCurrentTCB = t /\ pc[t] = "place" /\ pc \in [Task -> Place]
      /\ status \in [AllTasks -> Status] /\ xTasksWaitingTo \in [Side -> Seq(Task)]
      /\ xTasksWaitingTo' = [xTasksWaitingTo EXCEPT ![SideOf(op[t])] =
                                vListInsert(@, t, EventValue)]
      /\ pc' = [pc EXCEPT ![t] = "unlock"] /\ status' = [status EXCEPT ![t] = "blocked"]
      /\ UNCHANGED <<uxMessagesWaiting, xLock, op, then, pxCurrentTCB>>
  BY DEF vTaskPlaceOnEventList, Running, GoTo, switch, Waiting, TypeOK
<1>2. Wanted(s)' => Wanted(s)
  BY <1>1 DEF Wanted, At
<1>3. Awake(s) \subseteq Awake(s)'
  BY <1>1, ConstantFacts DEF Awake
<1>4. Places(s)' <= Places(s) /\ Deferred(Opposite(s)) <= Deferred(Opposite(s))'
  <2>1. Places(s)' = Places(s) /\ Deferred(Opposite(s))' = Deferred(Opposite(s))
    BY <1>1 DEF Places, Deferred
  <2> QED BY <2>1, CountTypes DEF CountsTyped
<1> QED BY <1>2, <1>3, <1>4, EnoughQuiet DEF Counting

LEMMA CountingUnlock ==
    ASSUME Waiting, Waiting', Counting, NEW t \in Task, prvUnlockQueue(t)
    PROVE  \A s \in Side : EnoughFor(s)'
<1> SUFFICES ASSUME NEW s \in Side PROVE EnoughFor(s)'
  OBVIOUS
<1>1. /\ pxCurrentTCB = t /\ pc[t] = "unlock" /\ pc \in [Task -> Place]
      /\ pc' \in [Task -> Place] /\ xLock \in [Side -> Nat \cup {queueUNLOCKED}]
      /\ status \in [AllTasks -> Status] /\ xTasksWaitingTo \in [Side -> Seq(Task)]
      /\ xLock' = [xLock EXCEPT ![unlocking] = queueUNLOCKED]
      /\ \A u \in Task : pc'[u] = pc[u] \/ (u = t /\ pc'[u] = "resume")
      /\ UNCHANGED <<uxMessagesWaiting, op, then, pxCurrentTCB>> /\ unlocking \in Side
  BY DEF prvUnlockQueue, Running, GoTo, Waiting, TypeOK
<1>2. PICK r \in Side : r = Opposite(unlocking) /\ Opposite(r) = unlocking
  BY <1>1 DEF Opposite, Side
<1>3. xLock[unlocking] \in Nat
  BY <1>1 DEF Waiting, SectionOK, Locked, At, Side
<1>4. PICK n \in 0..Len(xTasksWaitingTo[r]) :
          /\ n = Replayed(xLock[unlocking], xTasksWaitingTo[r])
          /\ n = xLock[unlocking] \/ n = Len(xTasksWaitingTo[r])
  <2>1. Len(xTasksWaitingTo[r]) \in Nat
    BY <1>1, LenProperties
  <2> QED BY <1>3, <2>1 DEF Replayed
<1>5. PICK woken : woken = FirstItems(xTasksWaitingTo[r], n)
  OBVIOUS
<1>6. /\ xTasksWaitingTo' = [xTasksWaitingTo EXCEPT ![r] = ItemsAfter(xTasksWaitingTo[r], n)]
      /\ status' = [u \in AllTasks |-> IF u \in woken THEN "pending" ELSE status[u]]
  BY <1>2, <1>4, <1>5 DEF prvUnlockQueue, ItemsAfter, FirstItems
<1>7. IsList(xTasksWaitingTo[r], Task) /\ ToSet(xTasksWaitingTo[r]) = BlockedOn(r)
  BY DEF Waiting, ListsOK
<1>8. /\ woken \subseteq BlockedOn(r) /\ IsFiniteSet(woken) /\ Cardinality(woken) = n
      /\ ItemsAfter(xTasksWaitingTo[r], n) = <<>> <=> n = Len(xTasksWaitingTo[r])
  BY <1>4, <1>5, <1>7, SuffixList, FirstItemsCount
<1>9. ~At({"place"})' /\ Places(s)' = Places(s)
  BY <1>1 DEF At, Places
<1>10. Awake(s) \subseteq Awake(s)'
  <2>1. \A u \in Task : status[u] # "blocked" => status'[u] # "blocked"
    BY <1>6, ConstantFacts
  <2> QED BY <1>1, <2>1 DEF Awake
<1>11. CASE s # r
  <2>1. Wanted(s)' => Wanted(s)
    BY <1>1, <1>6, <1>9, <1>11 DEF Wanted
  <2>2. Deferred(Opposite(s))' = Deferred(Opposite(s))
    BY <1>1, <1>2, <1>11 DEF Deferred, Opposite, Side
  <2> QED BY <1>9, <1>10, <2>1, <2>2, EnoughQuiet, CountTypes DEF Counting, CountsTyped
<1>12. CASE s = r
  <2>1. CASE n = Len(xTasksWaitingTo[r])
    BY <1>1, <1>6, <1>8, <1>9, <1>12, <2>1, EnoughAfter DEF Wanted, Counting
  <2>2. CASE n # Len(xTasksWaitingTo[r])
    <3>1. n = xLock[unlocking] /\ xTasksWaitingTo[s] # <<>>
      BY <1>4, <1>12, <2>2, EmptySeq
    <3>2. Deferred(Opposite(s)) = n /\ Deferred(Opposite(s))' = 0
      BY <1>1, <1>2, <1>3, <1>12, <3>1
         DEF Deferred, queueUNLOCKED, queueLOCKED_UNMODIFIED
    <3>3. woken \subseteq Awake(s)' /\ woken \cap Awake(s) = {}
      <4>1. ASSUME NEW u \in woken
            PROVE  /\ u \in Task /\ status[u] = "blocked" /\ SideOf(op[u]) = s
                   /\ status'[u] = "pending"
                   /\ pc[u] \in {"try", "yield"} \/ Blocking(u)
                   /\ pc[u] = "yield" => then[u] = "again"
        BY <1>6, <1>8, <1>12, ConstantFacts DEF BlockedOn, Waiting, StatusOK
      <4>2. ASSUME NEW u \in woken PROVE u \in Awake(s)' /\ u \notin Awake(s)
        BY <1>1, <4>1 DEF Awake, Blocking
      <4> QED BY <4>2
    <3>4. /\ Awake(s) \in SUBSET Task /\ Awake(s)' \in SUBSET Task
          /\ Cardinality(Awake(s)) \in Nat /\ Cardinality(Awake(s))' \in Nat
          /\ Places(s) \in Nat
      <4>1. CountsTyped /\ CountsTyped'
        BY CountTypes, PTL
      <4> QED BY <4>1 DEF CountsTyped
    <3>5. Cardinality(Awake(s)) + n <= Cardinality(Awake(s))'
      BY <1>8, <1>10, <3>3, <3>4, Counts
    <3>6. Wanted(s)
      BY <3>1 DEF Wanted
    <3> QED BY <1>9, <3>2, <3>4, <3>5, <3>6, EnoughAfter DEF Counting
  <2> QED BY <2>1, <2>2
<1> QED BY <1>11, <1>12

\* Time passes: tasks that are late leave the lists and are awake.
LEMMA CountingExpire ==
    ASSUME Waiting, Waiting', Counting, NEW expired, NEW late \in SUBSET Task,
           NEW now \in [AllTasks -> Status],
           \A u \in AllTasks : now[u] = "blocked" <=> status[u] = "blocked",
           Expire(expired, late, now),
           UNCHANGED <<uxMessagesWaiting, xLock, op>>, ~At({"place"})',
           \A u \in Task : \/ pc'[u] = pc[u] /\ then'[u] = then[u]
                           \/ pc[u] = "resume" /\ then[u] = "fail"
                           \/ pc'[u] \in {"try", "yield"} /\ then'[u] = "again"
    PROVE  \A s \in Side : EnoughFor(s)'
<1> SUFFICES ASSUME NEW s \in Side PROVE EnoughFor(s)'
  OBVIOUS
<1>1. /\ \A u \in AllTasks : status'[u] = IF u \in late THEN "ready" ELSE now[u]
      /\ xTasksWaitingTo'[s] = Without(xTasksWaitingTo[s], late)
  BY WaitingExpire
<1>2. Awake(s) \subseteq Awake(s)'
  <2>1. \A u \in Task : status[u] # "blocked" => status'[u] # "blocked"
    BY <1>1, ConstantFacts
  <2> QED BY <2>1 DEF Awake
<1>3. Wanted(s)' => Wanted(s)
  <2>1. IsList(xTasksWaitingTo[s], Task)
    BY DEF Waiting, ListsOK
  <2>2. /\ Without(xTasksWaitingTo[s], late) \in Seq(Task)
        /\ ToSet(Without(xTasksWaitingTo[s], late)) \subseteq ToSet(xTasksWaitingTo[s])
    BY <2>1, WithoutList DEF IsList
  <2>3. xTasksWaitingTo[s] = <<>> => Without(xTasksWaitingTo[s], late) = <<>>
    <3>1. xTasksWaitingTo[s] = <<>> <=> ToSet(xTasksWaitingTo[s]) = {}
      BY <2>1, EmptyByItems DEF IsList
    <3>2. Without(xTasksWaitingTo[s], late) = <<>>
          <=> ToSet(Without(xTasksWaitingTo[s], late)) = {}
      BY <2>2, EmptyByItems
    <3> QED BY <2>2, <3>1, <3>2
  <2> QED BY <1>1, <2>3 DEF Wanted
<1>4. Places(s)' = Places(s) /\ Deferred(Opposite(s))' = Deferred(Opposite(s))
  BY DEF Places, Deferred
<1>5. Places(s) \in Nat /\ Deferred(Opposite(s)) \in Nat
  BY CountTypes DEF CountsTyped
<1> QED BY <1>2, <1>3, <1>4, <1>5, EnoughQuiet DEF Counting

LEMMA CountingTime ==
    ASSUME Waiting, Waiting', Counting, Tick \/ \E t \in Task : xTaskResumeAll(t)
    PROVE  \A s \in Side : EnoughFor(s)'
<1>1. /\ pc \in [Task -> Place] /\ then \in [Task -> {"block", "again", "fail"}]
      /\ status \in [AllTasks -> Status] /\ pxCurrentTCB' \in AllTasks /\ status[Idle] = "ready"
  BY DEF Waiting, TypeOK, StatusOK
<1>2. ASSUME NEW t \in Task, xTaskResumeAll(t) PROVE \A s \in Side : EnoughFor(s)'
  <2>1. PICK now : now = [u \in AllTasks |-> IF u \in {v \in Task : status[v] = "pending"}
                                            THEN "ready" ELSE status[u]]
    OBVIOUS
  <2>2. PICK expired \in SUBSET CanExpire :
            /\ Expire(expired, {u \in expired : now[u] = "blocked"}, now)
            /\ \/ pc' = [pc EXCEPT ![t] = "over"] /\ then[t] = "fail"
               \/ pc' = [pc EXCEPT ![t] = "try"]
               \/ pc' = [pc EXCEPT ![t] = "yield"]
    BY <1>2, <2>1 DEF xTaskResumeAll, GoTo
  <2>3. PICK late : late = {u \in expired : now[u] = "blocked"}
    OBVIOUS
  <2>4. /\ now \in [AllTasks -> Status]
        /\ \A u \in AllTasks : now[u] = "blocked" <=> status[u] = "blocked"
    <3>1. now \in [AllTasks -> Status]
      BY <1>1, <2>1 DEF Status
    <3> QED BY <2>1, <3>1
  <2>5. late \in SUBSET Task /\ Expire(expired, late, now)
    BY <2>2, <2>3 DEF CanExpire
  <2>6. /\ pc[t] = "resume" /\ then' = [then EXCEPT ![t] = "again"]
        /\ UNCHANGED <<uxMessagesWaiting, xLock, op>>
    BY <1>2 DEF xTaskResumeAll, Running
  <2>7. \A u \in Task : pc'[u] # "place"
    <3>1. \A u \in Task : u # t => pc[u] # "place"
      BY <1>2 DEF xTaskResumeAll, Running, Waiting, SectionOK, Suspending
    <3> QED BY <1>1, <2>2, <3>1
  <2>8. \A u \in Task : \/ pc'[u] = pc[u] /\ then'[u] = then[u]
                        \/ pc[u] = "resume" /\ then[u] = "fail"
                        \/ pc'[u] \in {"try", "yield"} /\ then'[u] = "again"
    BY <1>1, <2>2, <2>6
  <2>9. ~At({"place"})'
    BY <2>7 DEF At
  <2> QED BY <2>4, <2>5, <2>6, <2>8, <2>9, CountingExpire
<1>3. CASE Tick /\ UNCHANGED <<xTasksWaitingTo, status, switch>>
  <2> SUFFICES ASSUME NEW s \in Side PROVE EnoughFor(s)'
    OBVIOUS
  <2>1. UNCHANGED <<uxMessagesWaiting, xLock, pc, op, then>>
    BY <1>3 DEF Tick
  <2>2. Wanted(s)' = Wanted(s) /\ Awake(s)' = Awake(s)
    BY <1>3, <2>1 DEF Wanted, Awake, At, switch
  <2>3. Places(s)' = Places(s) /\ Deferred(Opposite(s))' = Deferred(Opposite(s))
    BY <2>1 DEF Places, Deferred
  <2> QED BY <2>2, <2>3, EnoughQuiet, CountTypes DEF Counting, CountsTyped
<1>4. CASE Tick /\ ~UNCHANGED <<xTasksWaitingTo, status, switch>>
  <2>1. UNCHANGED <<uxMessagesWaiting, xLock, pc, op, then>>
    BY <1>4 DEF Tick
  <2>2. PICK expired \in SUBSET CanExpire :
            /\ Expire(expired, {u \in expired : status[u] = "blocked"}, status)
            /\ ~uxSchedulerSuspended
    BY <1>4 DEF Tick
  <2>3. PICK late : late = {u \in expired : status[u] = "blocked"}
    OBVIOUS
  <2>4. late \in SUBSET Task /\ Expire(expired, late, status)
    BY <2>2, <2>3 DEF CanExpire
  <2>5. ~At({"place"})'
    BY <2>1, <2>2 DEF At, Waiting, SectionOK, Suspending
  <2> HIDE <1>4
  <2>6. \A u \in AllTasks : status[u] = "blocked" <=> status[u] = "blocked"
    OBVIOUS
  <2>7. \A u \in Task : \/ pc'[u] = pc[u] /\ then'[u] = then[u]
                        \/ pc[u] = "resume" /\ then[u] = "fail"
                        \/ pc'[u] \in {"try", "yield"} /\ then'[u] = "again"
    BY <2>1
  <2>8. status \in [AllTasks -> Status] /\ UNCHANGED <<uxMessagesWaiting, xLock, op>>
    BY <1>1, <2>1
  <2> QED BY <2>4, <2>5, <2>6, <2>7, <2>8, CountingExpire
<1> QED BY <1>2, <1>3, <1>4

LEMMA CountingFromISR ==
    ASSUME Waiting, Waiting', Counting, NEW o \in Operation \ {"peek"}, FromISR(o)
    PROVE  \A s \in Side : EnoughFor(s)'
<1> SUFFICES ASSUME NEW s \in Side PROVE EnoughFor(s)'
  OBVIOUS
<1>1. /\ UNCHANGED <<pc, op, wait, time, then>>
      /\ o = "overwrite" => uxLength = 1
      /\ uxMessagesWaiting' = CountAfter(o) /\ Possible(o)
      /\ pxCurrentTCB \in AllTasks /\ xLock \in [Side -> Nat \cup {queueUNLOCKED}]
      /\ status \in [AllTasks -> Status]
  BY QueueAssumption DEF FromISR, calls, Waiting, TypeOK
<1>2. /\ SideOf(o) \in Side /\ Other(o) \in Side /\ Opposite(Other(o)) = SideOf(o)
      /\ Other(o) # SideOf(o) /\ (s = SideOf(o) \/ s = Other(o))
  BY DEF SideOf, Other, Opposite, Side, Operation
<1>3. /\ Places(s) \in Nat /\ Deferred(Opposite(s)) \in Nat /\ Opposite(s) \in Side
      /\ Cardinality(Awake(s)) \in Nat
  BY CountTypes DEF CountsTyped
<1>4. /\ s = SideOf(o) => Places(s)' <= Places(s)
      /\ s = Other(o) => Places(s)' <= Places(s) + 1
  BY <1>1, ConstantFacts
     DEF CountAfter, Possible, SideOf, Other, Places, Operation, Waiting, TypeOK
<1>5. CASE /\ Defers(SideOf(o)) /\ xLock' = [xLock EXCEPT ![SideOf(o)] = @ + 1]
           /\ UNCHANGED <<xTasksWaitingTo, status, switch>>
  <2>1. Wanted(s)' = Wanted(s) /\ Awake(s)' = Awake(s)
    BY <1>1, <1>5 DEF Wanted, Awake, At, switch
  <2>2. xLock[SideOf(o)] \in Nat
    BY <1>1, <1>2, <1>5 DEF Defers
  <2>3. /\ s = SideOf(o) => Deferred(Opposite(s))' = Deferred(Opposite(s))
        /\ s = Other(o) => Deferred(Opposite(s))' = Deferred(Opposite(s)) + 1
    <3>1. CASE s = SideOf(o)
      <4>1. Opposite(s) # SideOf(o)
        BY <3>1 DEF Opposite, Side
      <4>2. xLock'[Opposite(s)] = xLock[Opposite(s)]
        BY <1>1, <1>3, <1>5, <4>1
      <4> QED BY <1>2, <3>1, <4>2 DEF Deferred
    <3>2. CASE s = Other(o)
      <4>1. Opposite(s) = SideOf(o) /\ xLock'[SideOf(o)] = xLock[SideOf(o)] + 1
        BY <1>1, <1>2, <1>5, <3>2
      <4> QED BY <1>2, <2>2, <3>2, <4>1 DEF Deferred, queueLOCKED_UNMODIFIED
    <3> QED BY <1>2, <3>1, <3>2
  <2>4. /\ Places(s)' \in Nat /\ Deferred(Opposite(s))' \in Nat
    <3>1. CountsTyped'
      BY CountTypes, PTL
    <3> QED BY <3>1 DEF CountsTyped
  <2> QED BY <1>2, <1>3, <1>4, <2>1, <2>3, <2>4, EnoughAfter DEF Counting
<1>6. CASE /\ ~Defers(SideOf(o)) /\ UNCHANGED xLock
           /\ xTaskRemoveFromEventList(Served(o))
           /\ \/ UNCHANGED pxCurrentTCB
              \/ ~uxSchedulerSuspended
  <2>1. xTaskRemoveFromEventList(<<Other(o), xTasksWaitingTo[Other(o)]>>)
    BY <1>6, ServedSide
  <2>2. ~At({"check", "place"})
    <3>1. xLock[SideOf(o)] = queueUNLOCKED
      BY <1>6 DEF Defers
    <3>2. ~Locked(SideOf(o))
      BY <1>2, <3>1 DEF Waiting, SectionOK, queueUNLOCKED
    <3> QED BY <3>2 DEF Locked
  <2>3. ~At({"place"}) /\ ~At({"place"})'
    BY <1>1, <1>6, <2>2 DEF At, Waiting, SectionOK, Suspending
  <2>4. \A u \in AllTasks : status[u] # "blocked" => status'[u] # "blocked"
    <3>1. CASE xTasksWaitingTo[Other(o)] = <<>>
      BY <1>2, <2>1, <3>1, Wakes
    <3>2. CASE xTasksWaitingTo[Other(o)] # <<>>
      <4>1. PICK h : \E new \in {"pending", "ready"} : status' = [status EXCEPT ![h] = new]
        BY <1>2, <2>1, <3>2, Wakes
      <4> QED BY <1>1, <4>1
    <3> QED BY <3>1, <3>2
  <2>5. Awake(s) \subseteq Awake(s)'
    BY <1>1, <2>4, ConstantFacts DEF Awake
  <2>6. Deferred(Opposite(s))' = Deferred(Opposite(s))
    BY <1>6 DEF Deferred
  <2>7. CASE s = SideOf(o)
    <3>1. xTasksWaitingTo'[s] = xTasksWaitingTo[s]
      BY <1>2, <2>1, <2>7, Wakes
    <3>2. Wanted(s)' => Wanted(s)
      BY <2>3, <3>1 DEF Wanted
    <3> QED BY <1>3, <1>4, <2>5, <2>6, <2>7, <3>2, EnoughQuiet DEF Counting
  <2>8. CASE s = Other(o)
    <3>1. CASE xTasksWaitingTo[s] = <<>>
      <4>1. ~Wanted(s)'
        BY <1>2, <2>1, <2>3, <2>8, <3>1, Wakes DEF Wanted
      <4> QED BY <4>1 DEF EnoughFor
    <3>2. CASE xTasksWaitingTo[s] # <<>>
      <4>1. PICK h : h = Head(xTasksWaitingTo[s])
        OBVIOUS
      <4>2. /\ h \in Task /\ status[h] = "blocked" /\ SideOf(op[h]) = s
            /\ \E new \in {"pending", "ready"} : status' = [status EXCEPT ![h] = new]
        BY <1>2, <2>1, <2>8, <3>2, <4>1, Wakes
      <4>3. /\ pc[h] \in {"try", "yield"} \/ Blocking(h)
            /\ pc[h] = "yield" => then[h] = "again"
        BY <4>2 DEF Waiting, StatusOK
      <4>4. h \in Awake(s)' /\ h \notin Awake(s)
        BY <1>1, <4>2, <4>3, ConstantFacts DEF Awake, Blocking
      <4>5. /\ CountsTyped /\ CountsTyped'
        BY CountTypes, PTL
      <4>6. /\ Awake(s) \in SUBSET Task /\ Awake(s)' \in SUBSET Task
            /\ Cardinality(Awake(s))' \in Nat /\ Places(s)' \in Nat
        BY <4>5 DEF CountsTyped
      <4>7. Cardinality(Awake(s)) + 1 <= Cardinality(Awake(s))'
        BY <2>5, <4>4, <4>6, Counts
      <4>8. Wanted(s)
        BY <3>2 DEF Wanted
      <4> QED BY <1>3, <1>4, <2>6, <2>8, <4>6, <4>7, <4>8, EnoughAfter DEF Counting
    <3> QED BY <3>1, <3>2
  <2> QED BY <1>2, <2>7, <2>8
<1> QED BY <1>5, <1>6 DEF FromISR, switch

LEMMA CountingSucceed ==
    ASSUME Waiting, Waiting', Counting, NEW t \in Task, Succeed(t)
    PROVE  \A s \in Side : EnoughFor(s)'
<1> SUFFICES ASSUME NEW s \in Side PROVE EnoughFor(s)'
  OBVIOUS
<1>1. /\ pxCurrentTCB = t /\ pc[t] = "try" /\ status[t] = "ready" /\ op[t] \in Operation
      /\ pc' = [pc EXCEPT ![t] = "out"] /\ op' = [op EXCEPT ![t] = "send"]
      /\ pc \in [Task -> Place] /\ op \in [Task -> Operation]
      /\ status \in [AllTasks -> Status] /\ UNCHANGED <<xLock, then>>
      /\ uxMessagesWaiting' = CountAfter(op[t]) /\ Possible(op[t])
      /\ op[t] = "overwrite" => uxLength = 1
  BY DEF Succeed, Running, Return, GoTo, Waiting, TypeOK, StatusOK, At, Counting, OverwritesOne
<1>2. PICK own \in Side, other \in Side :
          /\ own = SideOf(op[t]) /\ other = Other(op[t])
          /\ op[t] # "peek" => other = Opposite(own) /\ own = Opposite(other)
          /\ op[t] = "peek" => own = "receive" /\ other = "receive"
  BY <1>1 DEF SideOf, Other, Opposite, Side, Operation
<1>3. xTaskRemoveFromEventList(<<other, xTasksWaitingTo[other]>>)
  BY <1>2, ServedSide DEF Succeed
<1>4. \A u \in Task : pc[u] \notin Suspending /\ pc'[u] \notin Suspending
  BY <1>1 DEF Waiting, SectionOK, At, Suspending
<1>5. ~At({"place"}) /\ ~At({"place"})'
  BY <1>4 DEF At, Suspending
<1>6. /\ \A u \in AllTasks : status[u] # "blocked" => status'[u] # "blocked"
      /\ xTasksWaitingTo[other] # <<>> =>
             \E h \in Task : /\ status[h] = "blocked" /\ SideOf(op[h]) = other
                             /\ status'[h] # "blocked"
  <2>1. CASE xTasksWaitingTo[other] = <<>>
    BY <1>3, <2>1, Wakes
  <2>2. CASE xTasksWaitingTo[other] # <<>>
    <3>1. PICK h : h = Head(xTasksWaitingTo[other])
      OBVIOUS
    <3>2. /\ h \in Task /\ status[h] = "blocked" /\ SideOf(op[h]) = other
          /\ \E new \in {"pending", "ready"} : status' = [status EXCEPT ![h] = new]
      BY <1>3, <2>2, <3>1, Wakes
    <3> QED BY <1>1, <3>2, ConstantFacts
  <2> QED BY <2>1, <2>2
<1>7. /\ t \in Awake(own) /\ Awake(s) \ {t} \subseteq Awake(s)'
      /\ s # own => Awake(s) \subseteq Awake(s)'
  BY <1>1, <1>2, <1>6, ConstantFacts DEF Awake
<1>8. CountsTyped /\ CountsTyped'
  BY CountTypes, PTL
<1>9. /\ Awake(s) \in SUBSET Task /\ Awake(s)' \in SUBSET Task
      /\ Cardinality(Awake(s)) \in Nat /\ Cardinality(Awake(s))' \in Nat
      /\ Places(s) \in Nat /\ Places(s)' \in Nat /\ Deferred(Opposite(s)) \in Nat
  BY <1>8 DEF CountsTyped
<1>10. Deferred(Opposite(s))' = Deferred(Opposite(s))
  BY <1>1 DEF Deferred
<1>11. /\ op[t] = "peek" => Places(s)' = Places(s)
       /\ op[t] # "peek" /\ s = own => Places(s)' = 0 \/ Places(s)' = Places(s) - 1
       /\ op[t] # "peek" /\ s = other => Places(s)' <= Places(s) + 1
  BY <1>1, <1>2, ConstantFacts
     DEF CountAfter, Possible, SideOf, Other, Places, Operation, Waiting, TypeOK
<1>12. ASSUME xTasksWaitingTo[s] # <<>>, s = other
       PROVE  /\ Wanted(s)
              /\ \E h \in Awake(s)' : h \notin Awake(s)
  <2>1. PICK h \in Task : /\ status[h] = "blocked" /\ SideOf(op[h]) = s
                          /\ status'[h] # "blocked"
    BY <1>6, <1>12
  <2>2. /\ h # t /\ pc[h] \in {"try", "yield"}
    BY <1>1, <1>4, <2>1 DEF Waiting, StatusOK, Blocking, Suspending
  <2>3. pc[h] = "yield" => then[h] = "again"
    BY DEF Waiting, StatusOK
  <2>4. h \in Awake(s)' /\ h \notin Awake(s)
    BY <1>1, <2>1, <2>2, <2>3 DEF Awake
  <2> QED BY <1>12, <2>4 DEF Wanted
<1>13. ASSUME xTasksWaitingTo[s] = <<>> PROVE EnoughFor(s)'
  <2>1. xTasksWaitingTo'[s] = <<>>
    BY <1>3, <1>13, Wakes
  <2>2. ~Wanted(s)'
    BY <1>5, <2>1 DEF Wanted
  <2> QED BY <2>2 DEF EnoughFor
<1>14. ASSUME xTasksWaitingTo[s] # <<>>, s = other PROVE EnoughFor(s)'
  <2>1. PICK h \in Awake(s)' : h \notin Awake(s)
    BY <1>12, <1>14
  <2>2. CASE op[t] = "peek"
    <3>1. Cardinality(Awake(s)) <= Cardinality(Awake(s))'
      BY <1>7, <1>9, <2>1, Counts
    <3> QED BY <1>9, <1>10, <1>11, <1>12, <1>14, <2>2, <3>1, EnoughAfter DEF Counting
  <2>3. CASE op[t] # "peek"
    <3>1. s # own
      BY <1>2, <1>14, <2>3 DEF Opposite, Side
    <3>2. Cardinality(Awake(s)) + 1 <= Cardinality(Awake(s))'
      BY <1>7, <1>9, <2>1, <3>1, Counts
    <3> QED BY <1>9, <1>10, <1>11, <1>12, <1>14, <2>3, <3>2, EnoughAfter DEF Counting
  <2> QED BY <2>2, <2>3
<1>15. ASSUME xTasksWaitingTo[s] # <<>>, s # other PROVE EnoughFor(s)'
  <2>1. Wanted(s)
    BY <1>15 DEF Wanted
  <2>2. CASE s = own
    <3>1. op[t] # "peek"
      BY <1>2, <1>15, <2>2
    <3>2. Cardinality(Awake(s)) <= Cardinality(Awake(s))' + 1
      BY <1>7, <1>9, Counts
    <3> QED BY <1>9, <1>10, <1>11, <2>1, <2>2, <3>1, <3>2, EnoughAfter DEF Counting
  <2>3. CASE s # own
    <3>1. op[t] = "peek"
      BY <1>2, <1>15, <2>3 DEF Opposite, Side
    <3> QED BY <1>7, <1>9, <1>10, <1>11, <2>1, <2>3, <3>1, EnoughQuiet DEF Counting
  <2> QED BY <2>2, <2>3
<1> QED BY <1>13, <1>14, <1>15

\* A reset wakes one sender, and leaves room for uxLength of them.
LEMMA CountingReset ==
    ASSUME Waiting, Waiting', Counting, uxLength = 1, NEW t \in Task, xQueueGenericReset(t)
    PROVE  \A s \in Side : EnoughFor(s)'
<1> SUFFICES ASSUME NEW s \in Side PROVE EnoughFor(s)'
  OBVIOUS
<1>1. /\ pxCurrentTCB = t /\ pc[t] = "out" /\ uxMessagesWaiting' = 0
      /\ UNCHANGED <<pc, op, then>> /\ status \in [AllTasks -> Status]
      /\ xTaskRemoveFromEventList(<<"send", xTasksWaitingTo["send"]>>) /\ "send" \in Side
  BY DEF xQueueGenericReset, Running, calls, Waiting, TypeOK, Side
<1>2. ~At({"place"}) /\ ~At({"place"})'
  BY <1>1 DEF At, Waiting, SectionOK, Suspending
<1>3. CASE s = "receive"
  BY <1>1, <1>3, EnoughAfter DEF Places, Counting
<1>4. CASE s = "send"
  <2>1. CASE xTasksWaitingTo["send"] = <<>>
    <3>1. ~Wanted(s)'
      BY <1>1, <1>2, <1>4, <2>1, Wakes DEF Wanted
    <3> QED BY <3>1 DEF EnoughFor
  <2>2. CASE xTasksWaitingTo["send"] # <<>>
    <3>1. PICK h : h = Head(xTasksWaitingTo["send"])
      OBVIOUS
    <3>2. /\ h \in Task /\ status[h] = "blocked" /\ SideOf(op[h]) = "send"
          /\ \E new \in {"pending", "ready"} : status' = [status EXCEPT ![h] = new]
      BY <1>1, <2>2, <3>1, Wakes
    <3>3. /\ pc[h] \in {"try", "yield"} \/ Blocking(h)
          /\ pc[h] = "yield" => then[h] = "again"
      BY <3>2 DEF Waiting, StatusOK
    <3>4. h \in Awake(s)'
      BY <1>1, <1>4, <3>2, <3>3, ConstantFacts DEF Awake, Blocking
    <3>5. CountsTyped'
      BY CountTypes, PTL
    <3>6. /\ Awake(s)' \in SUBSET Task /\ Deferred(Opposite(s))' \in Nat
          /\ Cardinality(Awake(s))' \in Nat
      BY <3>5 DEF CountsTyped
    <3>7. {h} \in SUBSET Task /\ {h} \subseteq Awake(s)' /\ Cardinality({h}) = 1
      BY <3>2, <3>4, FS_Singleton
    <3>8. 1 <= Cardinality(Awake(s))'
      BY <3>6, <3>7, Counts
    <3>9. Places(s)' = 1
      BY <1>1, <1>4 DEF Places, xQueueGenericReset
    <3> QED BY <3>6, <3>8, <3>9 DEF EnoughFor
  <2> QED BY <2>1, <2>2
<1> QED BY <1>3, <1>4 DEF Side

LEMMA CountingNext ==
    ASSUME "reset" \notin Calls \/ uxLength = 1, Waiting, Waiting', Counting, [Next]_vars
    PROVE  Counting'
<1>1. CASE UNCHANGED vars
  BY <1>1 DEF vars, queue, calls, scheduler, switch, Counting, OverwritesOne, EnoughFor, Wanted,
     At, Places, Awake, Deferred
<1>2. ASSUME Next PROVE OverwritesOne'
  <2>1. CASE UNCHANGED op
    BY <2>1 DEF Counting, OverwritesOne
  <2>2. ASSUME NEW t \in Task, NEW o \in Operation, NEW w \in Waits, Begin(t, o, w)
        PROVE  OverwritesOne'
    BY <2>2, QueueAssumption DEF Begin, Counting, OverwritesOne, Waiting, TypeOK
  <2>3. ASSUME NEW t \in Task, Return(t) PROVE OverwritesOne'
    BY <2>3 DEF Return, Counting, OverwritesOne, Waiting, TypeOK
  <2> QED
    BY <1>2, <2>1, <2>2, <2>3
       DEF Next, Proceed, Succeed, Refuse, Prepare, vTaskSuspendAll, prvLockQueue, Check,
           vTaskPlaceOnEventList, prvUnlockQueue, xTaskResumeAll, Fail, portYIELD_WITHIN_API,
           xQueueGenericReset, Tick, FromISR, calls
<1>3. ASSUME Next PROVE \A s \in Side : EnoughFor(s)'
  <2>1. CASE Tick \/ \E t \in Task : xTaskResumeAll(t)
    BY <2>1, CountingTime
  <2>2. CASE \E o \in Operation \ {"peek"} : FromISR(o)
    BY <2>2, CountingFromISR
  <2>3. CASE \E t \in Task : xQueueGenericReset(t)
    <3>1. uxLength = 1
      BY <2>3 DEF xQueueGenericReset
    <3> QED BY <2>3, <3>1, CountingReset
  <2>4. CASE \E t \in Task : Succeed(t)
    BY <2>4, CountingSucceed
  <2>5. CASE \E t \in Task : vTaskPlaceOnEventList(t)
    BY <2>5, CountingPlace
  <2>6. CASE \E t \in Task : prvUnlockQueue(t)
    BY <2>6, CountingUnlock
  <2>7. ASSUME NEW t \in Task,
               \/ \E o \in Operation, w \in Waits : Begin(t, o, w)
               \/ Refuse(t) \/ Prepare(t) \/ vTaskSuspendAll(t) \/ prvLockQueue(t) \/ Check(t)
               \/ Fail(t) \/ portYIELD_WITHIN_API(t)
        PROVE  \A s \in Side : EnoughFor(s)'
    BY <2>7, CountingCalls
  <2> QED BY <1>3, <2>1, <2>2, <2>3, <2>4, <2>5, <2>6, <2>7 DEF Next, Proceed
<1> QED BY <1>1, <1>2, <1>3 DEF Counting

\* NoWakeUpLost is an invariant when tasks do not reset the queue, or it has
\* one place: a reset wakes one sender and makes room for many.
THEOREM WakeUpsSuffice ==
    ASSUME "reset" \notin Calls \/ uxLength = 1
    PROVE  Spec => []NoWakeUpLost
<1>1. Counting => NoWakeUpLost
  <2>1. \A s \in Side : xTasksWaitingTo[s] # <<>> => Wanted(s)
    BY DEF Wanted
  <2> QED BY <2>1 DEF Counting, EnoughFor, NoWakeUpLost, Places, Opposite, Side
<1>2. Waiting /\ Waiting' /\ Counting /\ [Next]_vars => Counting'
  BY CountingNext
<1> QED BY <1>1, <1>2, CountingInit, WaitingHolds, PTL DEF Spec
=============================================================================
