----------------------------- MODULE SuspendAll -----------------------------
(***************************************************************************)
(* vTaskSuspendAll takes no critical section (Source/tasks.c): its         *)
(* ++uxSchedulerSuspended is a load and a store, and an interrupt between  *)
(* them may give the processor to another task.  Tasks treats the call as  *)
(* one step; here it is two, and it still implements SchedulerLock.        *)
(***************************************************************************)
EXTENDS SuspendAllConstants, Integers

VARIABLES
    pxCurrentTCB,
    uxSchedulerSuspended,
    xYieldPending,
    pc,             \* pc[t]: "run", or "store" once vTaskSuspendAll has loaded
    register,       \* register[t]: the value it loaded
    nesting         \* history: the calls of t that it has yet to undo

vars == <<pxCurrentTCB, uxSchedulerSuspended, xYieldPending, pc, register,
          nesting>>

Init ==
    /\ pxCurrentTCB \in Task
    /\ uxSchedulerSuspended = 0
    /\ xYieldPending = FALSE
    /\ pc = [t \in Task |-> "run"]
    /\ register = [t \in Task |-> 0]
    /\ nesting = [t \in Task |-> 0]

\* vTaskSwitchContext, which may choose any task: nothing is known here of
\* priorities.  (A faulty variant first.)
SwitchAlways ==
    /\ pxCurrentTCB' \in Task
    /\ xYieldPending' = FALSE

vTaskSwitchContext ==
    \/ /\ uxSchedulerSuspended # 0
       /\ xYieldPending' = TRUE
       /\ UNCHANGED pxCurrentTCB
    \/ /\ uxSchedulerSuspended = 0
       /\ pxCurrentTCB' \in Task
       /\ xYieldPending' = FALSE

\* The two halves of ++uxSchedulerSuspended.
SuspendLoads(t) ==
    /\ pxCurrentTCB = t /\ pc[t] = "run"
    /\ nesting[t] < MaxNesting
    /\ pc' = [pc EXCEPT ![t] = "store"]
    /\ register' = [register EXCEPT ![t] = uxSchedulerSuspended]
    /\ UNCHANGED <<pxCurrentTCB, uxSchedulerSuspended, xYieldPending, nesting>>

SuspendStores(t) ==
    /\ pxCurrentTCB = t /\ pc[t] = "store"
    /\ pc' = [pc EXCEPT ![t] = "run"]
    /\ uxSchedulerSuspended' = register[t] + 1
    /\ nesting' = [nesting EXCEPT ![t] = @ + 1]
    /\ UNCHANGED <<pxCurrentTCB, xYieldPending, register>>

\* xTaskResumeAll, in a critical section; the last one does the switch that was
\* asked for meanwhile.
xTaskResumeAll(t) ==
    /\ pxCurrentTCB = t /\ pc[t] = "run"
    /\ nesting[t] > 0
    /\ uxSchedulerSuspended' = uxSchedulerSuspended - 1
    /\ nesting' = [nesting EXCEPT ![t] = @ - 1]
    /\ IF uxSchedulerSuspended = 1 /\ xYieldPending
       THEN pxCurrentTCB' \in Task /\ xYieldPending' = FALSE
       ELSE UNCHANGED <<pxCurrentTCB, xYieldPending>>
    /\ UNCHANGED <<pc, register>>

\* An interrupt, or the task itself, asks for a switch.
Switch ==
    /\ vTaskSwitchContext
    /\ UNCHANGED <<uxSchedulerSuspended, pc, register, nesting>>

Next ==
    \/ \E t \in Task : SuspendLoads(t) \/ SuspendStores(t) \/ xTaskResumeAll(t)
    \/ Switch

Spec == Init /\ [][Next]_vars
-----------------------------------------------------------------------------
TypeOK ==
    /\ pxCurrentTCB \in Task
    /\ uxSchedulerSuspended \in Nat
    /\ xYieldPending \in BOOLEAN
    /\ pc \in [Task -> {"run", "store"}]
    /\ register \in [Task -> Nat]
    /\ nesting \in [Task -> Nat]

\* The scheduler stays suspended for as long as a task has it suspended, that
\* task keeps the processor, and no other task has it suspended too: no store
\* of a stale value undoes a call.
AtMostOneSuspends ==
    \A t \in Task : nesting[t] > 0 =>
        /\ uxSchedulerSuspended > 0
        /\ pxCurrentTCB = t
        /\ \A u \in Task : nesting[u] > 0 => u = t

\* Nobody else's steps come between the load of a stale value and its store:
\* a loaded value is the number of the task's own calls.
IInv ==
    /\ TypeOK
    /\ uxSchedulerSuspended = nesting[pxCurrentTCB]
    /\ \A t \in Task : t # pxCurrentTCB => nesting[t] = 0
    /\ \A t \in Task : pc[t] = "store" => register[t] = nesting[t]

Lock == INSTANCE SchedulerLock WITH
    holder <- IF uxSchedulerSuspended = 0 THEN NoTask ELSE pxCurrentTCB,
    depth <- uxSchedulerSuspended

\* The two steps of vTaskSuspendAll and the critical section of xTaskResumeAll
\* implement the nested lock, as if each were one step.
ImplementsLock == Lock!Spec
=============================================================================
