---------------------------- MODULE CriticalNesting ----------------------------
(***************************************************************************)
(* Critical sections of the port: portable/GCC/ARM7_CA15_Xen/port.c and    *)
(* the context switches of asm/irq.s.  A section masks, by the priority    *)
(* mask of the interrupt controller, the interrupts that may use the       *)
(* kernel; a task may be switched out in the middle of one.                *)
(***************************************************************************)
EXTENDS Integers

CONSTANTS
    Thread,          \* the tasks
    MaxCritical      \* bound on the nesting

VARIABLES
    pxCurrentTCB,
    ulCriticalNesting, masked,
    stacked,         \* of a task: the nesting in its saved context
    pc,              \* of a task: its place in vPortEnterCritical or Exit
    isr,             \* the place of the interrupt, "out" when there is none
    ulReturn,        \* what ulPortSetInterruptMask told the interrupt
    ulPortYieldRequired,
    entered          \* history: the sections that a task entered and did not leave

vars == <<pxCurrentTCB, ulCriticalNesting, masked, stacked, pc, isr, ulReturn,
          ulPortYieldRequired, entered>>

\* pxPortInitialiseStack; the scheduler starts a task.
Init ==
    /\ pxCurrentTCB \in Thread
    /\ ulCriticalNesting = 0 /\ masked = FALSE
    /\ stacked = [t \in Thread |-> 0]
    /\ pc = [t \in Thread |-> "run"]
    /\ isr = "out" /\ ulReturn = FALSE /\ ulPortYieldRequired = FALSE
    /\ entered = [t \in Thread |-> 0]
-----------------------------------------------------------------------------
At(place) == isr = "out" /\ pc[pxCurrentTCB] = place
GoTo(place) == pc' = [pc EXCEPT ![pxCurrentTCB] = place]

(***************************************************************************)
(* vPortEnterCritical and vPortExitCritical.                               *)
(***************************************************************************)
EnterMask ==
    /\ At("run")
    /\ ulCriticalNesting < MaxCritical
    /\ masked' = TRUE
    /\ GoTo("enter")
    /\ UNCHANGED <<pxCurrentTCB, ulCriticalNesting, stacked, isr, ulReturn,
                   ulPortYieldRequired, entered>>

EnterCount ==
    /\ At("enter")
    /\ ulCriticalNesting' = ulCriticalNesting + 1
    /\ entered' = [entered EXCEPT ![pxCurrentTCB] = @ + 1]
    /\ GoTo("run")
    /\ UNCHANGED <<pxCurrentTCB, masked, stacked, isr, ulReturn,
                   ulPortYieldRequired>>

ExitCount ==
    /\ At("run")
    /\ ulCriticalNesting > 0
    /\ ulCriticalNesting' = ulCriticalNesting - 1
    /\ entered' = [entered EXCEPT ![pxCurrentTCB] = @ - 1]
    /\ GoTo(IF ulCriticalNesting' = 0 THEN "exit" ELSE "run")
    /\ UNCHANGED <<pxCurrentTCB, masked, stacked, isr, ulReturn,
                   ulPortYieldRequired>>

ExitMask ==
    /\ At("exit")
    /\ masked' = FALSE
    /\ GoTo("run")
    /\ UNCHANGED <<pxCurrentTCB, ulCriticalNesting, stacked, isr, ulReturn,
                   ulPortYieldRequired, entered>>

(***************************************************************************)
(* portSAVE_CONTEXT, vTaskSwitchContext and portRESTORE_CONTEXT, with all  *)
(* interrupts off.  (A faulty variant of the mask that is restored first.) *)
(***************************************************************************)
KeepsMask(t) == masked

RestoredMask(t) == stacked'[t] # 0

SwitchTo(t) ==
    /\ stacked' = [stacked EXCEPT ![pxCurrentTCB] = ulCriticalNesting]
    /\ pxCurrentTCB' = t
    /\ ulCriticalNesting' = stacked'[t]
    /\ masked' = RestoredMask(t)

\* portYIELD: swi_handler.
Yield(t) ==
    /\ At("run")
    /\ SwitchTo(t)
    /\ UNCHANGED <<pc, isr, ulReturn, ulPortYieldRequired, entered>>

(***************************************************************************)
(* An interrupt that may use the kernel: the tick, or one whose handler    *)
(* calls a function for interrupts.  They do not nest.                     *)
(***************************************************************************)
Interrupt ==
    /\ isr = "out" /\ ~masked
    /\ isr' = "in"
    /\ UNCHANGED <<pxCurrentTCB, ulCriticalNesting, masked, stacked, pc, ulReturn,
                   ulPortYieldRequired, entered>>

\* FreeRTOS_Tick_Handler, or portSET_INTERRUPT_MASK_FROM_ISR.
SetMask(handler) ==
    /\ isr = "in"
    /\ masked' = TRUE
    /\ ulReturn' = masked
    /\ isr' = handler
    /\ UNCHANGED <<pxCurrentTCB, ulCriticalNesting, stacked, pc,
                   ulPortYieldRequired, entered>>

\* The handler has used the kernel, and may want a switch.
ClearMask(switch) ==
    /\ isr \in {"tick", "call"}
    /\ masked' = (isr = "call" /\ ulReturn)
    /\ ulReturn' = FALSE
    /\ ulPortYieldRequired' = (ulPortYieldRequired \/ switch)
    /\ isr' = "in"
    /\ UNCHANGED <<pxCurrentTCB, ulCriticalNesting, stacked, pc, entered>>

\* The end of the IRQ handler: the same task goes on, or another.
ReturnFromInterrupt(t) ==
    /\ isr = "in"
    /\ isr' = "out"
    /\ ulPortYieldRequired' = FALSE
    /\ IF ulPortYieldRequired THEN SwitchTo(t)
       ELSE UNCHANGED <<pxCurrentTCB, ulCriticalNesting, masked, stacked>>
    /\ UNCHANGED <<pc, ulReturn, entered>>
-----------------------------------------------------------------------------
Next ==
    \/ EnterMask \/ EnterCount \/ ExitCount \/ ExitMask
    \/ Interrupt
    \/ \E handler \in {"tick", "call"} : SetMask(handler)
    \/ \E switch \in BOOLEAN : ClearMask(switch)
    \/ \E t \in Thread : Yield(t) \/ ReturnFromInterrupt(t)

Spec == Init /\ [][Next]_vars
-----------------------------------------------------------------------------
\* A critical section belongs to its task: whatever switches in the middle of one,
\* the interrupts that may use the kernel stay out exactly while the running task
\* is in a section of its own, and none runs in one.
SectionsAreTheTasks ==
    /\ isr # "out" => entered[pxCurrentTCB] = 0
    /\ At("run") => masked = (entered[pxCurrentTCB] > 0)
=============================================================================
