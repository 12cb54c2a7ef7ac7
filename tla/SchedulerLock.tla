--------------------------- MODULE SchedulerLock ---------------------------
(***************************************************************************)
(* What vTaskSuspendAll and xTaskResumeAll promise their callers: a lock   *)
(* that one task holds at a time, and may take again while it holds it.    *)
(***************************************************************************)
EXTENDS Integers

CONSTANTS Task, NoTask

VARIABLES holder, depth

lock == <<holder, depth>>

Init == holder = NoTask /\ depth = 0

Take(t) ==
    /\ holder \in {NoTask, t}
    /\ holder' = t
    /\ depth' = depth + 1

Release(t) ==
    /\ holder = t
    /\ depth' = depth - 1
    /\ holder' = IF depth = 1 THEN NoTask ELSE t

Next == \E t \in Task : Take(t) \/ Release(t)

Spec == Init /\ [][Next]_lock
=============================================================================
