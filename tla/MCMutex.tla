------------------------------- MODULE MCMutex -------------------------------
(***************************************************************************)
(* Mutex for TLC: three tasks of three priorities above the idle task's.   *)
(***************************************************************************)
EXTENDS Mutex

CONSTANTS Low, Middle, High

Ascending == [t \in AllTasks |-> CASE t = Low -> 1 [] t = Middle -> 2
                                  [] t = High -> 3 [] OTHER -> 0]
=============================================================================
