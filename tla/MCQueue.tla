------------------------------- MODULE MCQueue -------------------------------
(***************************************************************************)
(* Queue for TLC: one task is above the others, or all are equal.          *)
(***************************************************************************)
EXTENDS Queue

CONSTANT Highest

OneAbove == [t \in AllTasks |-> IF t = Idle THEN 0
                                ELSE IF t = Highest THEN 2 ELSE 1]

AllEqual == [t \in AllTasks |-> IF t = Idle THEN 0 ELSE 1]
=============================================================================
