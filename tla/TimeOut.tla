------------------------------ MODULE TimeOut ------------------------------
(***************************************************************************)
(* vTaskSetTimeOutState and xTaskCheckForTimeOut of Source/tasks.c, as the *)
(* blocking calls of queue.c use them: a call notes the time when it       *)
(* begins to wait, and each time its task runs again asks whether the time *)
(* is over or how much of it is left.  All it has is a tick count that     *)
(* overflows and a count of the overflows, which overflows too.            *)
(***************************************************************************)
EXTENDS TimeOutConstants

portMAX_DELAY == TICKS - 1
Tick == 0..TICKS - 1

VARIABLES
    xTickCount, xNumOfOverflows,
    xOverflowCount, xTimeOnEntering,   \* the xTimeOutType of the call
    xTicksToWait,                      \* what is left of the time to wait
    state,                             \* "idle", "wait" or "expired"
    asked,                             \* history: the time the call was given
    elapsed                            \* history: the ticks since it began

vars == <<xTickCount, xNumOfOverflows, xOverflowCount, xTimeOnEntering,
          xTicksToWait, state, asked, elapsed>>

Init ==
    /\ xTickCount = 0 /\ xNumOfOverflows = 0
    /\ xOverflowCount = 0 /\ xTimeOnEntering = 0
    /\ xTicksToWait = 0
    /\ state = "idle"
    /\ asked = 0 /\ elapsed = 0

Successor(n, size) == IF n = size - 1 THEN 0 ELSE n + 1

\* a - b in a portTickType.
TicksFrom(b, a) == IF a >= b THEN a - b ELSE a - b + TICKS

\* Bound on how late a task looks: the count overflows at most once between
\* two looks at it, and once in all while a call waits for ever.
OverflowedOnce == xNumOfOverflows # xOverflowCount

\* A tick.
xTaskIncrementTick ==
    /\ state = "wait" /\ xTickCount = TICKS - 1 => ~ OverflowedOnce
    /\ xTickCount' = Successor(xTickCount, TICKS)
    /\ xNumOfOverflows' = IF xTickCount = TICKS - 1
                          THEN Successor(xNumOfOverflows, OVERFLOWS)
                          ELSE xNumOfOverflows
    /\ elapsed' = IF state = "wait" THEN elapsed + 1 ELSE elapsed
    /\ UNCHANGED <<xOverflowCount, xTimeOnEntering, xTicksToWait, state, asked>>

vTaskSetTimeOutState ==
    /\ xOverflowCount' = xNumOfOverflows
    /\ xTimeOnEntering' = xTickCount

\* A call with n ticks to wait begins to.
BeginWait(n) ==
    /\ state # "wait"
    /\ vTaskSetTimeOutState
    /\ xTicksToWait' = n
    /\ state' = "wait"
    /\ asked' = n
    /\ elapsed' = 0
    /\ UNCHANGED <<xTickCount, xNumOfOverflows>>

\* The count overflowed and came past the time of entry again, or the distance
\* from that time is as large as the time to wait.  (A faulty variant first.)
IgnoresOverflow == TicksFrom(xTimeOnEntering, xTickCount) >= xTicksToWait

TimedOut ==
    \/ OverflowedOnce /\ xTickCount >= xTimeOnEntering
    \/ TicksFrom(xTimeOnEntering, xTickCount) >= xTicksToWait

\* Not a genuine time-out: less is left, from now.
AdjustForTimeRemaining ==
    /\ xTicksToWait' = xTicksToWait - TicksFrom(xTimeOnEntering, xTickCount)
    /\ vTaskSetTimeOutState

xTaskCheckForTimeOut ==
    /\ state = "wait"
    /\ \/ /\ xTicksToWait = portMAX_DELAY
          /\ UNCHANGED <<xOverflowCount, xTimeOnEntering, xTicksToWait, state>>
       \/ /\ xTicksToWait # portMAX_DELAY
          /\ TimedOut
          /\ state' = "expired"
          /\ UNCHANGED <<xOverflowCount, xTimeOnEntering, xTicksToWait>>
       \/ /\ xTicksToWait # portMAX_DELAY
          /\ ~ TimedOut
          /\ AdjustForTimeRemaining
          /\ UNCHANGED state
    /\ UNCHANGED <<xTickCount, xNumOfOverflows, asked, elapsed>>

\* What was waited for came.
EndWait ==
    /\ state = "wait"
    /\ state' = "idle"
    /\ UNCHANGED <<xTickCount, xNumOfOverflows, xOverflowCount, xTimeOnEntering,
                   xTicksToWait, asked, elapsed>>

Next ==
    \/ xTaskIncrementTick
    \/ \E n \in Wait : BeginWait(n)
    \/ xTaskCheckForTimeOut
    \/ EndWait

Spec == Init /\ [][Next]_vars
-----------------------------------------------------------------------------
\* A look finds the time over exactly when it was not given as infinite and the
\* ticks since the call began are at least as many: never early, never a look
\* late, whatever looks were made before and wherever the counts overflowed.
TimesOutOnTime ==
    [][xTaskCheckForTimeOut =>
          (state' = "expired" <=> asked # portMAX_DELAY /\ elapsed >= asked)]_vars

\* The ticks since the xTimeOutType was last set.
SinceSet == elapsed - (asked - xTicksToWait)

TypeOK ==
    /\ xTickCount \in Tick /\ xTimeOnEntering \in Tick
    /\ xNumOfOverflows \in 0..OVERFLOWS - 1
    /\ xOverflowCount \in 0..OVERFLOWS - 1
    /\ xTicksToWait \in Tick /\ asked \in Tick
    /\ elapsed \in Nat
    /\ state \in {"idle", "wait", "expired"}

\* While a call waits, what is left of its time and the ticks since it last
\* looked add up to the time it was given, and those ticks are the distance
\* from the noted time to the count, through one overflow at most.
TimeIsKept ==
    state = "wait" =>
        /\ xTicksToWait = portMAX_DELAY <=> asked = portMAX_DELAY
        /\ xTicksToWait <= asked
        /\ \/ /\ xNumOfOverflows = xOverflowCount
              /\ xTickCount = xTimeOnEntering + SinceSet
           \/ /\ xNumOfOverflows # xOverflowCount
              /\ xTickCount = xTimeOnEntering + SinceSet - TICKS
        /\ SinceSet >= 0

IInv == TypeOK /\ TimeIsKept
=============================================================================
