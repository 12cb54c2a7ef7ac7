--------------------------------- MODULE Timers ---------------------------------
(***************************************************************************)
(* Software timers: Source/timers.c.  Tasks and interrupts send commands   *)
(* to a daemon through a queue; the daemon alone keeps the active timers,  *)
(* in a list of those that expire before the tick count overflows and one  *)
(* of those that expire after.                                             *)
(*                                                                         *)
(* Time is written without its overflow, and what the code sees of it is   *)
(* its value % TICKS.  Callbacks have no effect on the timers here.        *)
(***************************************************************************)
EXTENDS Lists

CONSTANTS
    Timer,
    AutoReload,       \* those that start again
    NULL,
    TICKS,            \* the number of values of a portTickType
    Period,           \* the periods that timers are given
    QUEUE_LENGTH,     \* configTIMER_QUEUE_LENGTH
    MaxLag,           \* bound on the ticks that the daemon is late: with a
                      \* period of TICKS - MaxLag or more it may look so late
                      \* that it does not see the count overflow
    MaxTime,          \* bound on time
    MaxCommands       \* bound on the commands that are sent

VARIABLES
    now,
    xTimerPeriodInTicks,
    current, overflow,    \* pxCurrentTimerList, pxOverflowTimerList
    expiry,               \* of a timer, the time that xItemValue stands for
    xTimerQueue,
    pc, xLastTime,        \* of the daemon,
    xMessage,             \* the command that it processes,
    wake,                 \* the time at which it wakes when it is blocked,
    lag,                  \* and the ticks since it could run
    asserted,             \* a configASSERT failed: the system stops
    sent,                 \* the number of commands sent
    due,                  \* history: when a timer is to expire next, or NULL
    early                 \* history: a callback came before its time

lists == <<current, overflow, expiry>>
commands == <<xTimerQueue, sent>>
daemon == <<pc, xLastTime, xMessage, wake, lag>>
vars == <<now, xTimerPeriodInTicks, lists, commands, daemon, asserted, due, early>>

Init ==
    /\ now = 0
    /\ xTimerPeriodInTicks \in [Timer -> Period]
    /\ current = <<>> /\ overflow = <<>> /\ expiry = [t \in Timer |-> 0]
    /\ xTimerQueue = <<>> /\ sent = 0
    /\ pc = "look" /\ xLastTime = 0 /\ xMessage = NULL /\ wake = 0 /\ lag = 0
    /\ asserted = FALSE
    /\ due = [t \in Timer |-> NULL] /\ early = FALSE
-----------------------------------------------------------------------------
Count(time) == time % TICKS

(***************************************************************************)
(* Time, and the commands of tasks and interrupts.                         *)
(***************************************************************************)
Awake == pc # "blocked" \/ now >= wake \/ xTimerQueue # <<>>

Tick ==
    /\ ~asserted
    /\ now < MaxTime
    /\ Awake => lag < MaxLag
    /\ now' = now + 1
    /\ lag' = IF Awake THEN lag + 1 ELSE 0
    /\ UNCHANGED <<xTimerPeriodInTicks, lists, commands, pc, xLastTime, xMessage,
                   wake, asserted, due, early>>

\* A command's time is the count when it was sent.
Message(id, t, time, value) ==
    [id |-> id, timer |-> t, time |-> time, value |-> value]

\* xTimerGenericCommand; a caller that finds the queue full waits or gives up.
Command(id, t, value) ==
    /\ ~asserted
    /\ sent < MaxCommands
    /\ Len(xTimerQueue) < QUEUE_LENGTH
    /\ xTimerQueue' = Append(xTimerQueue, Message(id, t, now, value))
    /\ sent' = sent + 1
    /\ UNCHANGED <<now, xTimerPeriodInTicks, lists, daemon, asserted, due, early>>

xTimerStart(t) == Command("START", t, NULL)
xTimerStop(t) == Command("STOP", t, NULL)
xTimerChangePeriod(t, period) == Command("CHANGE_PERIOD", t, period)

\* The daemon's own START, in no case waiting.
Restart(t, time) ==
    IF Len(xTimerQueue) < QUEUE_LENGTH
    THEN /\ xTimerQueue' = Append(xTimerQueue, Message("RESTART", t, time, NULL))
         /\ UNCHANGED asserted
    ELSE asserted' = TRUE /\ UNCHANGED xTimerQueue

NoRestart == UNCHANGED <<xTimerQueue, asserted>>
-----------------------------------------------------------------------------
(***************************************************************************)
(* prvInsertTimerInActiveList: where a timer goes that expires at next,    *)
(* for a command of the time given; xTimeNow, the time that the daemon     *)
(* sampled last, is xLastTime.  (A faulty variant first.)                  *)
(***************************************************************************)
IgnoresOverflow(t, next, time) ==
    IF Count(next) <= Count(xLastTime')
    THEN IF Count(xLastTime' - time) >= xTimerPeriodInTicks'[t] THEN "expired"
         ELSE "overflow"
    ELSE "current"

Place(t, next, time) ==
    IF Count(next) <= Count(xLastTime')
    THEN IF Count(xLastTime' - time) >= xTimerPeriodInTicks'[t] THEN "expired"
         ELSE "overflow"
    ELSE IF Count(xLastTime') < Count(time) /\ Count(next) >= Count(time)
    THEN "expired"
    ELSE "current"

Value == [t \in Timer |-> Count(expiry'[t])]

Insert(t, next, place, list, other) ==
    /\ expiry' = [expiry EXCEPT ![t] =
                     IF place \in {"current", "overflow"} THEN next ELSE 0]
    /\ current' = IF place = "current" THEN vListInsert(list, t, Value) ELSE list
    /\ overflow' = IF place = "overflow" THEN vListInsert(other, t, Value)
                   ELSE other

\* The callback of t, for the time it was due.
Callback(t, time) ==
    early' = (early \/ now < time)

\* prvSampleTimeNow: whether the count overflowed since the last look, and the
\* lists are to be switched.
Overflowed == Count(now) < Count(xLastTime)

Sample(place) ==
    /\ xLastTime' = now
    /\ pc' = place
    /\ lag' = lag

(***************************************************************************)
(* prvGetNextExpireTime and prvProcessTimerOrBlockTask.                    *)
(***************************************************************************)
Expired == current # <<>> /\ Count(expiry[Head(current)]) <= Count(now)

\* The lists are to be switched,
LookSwitches ==
    /\ pc = "look" /\ ~asserted
    /\ Overflowed
    /\ Sample("switch")
    /\ UNCHANGED <<now, xTimerPeriodInTicks, lists, commands, xMessage, wake,
                   asserted, due, early>>

\* ... or the first timer has expired (prvProcessExpiredTimer),
ProcessExpired ==
    LET t == Head(current)
        time == expiry[t]
        next == time + xTimerPeriodInTicks[t]
        place == IF t \in AutoReload THEN Place(t, next, time) ELSE "none"
    IN  /\ pc = "look" /\ ~asserted
        /\ ~Overflowed /\ Expired
        /\ Sample("commands")
        /\ UNCHANGED xTimerPeriodInTicks
        /\ Insert(t, next, place, Tail(current), overflow)
        /\ IF place = "expired" THEN Restart(t, time) ELSE NoRestart
        /\ due' = [due EXCEPT ![t] = IF t \in AutoReload THEN next ELSE NULL]
        /\ Callback(t, time)
        /\ UNCHANGED <<now, sent, xMessage, wake>>

\* ... or the daemon blocks, until the next one does or the count overflows.
Block ==
    LET next == IF current = <<>> THEN 0 ELSE Count(expiry[Head(current)])
        ticks == (next - Count(now)) % TICKS
    IN  /\ pc = "look" /\ ~asserted
        /\ ~Overflowed /\ ~Expired
        /\ wake' = now + IF ticks = 0 THEN 1 ELSE ticks
        /\ xLastTime' = now
        /\ IF xTimerQueue = <<>>
           THEN pc' = "blocked" /\ lag' = 0
           ELSE pc' = "commands" /\ UNCHANGED lag
        /\ UNCHANGED <<now, xTimerPeriodInTicks, lists, commands, xMessage,
                       asserted, due, early>>

Wake ==
    /\ pc = "blocked" /\ ~asserted
    /\ Awake
    /\ pc' = "commands"
    /\ wake' = 0
    /\ UNCHANGED <<now, xTimerPeriodInTicks, lists, commands, xLastTime, xMessage,
                   lag, asserted, due, early>>

(***************************************************************************)
(* prvSwitchTimerLists: the timers left have expired.  One that starts     *)
(* again before the overflow stays.                                        *)
(***************************************************************************)
ReloadsHere(t) == Count(expiry[t] + xTimerPeriodInTicks[t]) > Count(expiry[t])

SwitchOne ==
    LET t == Head(current)
        next == expiry[t] + xTimerPeriodInTicks[t]
        here == t \in AutoReload /\ ReloadsHere(t)
    IN  /\ pc = "switch" /\ ~asserted
        /\ current # <<>>
        /\ Insert(t, next, IF here THEN "current" ELSE "none", Tail(current),
                  overflow)
        /\ IF t \in AutoReload /\ ~here THEN Restart(t, expiry[t]) ELSE NoRestart
        /\ due' = [due EXCEPT ![t] = IF t \in AutoReload THEN next ELSE NULL]
        /\ Callback(t, expiry[t])
        /\ UNCHANGED <<now, xTimerPeriodInTicks, sent, daemon>>

Switch ==
    /\ pc = "switch" /\ ~asserted
    /\ current = <<>>
    /\ current' = overflow /\ overflow' = current
    /\ pc' = IF xMessage = NULL THEN "commands" ELSE "process"
    /\ UNCHANGED <<now, xTimerPeriodInTicks, expiry, commands, xLastTime, xMessage,
                   wake, lag, asserted, due, early>>

(***************************************************************************)
(* prvProcessReceivedCommands: a command is taken, its timer leaves its    *)
(* list, and time is sampled;                                              *)
(***************************************************************************)
Receive ==
    LET m == Head(xTimerQueue) IN
    /\ pc = "commands" /\ ~asserted
    /\ xTimerQueue # <<>>
    /\ xTimerQueue' = Tail(xTimerQueue)
    /\ xMessage' = m
    /\ current' = RemoveFirst(current, m.timer)
    /\ overflow' = RemoveFirst(overflow, m.timer)
    /\ expiry' = [expiry EXCEPT ![m.timer] = 0]
    /\ due' = [due EXCEPT ![m.timer] = NULL]
    /\ Sample(IF Overflowed THEN "switch" ELSE "process")
    /\ UNCHANGED <<now, xTimerPeriodInTicks, sent, wake, asserted, early>>

Processed ==
    /\ pc = "process" /\ ~asserted
    /\ xMessage' = NULL
    /\ pc' = "commands"
    /\ UNCHANGED <<now, sent, xLastTime, wake, lag>>

\* ... the timer starts, or has expired already,
ProcessStart ==
    LET m == xMessage
        next == m.time + xTimerPeriodInTicks[m.timer]
        place == Place(m.timer, next, m.time)
    IN  /\ Processed
        /\ m.id \in {"START", "RESTART"}
        /\ UNCHANGED xTimerPeriodInTicks
        /\ Insert(m.timer, next, place, current, overflow)
        /\ due' = [due EXCEPT ![m.timer] =
                      IF place # "expired" THEN next
                      ELSE IF m.timer \in AutoReload
                      THEN next + xTimerPeriodInTicks[m.timer] ELSE NULL]
        /\ IF place = "expired"
           THEN /\ Callback(m.timer, next)
                /\ IF m.timer \in AutoReload THEN Restart(m.timer, next)
                   ELSE NoRestart
           ELSE NoRestart /\ UNCHANGED early

ProcessStop ==
    /\ Processed
    /\ xMessage.id = "STOP"
    /\ UNCHANGED <<xTimerPeriodInTicks, lists, xTimerQueue, asserted, due, early>>

\* ... or it starts now, with another period.
ProcessChangePeriod ==
    LET m == xMessage
        next == xLastTime + m.value
    IN  /\ Processed
        /\ m.id = "CHANGE_PERIOD"
        /\ xTimerPeriodInTicks' = [xTimerPeriodInTicks EXCEPT ![m.timer] = m.value]
        /\ Insert(m.timer, next, Place(m.timer, next, xLastTime), current, overflow)
        /\ due' = [due EXCEPT ![m.timer] = next]
        /\ UNCHANGED <<xTimerQueue, asserted, early>>

NoMoreCommands ==
    /\ pc = "commands" /\ ~asserted
    /\ xTimerQueue = <<>>
    /\ pc' = "look"
    /\ UNCHANGED <<now, xTimerPeriodInTicks, lists, commands, xLastTime, xMessage,
                   wake, lag, asserted, due, early>>
-----------------------------------------------------------------------------
Next ==
    \/ Tick
    \/ \E t \in Timer :
        \/ xTimerStart(t) \/ xTimerStop(t)
        \/ \E period \in Period : xTimerChangePeriod(t, period)
    \/ LookSwitches \/ ProcessExpired \/ Block \/ Wake
    \/ SwitchOne \/ Switch
    \/ Receive \/ ProcessStart \/ ProcessStop \/ ProcessChangePeriod
    \/ NoMoreCommands

Spec == Init /\ [][Next]_vars
-----------------------------------------------------------------------------
\* A timer expires when its command and its period say, across overflows of the
\* count: no callback comes early, and none later than the daemon is.  A timer that
\* is to expire is in a list, or on its way to one.
ExpiresOnTime ==
    /\ ~early
    /\ ~asserted =>
        \A t \in Timer : due[t] # NULL =>
            /\ now <= due[t] + MaxLag
            /\ \/ t \in ToSet(current) \cup ToSet(overflow)
               \/ \E i \in 1..Len(xTimerQueue) : xTimerQueue[i].timer = t
=============================================================================
