------------------------------ MODULE PartsProofs ------------------------------
(***************************************************************************)
(* Safety of the parts of MCParts, for all values of their constants.      *)
(***************************************************************************)
EXTENDS MCParts, FiniteSetTheorems, SequenceTheorems, WellFoundedInduction, TLAPS

\* A behaviour of MCParts is a behaviour of each part, seen by itself.
LEMMA StepsOfParts ==
    [Next]_vars =>
        /\ [Suspending!Next]_(Suspending!vars)
        /\ [TimingOut!Next]_(TimingOut!vars)
        /\ [Storing!Next]_(Storing!vars)
        /\ [Watching!Next]_(Watching!vars)
        /\ [Signalling!Next]_(Signalling!vars)
        /\ [Granting!Next]_(Granting!vars)
        /\ [Masking!Next]_(Masking!vars)
        /\ [Meeting!Next]_(Meeting!vars)
<1> SUFFICES ASSUME [Next]_vars
             PROVE  /\ Suspending!Next \/ UNCHANGED Suspending!vars
                    /\ TimingOut!Next \/ UNCHANGED TimingOut!vars
                    /\ Storing!Next \/ UNCHANGED Storing!vars
                    /\ Watching!Next \/ UNCHANGED Watching!vars
                    /\ Signalling!Next \/ UNCHANGED Signalling!vars
                    /\ Granting!Next \/ UNCHANGED Granting!vars
                    /\ Masking!Next \/ UNCHANGED Masking!vars
                    /\ Meeting!Next \/ UNCHANGED Meeting!vars
  OBVIOUS
<1>1. Suspending!Next \/ UNCHANGED suspending
  BY DEF Next, vars
<1>2. TimingOut!Next \/ UNCHANGED timing
  BY DEF Next, vars
<1>3. Storing!Next \/ UNCHANGED storage
  BY DEF Next, vars
<1>4. Watching!Next \/ UNCHANGED watching
  BY DEF Next, vars
<1>5. Signalling!Next \/ UNCHANGED events
  BY DEF Next, vars
<1>6. Granting!Next \/ UNCHANGED grants
  BY DEF Next, vars
<1>7. Masking!Next \/ UNCHANGED critical
  BY DEF Next, vars
<1>8. Meeting!Next \/ UNCHANGED meeting
  BY DEF Next, vars
<1> QED
  BY <1>1, <1>2, <1>3, <1>4, <1>5, <1>6, <1>7, <1>8
  DEF suspending, timing, storage, watching, events, grants, critical, meeting,
      Suspending!vars, TimingOut!vars, Storing!vars, Watching!vars,
      Signalling!vars, Granting!vars, Masking!vars, Meeting!vars,
      Watching!taskVars, Meeting!rights, Meeting!lefts, Signalling!shared,
      Signalling!guest, Signalling!tasks, Granting!free, Granting!entries,
      Granting!tasks

\* Each part's own specification, as its module states it.
THEOREM Composed ==
  Spec => /\ Suspending!Spec /\ TimingOut!Spec /\ Storing!Spec /\ Watching!Spec
          /\ Signalling!Spec /\ Granting!Spec /\ Masking!Spec /\ Meeting!Spec
<1>1. Init => /\ Suspending!Init /\ TimingOut!Init /\ Storing!Init /\ Watching!Init
              /\ Signalling!Init /\ Granting!Init /\ Masking!Init /\ Meeting!Init
  BY DEF Init
<1> QED BY <1>1, StepsOfParts, PTL DEF Spec, Suspending!Spec, TimingOut!Spec,
    Storing!Spec, Watching!Spec, Signalling!Spec, Granting!Spec, Masking!Spec,
    Meeting!Spec

-----------------------------------------------------------------------------
(***************************************************************************)
(* SuspendAll.  The counter is the nesting of the running task, no other   *)
(* task nests, and a value loaded and not yet stored is not stale.         *)
(***************************************************************************)
\* Initially nobody suspends the scheduler.
LEMMA SuspendingInit == Suspending!Init => Suspending!IInv
<1> SUFFICES ASSUME Suspending!Init PROVE Suspending!IInv
  OBVIOUS
<1>1. Suspending!TypeOK
  BY DEF Suspending!Init, Suspending!TypeOK
<1>2. suspend_pc = [t \in Task |-> "run"] /\ nesting = [t \in Task |-> 0]
  BY DEF Suspending!Init
<1> QED BY <1>1, <1>2 DEF Suspending!Init, Suspending!IInv, Suspending!TypeOK

\* Every step keeps the counter equal to the nesting of the running task.
LEMMA SuspendingNext ==
    Suspending!IInv /\ [Suspending!Next]_(Suspending!vars) => Suspending!IInv'
<1> SUFFICES ASSUME Suspending!IInv, [Suspending!Next]_(Suspending!vars)
             PROVE  Suspending!IInv'
  OBVIOUS
<1> USE DEF Suspending!IInv, Suspending!TypeOK
<1>1. ASSUME NEW t \in Task, Suspending!SuspendLoads(t) PROVE Suspending!IInv'
  BY <1>1 DEF Suspending!SuspendLoads
<1>2. ASSUME NEW t \in Task, Suspending!SuspendStores(t) PROVE Suspending!IInv'
  BY <1>2 DEF Suspending!SuspendStores
<1>3. ASSUME NEW t \in Task, Suspending!xTaskResumeAll(t) PROVE Suspending!IInv'
  <2>1. Suspending!TypeOK'
    <3>1. pxCurrentTCB' \in Task /\ xYieldPending' \in BOOLEAN
      BY <1>3, Zenon DEF Suspending!xTaskResumeAll
    <3>2. uxSchedulerSuspended' \in Nat /\ nesting' \in [Task -> Nat]
      BY <1>3 DEF Suspending!xTaskResumeAll
    <3> QED BY <1>3, <3>1, <3>2 DEF Suspending!xTaskResumeAll
  <2>2. uxSchedulerSuspended' = nesting'[t]
    BY <1>3 DEF Suspending!xTaskResumeAll
  <2>3. \A u \in Task : u # t => nesting'[u] = 0
    BY <1>3 DEF Suspending!xTaskResumeAll
  <2>4. pxCurrentTCB' = t \/ uxSchedulerSuspended' = 0
    BY <1>3 DEF Suspending!xTaskResumeAll
  <2>5. \A u \in Task : suspend_pc'[u] = "store" => register'[u] = nesting'[u]
    BY <1>3 DEF Suspending!xTaskResumeAll
  <2> QED BY <2>1, <2>2, <2>3, <2>4, <2>5
<1>4. CASE Suspending!Switch
  BY <1>4 DEF Suspending!Switch, Suspending!vTaskSwitchContext
<1>5. CASE UNCHANGED Suspending!vars
  BY <1>5 DEF Suspending!vars
<1> QED BY <1>1, <1>2, <1>3, <1>4, <1>5 DEF Suspending!Next

\* The invariant holds throughout.
THEOREM SuspendingHolds == Spec => []Suspending!IInv
BY Composed, SuspendingInit, SuspendingNext, PTL DEF Suspending!Spec

\* Only the running task has the scheduler suspended, whatever interrupts come
\* between the load and the store of ++uxSchedulerSuspended.
THEOREM Exclusion == Spec => []Suspending!AtMostOneSuspends
<1>1. Suspending!IInv => Suspending!AtMostOneSuspends
  BY DEF Suspending!IInv, Suspending!TypeOK, Suspending!AtMostOneSuspends
<1> QED BY <1>1, SuspendingHolds, PTL

-----------------------------------------------------------------------------
\* The refinement mapping takes initial states to initial states.
LEMMA SuspendingInitMaps == Suspending!Init => Suspending!Lock!Init
BY DEF Suspending!Init, Suspending!Lock!Init

\* A store is a Take, a resume is a Release, and the other steps stutter.
LEMMA SuspendingStepMaps ==
    Suspending!IInv /\ Suspending!IInv' /\ [Suspending!Next]_(Suspending!vars)
        => [Suspending!Lock!Next]_(Suspending!Lock!lock)
<1> SUFFICES ASSUME Suspending!IInv, Suspending!IInv', [Suspending!Next]_(Suspending!vars)
             PROVE Suspending!Lock!Next \/ UNCHANGED Suspending!Lock!lock
  OBVIOUS
<1> USE NoTaskAssumption DEF Suspending!IInv, Suspending!TypeOK
<1>1. ASSUME NEW t \in Task, Suspending!SuspendLoads(t)
      PROVE  UNCHANGED Suspending!Lock!lock
  BY <1>1 DEF Suspending!SuspendLoads, Suspending!Lock!lock
<1>2. ASSUME NEW t \in Task, Suspending!SuspendStores(t) PROVE Suspending!Lock!Take(t)
  BY <1>2 DEF Suspending!SuspendStores, Suspending!Lock!Take
<1>3. ASSUME NEW t \in Task, Suspending!xTaskResumeAll(t)
      PROVE  Suspending!Lock!Release(t)
  <2>1. CASE uxSchedulerSuspended = 1
    BY <1>3, <2>1 DEF Suspending!xTaskResumeAll, Suspending!Lock!Release
  <2>2. CASE uxSchedulerSuspended # 1
    BY <1>3, <2>2 DEF Suspending!xTaskResumeAll, Suspending!Lock!Release
  <2> QED BY <2>1, <2>2
<1>4. CASE Suspending!Switch
  BY <1>4 DEF Suspending!Switch, Suspending!vTaskSwitchContext, Suspending!Lock!lock
<1>5. CASE UNCHANGED Suspending!vars
  BY <1>5 DEF Suspending!vars, Suspending!Lock!lock
<1> QED BY <1>1, <1>2, <1>3, <1>4, <1>5 DEF Suspending!Next, Suspending!Lock!Next

\* Two-step suspension implements the lock that is taken in one.
THEOREM LockImplemented == Spec => ImplementsLock
BY Composed, SuspendingInitMaps, SuspendingStepMaps, SuspendingHolds, PTL
DEF Suspending!Spec, ImplementsLock, Suspending!ImplementsLock, Suspending!Lock!Spec

-----------------------------------------------------------------------------
(***************************************************************************)
(* TimeOut.  The time left and the ticks since the last look add up to the *)
(* time asked, and those ticks are what the two counts show.               *)
(***************************************************************************)
USE SizeAssumption DEF TimingOut!portMAX_DELAY, TimingOut!Tick

\* Two values of a counter that follow each other differ.
LEMMA SuccessorDiffers ==
    ASSUME NEW size \in Nat, size > 1, NEW n \in 0..size - 1
    PROVE  /\ TimingOut!Successor(n, size) \in 0..size - 1
           /\ TimingOut!Successor(n, size) # n
BY DEF TimingOut!Successor

LEMMA TimingInit == TimingOut!Init => TimingOut!IInv
BY DEF TimingOut!Init, TimingOut!IInv, TimingOut!TypeOK, TimingOut!TimeIsKept

\* The distance between the counts, when they overflowed at most once.
LEMMA Distance ==
    ASSUME TimingOut!IInv, state = "wait"
    PROVE  /\ TimingOut!SinceSet \in Nat
           /\ TimingOut!TicksFrom(xTimeOnEntering, xTickCount) \in TimingOut!Tick
           /\ ~ TimingOut!OverflowedOnce =>
                 TimingOut!SinceSet = TimingOut!TicksFrom(xTimeOnEntering, xTickCount)
           /\ TimingOut!OverflowedOnce /\ xTickCount < xTimeOnEntering =>
                 TimingOut!SinceSet = TimingOut!TicksFrom(xTimeOnEntering, xTickCount)
           /\ TimingOut!OverflowedOnce /\ xTickCount >= xTimeOnEntering =>
                 TimingOut!SinceSet >= TICKS
BY
   DEF TimingOut!IInv, TimingOut!TypeOK, TimingOut!TimeIsKept,
       TimingOut!SinceSet, TimingOut!TicksFrom, TimingOut!OverflowedOnce

\* A finite wait is over, by the counts, exactly when it is.
LEMMA TimedOutIsExact ==
    ASSUME TimingOut!IInv, state = "wait", xTicksToWait # TimingOut!portMAX_DELAY
    PROVE  /\ TimingOut!TimedOut <=> elapsed >= asked
           /\ ~ TimingOut!TimedOut =>
                 TimingOut!SinceSet = TimingOut!TicksFrom(xTimeOnEntering, xTickCount)
<1>1. TimingOut!TimedOut <=> TimingOut!SinceSet >= xTicksToWait
  BY Distance DEF TimingOut!IInv, TimingOut!TypeOK, TimingOut!TimedOut
<1>2. TimingOut!SinceSet >= xTicksToWait <=> elapsed >= asked
  BY DEF TimingOut!IInv, TimingOut!TypeOK, TimingOut!SinceSet
<1>3. ~ TimingOut!TimedOut =>
          TimingOut!SinceSet = TimingOut!TicksFrom(xTimeOnEntering, xTickCount)
  BY Distance DEF TimingOut!TimedOut, TimingOut!IInv, TimingOut!TypeOK
<1> QED BY <1>1, <1>2, <1>3

LEMMA TimingNext == TimingOut!IInv /\ [TimingOut!Next]_(TimingOut!vars) => TimingOut!IInv'
<1> SUFFICES ASSUME TimingOut!IInv, [TimingOut!Next]_(TimingOut!vars)
             PROVE  TimingOut!IInv'
  OBVIOUS
<1>1. CASE TimingOut!xTaskIncrementTick
  <2>1. TimingOut!TypeOK'
    BY <1>1, SuccessorDiffers
       DEF TimingOut!xTaskIncrementTick, TimingOut!IInv, TimingOut!TypeOK
  <2>2. TimingOut!TimeIsKept'
    BY <1>1, SuccessorDiffers
       DEF TimingOut!xTaskIncrementTick, TimingOut!IInv, TimingOut!TypeOK,
           TimingOut!TimeIsKept,
       TimingOut!SinceSet, TimingOut!OverflowedOnce, TimingOut!Successor
  <2> QED BY <2>1, <2>2 DEF TimingOut!IInv
<1>2. ASSUME NEW n \in Wait, TimingOut!BeginWait(n) PROVE TimingOut!IInv'
  BY <1>2
     DEF TimingOut!BeginWait, TimingOut!vTaskSetTimeOutState, TimingOut!IInv,
         TimingOut!TypeOK, TimingOut!TimeIsKept, TimingOut!SinceSet
<1>3. CASE TimingOut!xTaskCheckForTimeOut
  <2>1. CASE state' = "expired"
    BY <1>3, <2>1
       DEF TimingOut!xTaskCheckForTimeOut, TimingOut!IInv, TimingOut!TypeOK,
           TimingOut!TimeIsKept, TimingOut!vTaskSetTimeOutState
  <2>2. CASE xTicksToWait = TimingOut!portMAX_DELAY
    BY <1>3, <2>2
       DEF TimingOut!xTaskCheckForTimeOut, TimingOut!IInv, TimingOut!TypeOK,
           TimingOut!TimeIsKept, TimingOut!SinceSet
  <2>3. CASE xTicksToWait # TimingOut!portMAX_DELAY /\ state' # "expired"
    <3>1. /\ ~ TimingOut!TimedOut /\ TimingOut!AdjustForTimeRemaining
          /\ state' = state /\ state = "wait"
      BY <1>3, <2>3 DEF TimingOut!xTaskCheckForTimeOut
    <3> DEFINE d == TimingOut!TicksFrom(xTimeOnEntering, xTickCount)
    <3>2. d \in Nat /\ d < xTicksToWait /\ TimingOut!SinceSet = d
      BY <3>1, <2>3, Distance, TimedOutIsExact
         DEF TimingOut!TimedOut, TimingOut!IInv, TimingOut!TypeOK
    <3>3. /\ xTicksToWait' = xTicksToWait - d
          /\ xOverflowCount' = xNumOfOverflows /\ xTimeOnEntering' = xTickCount
          /\ UNCHANGED <<xTickCount, xNumOfOverflows, asked, elapsed>>
      BY <1>3, <3>1
         DEF TimingOut!xTaskCheckForTimeOut, TimingOut!AdjustForTimeRemaining,
         TimingOut!vTaskSetTimeOutState
    <3> HIDE DEF d
    <3>4. TimingOut!SinceSet' = 0
      BY <3>2, <3>3 DEF TimingOut!SinceSet, TimingOut!IInv, TimingOut!TypeOK
    <3>5. TimingOut!TypeOK'
      BY <3>1, <3>2, <3>3 DEF TimingOut!IInv, TimingOut!TypeOK
    <3>6. TimingOut!TimeIsKept'
      BY <2>3, <3>1, <3>2, <3>3, <3>4
         DEF TimingOut!IInv, TimingOut!TypeOK, TimingOut!TimeIsKept
    <3> QED BY <3>5, <3>6 DEF TimingOut!IInv
  <2> QED BY <2>1, <2>2, <2>3
<1>4. CASE TimingOut!EndWait
  BY <1>4 DEF TimingOut!EndWait, TimingOut!IInv, TimingOut!TypeOK, TimingOut!TimeIsKept
<1>5. CASE UNCHANGED TimingOut!vars
  BY <1>5
     DEF TimingOut!vars, TimingOut!IInv, TimingOut!TypeOK, TimingOut!TimeIsKept,
         TimingOut!SinceSet
<1> QED BY <1>1, <1>2, <1>3, <1>4, <1>5 DEF TimingOut!Next

\* What is left of the time and the ticks since the last look stay in step with
\* the time the call was given.
THEOREM TimingHolds == Spec => []TimingOut!IInv
BY Composed, TimingInit, TimingNext, PTL DEF TimingOut!Spec

\* A look finds the time over exactly when it is.
THEOREM LooksAreExact == Spec => TimesOutOnTime
<1>1. TimingOut!IInv /\ TimingOut!xTaskCheckForTimeOut =>
          (state' = "expired" <=> asked # TimingOut!portMAX_DELAY /\ elapsed >= asked)
  <2> SUFFICES ASSUME TimingOut!IInv, TimingOut!xTaskCheckForTimeOut
               PROVE  state' = "expired" <=>
                          asked # TimingOut!portMAX_DELAY /\ elapsed >= asked
    OBVIOUS
  <2>1. /\ state = "wait"
        /\ xTicksToWait = TimingOut!portMAX_DELAY <=> asked = TimingOut!portMAX_DELAY
    BY DEF TimingOut!xTaskCheckForTimeOut, TimingOut!IInv, TimingOut!TimeIsKept
  <2>2. CASE xTicksToWait = TimingOut!portMAX_DELAY
    BY <2>1, <2>2 DEF TimingOut!xTaskCheckForTimeOut
  <2>3. CASE xTicksToWait # TimingOut!portMAX_DELAY
    <3>1. state' = "expired" <=> TimingOut!TimedOut
      BY <2>1, <2>3 DEF TimingOut!xTaskCheckForTimeOut
    <3> QED BY <2>1, <2>3, <3>1, TimedOutIsExact
  <2> QED BY <2>2, <2>3
<1> QED BY <1>1, Composed, TimingHolds, PTL
    DEF TimesOutOnTime, TimingOut!TimesOutOnTime, TimingOut!Spec

HIDE SizeAssumption DEF TimingOut!portMAX_DELAY, TimingOut!Tick

-----------------------------------------------------------------------------
(***************************************************************************)
(* QueueStorage.  The pointers and the count agree.                        *)
(***************************************************************************)
\* The operators on sequences, as functions.
LEMMA AppendTail ==
    ASSUME NEW S, NEW s \in Seq(S), NEW x \in S
    PROVE  /\ Append(s, x) =
                 [i \in 1..Len(s) + 1 |-> IF i = Len(s) + 1 THEN x ELSE s[i]]
           /\ s # <<>> => Tail(s) = [i \in 1..Len(s) - 1 |-> s[i + 1]]
<1>1. \A q \in Seq(S) : q = [i \in 1..Len(q) |-> q[i]]
  OBVIOUS
<1>2. Append(s, x) =
        [i \in 1..Len(s) + 1 |-> IF i = Len(s) + 1 THEN x ELSE s[i]]
  <2>1. Append(s, x) = [i \in 1..Len(s) + 1 |-> Append(s, x)[i]]
    <3>1. Append(s, x) \in Seq(S) /\ Len(Append(s, x)) = Len(s) + 1
      BY AppendProperties
    <3>2. Append(s, x) = [i \in 1..Len(Append(s, x)) |-> Append(s, x)[i]]
      BY <1>1, <3>1, Zenon
    <3> QED BY <3>1, <3>2, Zenon
  <2>2. \A i \in 1..Len(s) + 1 :
          Append(s, x)[i] = IF i = Len(s) + 1 THEN x ELSE s[i]
    BY AppendProperties
  <2> QED BY <2>1, <2>2
<1>3. ASSUME s # <<>>
      PROVE  Tail(s) = [i \in 1..Len(s) - 1 |-> s[i + 1]]
  <2>1. Tail(s) = [i \in 1..Len(s) - 1 |-> Tail(s)[i]]
    BY <1>1, <1>3, HeadTailProperties
  <2> QED BY <2>1, <1>3, HeadTailProperties
<1> QED BY <1>2, <1>3

Slot == Storing!Slot
Forward(p, n) == Storing!Forward(p, n)
Back(p, n) == Storing!Back(p, n)
SlotAfter(p, i, n) == Storing!SlotAfter(p, i, n)
Contents == Storing!Contents

USE LengthAssumption DEF Storing!Slot, Slot, Forward, Back, SlotAfter, Contents

\* Where the two pointers can be.
LEMMA Around ==
    ASSUME NEW n \in Nat \ {0}, NEW p \in 0..n - 1
    PROVE  /\ Forward(p, n) \in 0..n - 1 /\ Back(p, n) \in 0..n - 1
           /\ Forward(Back(p, n), n) = p
           /\ \A i \in 0..n : SlotAfter(p, i, n) \in 0..n - 1
           /\ \A i \in 0..n - 1 :
                 /\ SlotAfter(Forward(p, n), i, n) =
                        SlotAfter(p, i + 1, n)
                 /\ SlotAfter(Back(p, n), i + 1, n) =
                        SlotAfter(p, i, n)
                 /\ Forward(SlotAfter(p, i, n), n) =
                        SlotAfter(p, i + 1, n)
           /\ SlotAfter(p, 0, n) = p
           /\ SlotAfter(p, 1, n) = Forward(p, n)
           /\ SlotAfter(p, n, n) = p
BY DEF Storing!Forward, Storing!Back, Storing!SlotAfter

\* Different places in a queue that is not over-full are different slots.
LEMMA Apart ==
    ASSUME NEW n \in Nat \ {0}, NEW p \in 0..n - 1, NEW i \in 0..n, NEW j \in 1..n,
           i < j, j - i < n
    PROVE  SlotAfter(p, i, n) # SlotAfter(p, j, n)
BY DEF Storing!SlotAfter

LEMMA StoringInit == Storing!Init => Storing!IInv
BY DEF Storing!Init, Storing!IInv, Storing!TypeOK, Storing!PointersAgree,
       Storing!Forward, Storing!SlotAfter

LEMMA StoringNext == Storing!IInv /\ [Storing!Next]_(Storing!vars) => Storing!IInv'
<1> SUFFICES ASSUME Storing!IInv, [Storing!Next]_(Storing!vars) PROVE Storing!IInv'
  OBVIOUS
<1> USE DEF Storing!IInv, Storing!TypeOK
<1>1. ASSUME NEW x \in Item, Storing!xQueueGenericSend(x) PROVE Storing!IInv'
  <2>1. CASE uxMessagesWaiting < uxLength /\ Storing!CopyToBack(x)
    <3>1. Forward(SlotAfter(pcReadFrom, uxMessagesWaiting, uxLength), uxLength) =
          SlotAfter(pcReadFrom, uxMessagesWaiting + 1, uxLength)
      BY <2>1, Around
    <3>2. Storing!PointersAgree'
      BY <1>1, <2>1, <3>1
         DEF Storing!xQueueGenericSend, Storing!CopyToBack,
             Storing!PointersAgree
    <3>3. Forward(pcWriteTo, uxLength) \in Slot
      BY Around
    <3>4. Storing!TypeOK'
      BY <1>1, <2>1, <3>3 DEF Storing!xQueueGenericSend, Storing!CopyToBack
    <3> QED BY <3>2, <3>4
  <2>2. CASE uxMessagesWaiting < uxLength /\ Storing!CopyToFront(x)
    <3>1. SlotAfter(Back(pcReadFrom, uxLength), uxMessagesWaiting + 1, uxLength) =
          SlotAfter(pcReadFrom, uxMessagesWaiting, uxLength)
      BY <2>2, Around
    <3>2. Storing!PointersAgree'
      BY <1>1, <2>2, <3>1
         DEF Storing!xQueueGenericSend, Storing!CopyToFront,
             Storing!PointersAgree
    <3>3. Storing!TypeOK'
      BY <1>1, <2>2, Around DEF Storing!xQueueGenericSend, Storing!CopyToFront
    <3> QED BY <3>2, <3>3
  <2>3. CASE uxLength = 1 /\ Storing!CopyOver(x)
    BY <1>1, <2>3
       DEF Storing!xQueueGenericSend, Storing!CopyOver, Storing!PointersAgree,
           Storing!Forward, Storing!Back,
       Storing!SlotAfter
  <2> QED BY <1>1, <2>1, <2>2, <2>3 DEF Storing!xQueueGenericSend
<1>2. CASE Storing!xQueueGenericReceive
  <2>1. uxMessagesWaiting - 1 \in 0..uxLength - 1
    BY <1>2 DEF Storing!xQueueGenericReceive
  <2>2. SlotAfter(Forward(pcReadFrom, uxLength), uxMessagesWaiting - 1, uxLength) =
        SlotAfter(pcReadFrom, uxMessagesWaiting - 1 + 1, uxLength)
    BY <2>1, Around
  <2>3. Storing!PointersAgree'
    <3>1. SlotAfter(Forward(pcReadFrom, uxLength), uxMessagesWaiting - 1, uxLength) =
          SlotAfter(pcReadFrom, uxMessagesWaiting, uxLength)
      BY <2>2
    <3> QED BY <1>2, <3>1
       DEF Storing!xQueueGenericReceive, Storing!CopyDataFromQueue,
           Storing!PointersAgree
  <2>4. Storing!TypeOK'
    <3>1. Forward(pcReadFrom, uxLength) \in Slot
      BY Around
    <3> QED BY <1>2, <2>1, <3>1
       DEF Storing!xQueueGenericReceive, Storing!CopyDataFromQueue
  <2> QED BY <2>3, <2>4
<1>3. CASE Storing!xQueuePeek
  BY <1>3, Around DEF Storing!xQueuePeek, Storing!PointersAgree
<1>4. CASE Storing!xQueueGenericReset
  BY <1>4
     DEF Storing!xQueueGenericReset, Storing!EmptyPointers,
         Storing!PointersAgree, Storing!Forward, Storing!SlotAfter
<1>5. CASE UNCHANGED Storing!vars
  BY <1>5 DEF Storing!vars, Storing!PointersAgree
<1> QED BY <1>1, <1>2, <1>3, <1>4, <1>5 DEF Storing!Next

\* The pointers and the count of a queue agree, for every length.
THEOREM StoringHolds == Spec => []Storing!IInv
BY Composed, StoringInit, StoringNext, PTL DEF Storing!Spec
-----------------------------------------------------------------------------
(***************************************************************************)
(* What each call does to the contents.                                    *)
(***************************************************************************)
LEMMA ContentsType ==
    ASSUME Storing!IInv
    PROVE  /\ Contents \in Seq(Item) /\ Len(Contents) = uxMessagesWaiting
           /\ \A i \in 1..uxMessagesWaiting :
                 Contents[i] = pcHead[SlotAfter(pcReadFrom, i, uxLength)]
<1>1. \A i \in 1..uxMessagesWaiting : pcHead[SlotAfter(pcReadFrom, i, uxLength)] \in Item
  <2> SUFFICES ASSUME NEW i \in 1..uxMessagesWaiting
               PROVE  SlotAfter(pcReadFrom, i, uxLength) \in Slot
    BY DEF Storing!IInv, Storing!TypeOK
  <2>1. i \in 0..uxLength
    BY DEF Storing!IInv, Storing!TypeOK
  <2> QED BY <2>1, Around DEF Storing!IInv, Storing!TypeOK
<1>2. Contents \in [1..uxMessagesWaiting -> Item]
  BY <1>1 DEF Storing!Contents
<1>3. uxMessagesWaiting \in Nat
  BY DEF Storing!IInv, Storing!TypeOK
<1> HIDE DEF Storing!Slot, Slot
<1>4. Contents \in Seq(Item) /\ Len(Contents) = uxMessagesWaiting
  BY <1>2, <1>3
<1> QED BY <1>4 DEF Storing!Contents

LEMMA SendsToBack ==
    ASSUME Storing!IInv, NEW x \in Item, uxMessagesWaiting < uxLength,
           Storing!CopyToBack(x), UNCHANGED uxLength
    PROVE  Contents' = Append(Contents, x)
<1> DEFINE n == uxMessagesWaiting
<1>1. pcWriteTo = SlotAfter(pcReadFrom, n + 1, uxLength)
  BY Around DEF Storing!IInv, Storing!TypeOK, Storing!PointersAgree
<1>2. \A i \in 1..n : SlotAfter(pcReadFrom, i, uxLength) # pcWriteTo
  BY <1>1, Apart DEF Storing!IInv, Storing!TypeOK
<1>3. \A i \in 1..n + 1 :
        pcHead'[SlotAfter(pcReadFrom, i, uxLength)] =
            IF i = n + 1 THEN x ELSE pcHead[SlotAfter(pcReadFrom, i, uxLength)]
  <2> SUFFICES ASSUME NEW i \in 1..n + 1
               PROVE  pcHead'[SlotAfter(pcReadFrom, i, uxLength)] =
                        IF i = n + 1 THEN x ELSE pcHead[SlotAfter(pcReadFrom, i, uxLength)]
    OBVIOUS
  <2>1. SlotAfter(pcReadFrom, i, uxLength) \in Slot
    <3>1. i \in 0..uxLength
      BY DEF Storing!IInv, Storing!TypeOK
    <3> QED BY <3>1, Around DEF Storing!IInv, Storing!TypeOK
  <2>2. CASE i = n + 1
    BY <2>1, <2>2, <1>1 DEF Storing!IInv, Storing!TypeOK, Storing!CopyToBack
  <2>3. CASE i # n + 1
    BY <2>1, <2>3, <1>2 DEF Storing!IInv, Storing!TypeOK, Storing!CopyToBack
  <2> QED BY <2>2, <2>3
<1>4. Contents' = [i \in 1..n + 1 |-> pcHead'[SlotAfter(pcReadFrom, i, uxLength)]]
  BY DEF Storing!Contents, Storing!CopyToBack
<1>5. Append(Contents, x) =
        [i \in 1..n + 1 |-> IF i = n + 1 THEN x ELSE Contents[i]]
  BY ContentsType, AppendTail
<1>6. \A i \in 1..n + 1 : pcHead'[SlotAfter(pcReadFrom, i, uxLength)] =
                          IF i = n + 1 THEN x ELSE Contents[i]
  BY <1>3, ContentsType DEF Storing!IInv, Storing!TypeOK
<1> QED BY <1>4, <1>5, <1>6

LEMMA SendsToFront ==
    ASSUME Storing!IInv, NEW x \in Item, uxMessagesWaiting < uxLength,
           Storing!CopyToFront(x), UNCHANGED uxLength
    PROVE  Contents' = <<x>> \o Contents
<1> DEFINE n == uxMessagesWaiting
<1>1. \A i \in 1..n : SlotAfter(pcReadFrom, i, uxLength) # pcReadFrom
  BY Apart, Around DEF Storing!IInv, Storing!TypeOK
<1>2. \A i \in 1..n + 1 :
        pcHead'[SlotAfter(Back(pcReadFrom, uxLength), i, uxLength)] =
            IF i = 1 THEN x ELSE pcHead[SlotAfter(pcReadFrom, i - 1, uxLength)]
  <2> SUFFICES ASSUME NEW i \in 1..n + 1
               PROVE  pcHead'[SlotAfter(Back(pcReadFrom, uxLength), i, uxLength)] =
                        IF i = 1 THEN x ELSE pcHead[SlotAfter(pcReadFrom, i - 1, uxLength)]
    OBVIOUS
  <2>1. SlotAfter(Back(pcReadFrom, uxLength), i, uxLength) =
        SlotAfter(pcReadFrom, i - 1, uxLength)
    BY Around DEF Storing!IInv, Storing!TypeOK
  <2>2. SlotAfter(pcReadFrom, i - 1, uxLength) \in Slot
    <3>1. i - 1 \in 0..uxLength
      BY DEF Storing!IInv, Storing!TypeOK
    <3> QED BY <3>1, Around DEF Storing!IInv, Storing!TypeOK
  <2>3. CASE i = 1
    BY <2>1, <2>3, Around DEF Storing!IInv, Storing!TypeOK, Storing!CopyToFront
  <2>4. CASE i # 1
    BY <2>1, <2>2, <2>4, <1>1 DEF Storing!IInv, Storing!TypeOK, Storing!CopyToFront
  <2> QED BY <2>3, <2>4
<1>3. Contents' =
        [i \in 1..n + 1 |-> pcHead'[SlotAfter(Back(pcReadFrom, uxLength), i, uxLength)]]
  BY DEF Storing!Contents, Storing!CopyToFront
<1>4. <<x>> \o Contents =
        [i \in 1..n + 1 |-> IF i = 1 THEN x ELSE Contents[i - 1]]
  BY ContentsType DEF Storing!IInv, Storing!TypeOK
<1>5. \A i \in 1..n + 1 : pcHead'[SlotAfter(Back(pcReadFrom, uxLength), i, uxLength)] =
                          IF i = 1 THEN x ELSE Contents[i - 1]
  BY <1>2, ContentsType DEF Storing!IInv, Storing!TypeOK
<1> QED BY <1>3, <1>4, <1>5

LEMMA Overwrites ==
    ASSUME Storing!IInv, NEW x \in Item, uxLength = 1,
           Storing!CopyOver(x), UNCHANGED uxLength
    PROVE  Contents' = <<x>>
<1>1. uxMessagesWaiting' = 1 /\ pcReadFrom' = 0 /\ pcHead'[0] = x
  BY DEF Storing!IInv, Storing!TypeOK, Storing!CopyOver, Storing!Back
<1>2. Contents' = [i \in 1..1 |-> pcHead'[SlotAfter(0, i, uxLength)]]
  BY <1>1 DEF Storing!Contents
<1>3. SlotAfter(0, 1, uxLength) = 0
  BY DEF Storing!SlotAfter
<1>4. Contents' = [i \in 1..1 |-> x]
  BY <1>1, <1>2, <1>3
<1> QED BY <1>4

LEMMA FrontIsNext ==
    ASSUME Storing!IInv, uxMessagesWaiting > 0
    PROVE  Contents # <<>> /\ Head(Contents) = pcHead[Forward(pcReadFrom, uxLength)]
<1>1. Contents # <<>> /\ Head(Contents) = Contents[1]
  BY ContentsType DEF Storing!IInv, Storing!TypeOK
<1>2. Contents[1] = pcHead[SlotAfter(pcReadFrom, 1, uxLength)]
  BY ContentsType DEF Storing!IInv, Storing!TypeOK
<1> QED BY <1>1, <1>2, Around DEF Storing!IInv, Storing!TypeOK

LEMMA Receives ==
    ASSUME Storing!IInv, Storing!xQueueGenericReceive
    PROVE  Contents' = Tail(Contents)
<1> DEFINE n == uxMessagesWaiting
<1>1. \A i \in 1..n - 1 :
        pcHead[SlotAfter(Forward(pcReadFrom, uxLength), i, uxLength)] = Contents[i + 1]
  <2> SUFFICES ASSUME NEW i \in 1..n - 1
               PROVE  pcHead[SlotAfter(Forward(pcReadFrom, uxLength), i, uxLength)] = Contents[i + 1]
    OBVIOUS
  <2>1. SlotAfter(Forward(pcReadFrom, uxLength), i, uxLength) =
        SlotAfter(pcReadFrom, i + 1, uxLength)
    BY Around DEF Storing!IInv, Storing!TypeOK
  <2>2. i + 1 \in 1..uxMessagesWaiting
    BY DEF Storing!IInv, Storing!TypeOK
  <2> QED BY <2>1, <2>2, ContentsType
<1>2. Contents' =
        [i \in 1..n - 1 |-> pcHead[SlotAfter(Forward(pcReadFrom, uxLength), i, uxLength)]]
  BY DEF Storing!Contents, Storing!xQueueGenericReceive, Storing!CopyDataFromQueue
<1>3. Tail(Contents) = [i \in 1..n - 1 |-> Contents[i + 1]]
  BY ContentsType, AppendTail, FrontIsNext DEF Storing!xQueueGenericReceive
<1> QED BY <1>1, <1>2, <1>3

LEMMA StoringInitMaps == Storing!Init => Storing!Abstract!Init
<1> SUFFICES ASSUME Storing!Init PROVE Storing!Abstract!Init
  OBVIOUS
<1>1. Contents = <<>>
  BY DEF Storing!Init, Storing!Contents
<1> QED BY <1>1 DEF Storing!Init, Storing!Abstract!Init

LEMMA StoringStepMaps ==
    Storing!IInv /\ [Storing!Next]_(Storing!vars)
        => [Storing!Abstract!Next]_(Storing!Abstract!vars)
<1> SUFFICES ASSUME Storing!IInv, [Storing!Next]_(Storing!vars)
             PROVE  [Storing!Abstract!Next]_<<uxLength, Contents, pvBuffer>>
  BY DEF Storing!Abstract!vars
<1>1. ASSUME NEW x \in Item, Storing!xQueueGenericSend(x) PROVE Storing!Abstract!Next
  <2>1. CASE uxMessagesWaiting < uxLength /\ Storing!CopyToBack(x)
    BY <1>1, <2>1, SendsToBack, ContentsType
       DEF Storing!xQueueGenericSend, Storing!Abstract!Next, Storing!Abstract!PutBack
  <2>2. CASE uxMessagesWaiting < uxLength /\ Storing!CopyToFront(x)
    BY <1>1, <2>2, SendsToFront, ContentsType
       DEF Storing!xQueueGenericSend, Storing!Abstract!Next, Storing!Abstract!PutFront
  <2>3. CASE uxLength = 1 /\ Storing!CopyOver(x)
    BY <1>1, <2>3, Overwrites
       DEF Storing!xQueueGenericSend, Storing!Abstract!Next, Storing!Abstract!Replace
  <2> QED BY <1>1, <2>1, <2>2, <2>3 DEF Storing!xQueueGenericSend
<1>2. CASE Storing!xQueueGenericReceive
  BY <1>2, Receives, FrontIsNext
     DEF Storing!xQueueGenericReceive, Storing!CopyDataFromQueue,
         Storing!Abstract!Next, Storing!Abstract!Take
<1>3. CASE Storing!xQueuePeek
  <2>1. Contents' = Contents
    BY <1>3 DEF Storing!xQueuePeek, Storing!Contents
  <2> QED BY <1>3, <2>1, FrontIsNext
     DEF Storing!xQueuePeek, Storing!Abstract!Next, Storing!Abstract!Look
<1>4. CASE Storing!xQueueGenericReset
  <2>1. Contents' = <<>>
    BY <1>4 DEF Storing!xQueueGenericReset, Storing!Contents
  <2> QED BY <1>4, <2>1
     DEF Storing!xQueueGenericReset, Storing!Abstract!Next,
         Storing!Abstract!Discard
<1>5. CASE UNCHANGED Storing!vars
  BY <1>5 DEF Storing!vars, Storing!Contents
<1> QED BY <1>1, <1>2, <1>3, <1>4, <1>5 DEF Storing!Next

\* A block of any length with the two pointers is a bounded buffer: no item is
\* lost, given twice, or given out of order.
THEOREM BufferImplemented == Spec => ImplementsBuffer
<1>1. Storing!IInv /\ [Storing!Next]_(Storing!vars)
          => (part = "QueueStorage" =>
                  [Storing!Abstract!Next]_(Storing!Abstract!vars))
  BY StoringStepMaps
<1> QED BY <1>1, Composed, StoringInitMaps, StoringHolds, PTL
    DEF Storing!Spec, ImplementsBuffer

HIDE LengthAssumption DEF Storing!Slot, Slot, Forward, Back, SlotAfter, Contents

-----------------------------------------------------------------------------
(***************************************************************************)
(* CriticalNesting.                                                        *)
(***************************************************************************)
MaskingType ==
    /\ running \in Thread
    /\ ulCriticalNesting \in Nat
    /\ masked \in BOOLEAN /\ ulReturn \in BOOLEAN
    /\ stacked \in [Thread -> Nat]
    /\ entered \in [Thread -> Nat]
    /\ critical_pc \in [Thread -> {"run", "enter", "exit"}]
    /\ isr \in {"out", "in", "tick", "call"}

\* The count is the running task's, and those of the others are in their contexts:
\* nobody is switched out between the mask and the count of a section.
NestingSaved ==
    /\ ulCriticalNesting = entered[running]
    /\ \A t \in Thread : t # running => /\ stacked[t] = entered[t]
                                        /\ critical_pc[t] = "run"

\* The mask, at every place.
MaskFits ==
    /\ isr = "out" =>
          /\ critical_pc[running] = "run" => (masked <=> entered[running] > 0)
          /\ critical_pc[running] \in {"enter", "exit"} => masked
          /\ critical_pc[running] = "exit" => entered[running] = 0
    /\ isr # "out" => critical_pc[running] = "run" /\ entered[running] = 0
    /\ isr = "in" => ~ masked
    /\ ~ ulReturn

MaskingInv == MaskingType /\ NestingSaved /\ MaskFits

LEMMA MaskingInit == Masking!Init => MaskingInv
<1> SUFFICES ASSUME Masking!Init PROVE MaskingInv
  OBVIOUS
<1>1. running \in Thread /\ isr = "out" /\ ~ masked /\ ~ ulReturn
  BY DEF Masking!Init
<1>2. masked \in BOOLEAN /\ ulReturn \in BOOLEAN
  BY Zenon DEF Masking!Init
<1>3. /\ ulCriticalNesting = 0
      /\ stacked = [t \in Thread |-> 0]
      /\ entered = [t \in Thread |-> 0]
      /\ critical_pc = [t \in Thread |-> "run"]
  BY DEF Masking!Init
<1> QED BY <1>1, <1>2, <1>3 DEF MaskingInv, MaskingType, NestingSaved, MaskFits

\* A switch, while the running task is at "run", and interrupts are as they were.
LEMMA MaskingSwitch ==
    ASSUME MaskingInv, NEW t \in Thread, Masking!SwitchTo(t),
           critical_pc[running] = "run", isr \in {"out", "in"}, isr' = "out",
           UNCHANGED <<critical_pc, ulReturn, entered>>
    PROVE  MaskingInv'
<1> USE DEF MaskingInv, MaskingType, NestingSaved
<1>1. /\ stacked' = [stacked EXCEPT ![running] = ulCriticalNesting]
      /\ running' = t /\ ulCriticalNesting' = stacked'[t]
      /\ masked' = (stacked'[t] # 0)
  BY Zenon DEF Masking!SwitchTo, Masking!RestoredMask
<1>2. \A u \in Thread : stacked'[u] = entered[u]
  BY <1>1
<1>3. MaskingType'
  BY <1>1, <1>2
<1>4. NestingSaved'
  BY <1>1, <1>2
<1>5. (masked' <=> entered[t] > 0) /\ critical_pc[t] = "run"
  <2>1. masked' <=> stacked'[t] # 0
    BY <1>1, Zenon
  <2> QED BY <1>1, <1>2, <2>1
<1> QED BY <1>1, <1>3, <1>4, <1>5 DEF MaskFits

LEMMA MaskingNext == MaskingInv /\ [Masking!Next]_(Masking!vars) => MaskingInv'
<1> SUFFICES ASSUME MaskingInv, Masking!Next \/ UNCHANGED Masking!vars
             PROVE  MaskingInv'
  OBVIOUS
<1> USE DEF MaskingInv, MaskingType, NestingSaved, MaskFits, Masking!At, Masking!GoTo
<1>1. CASE Masking!EnterMask
  BY <1>1 DEF Masking!EnterMask
<1>2. CASE Masking!EnterCount
  BY <1>2 DEF Masking!EnterCount
<1>3. CASE Masking!ExitCount
  <2>1. /\ isr = "out" /\ critical_pc[running] = "run"
        /\ ulCriticalNesting > 0 /\ ulCriticalNesting' = ulCriticalNesting - 1
        /\ entered' = [entered EXCEPT ![running] = @ - 1]
        /\ UNCHANGED <<running, masked, stacked, isr, ulReturn>>
    BY <1>3 DEF Masking!ExitCount
  <2>2. critical_pc' = [critical_pc EXCEPT ![running] =
                           IF ulCriticalNesting' = 0 THEN "exit" ELSE "run"]
    BY <1>3, Zenon DEF Masking!ExitCount
  <2>3. CASE ulCriticalNesting = 1
    <3>1. critical_pc' = [critical_pc EXCEPT ![running] = "exit"]
      BY <2>1, <2>2, <2>3
    <3> QED BY <2>1, <2>3, <3>1
  <2>4. CASE ulCriticalNesting # 1
    <3>1. critical_pc' = [critical_pc EXCEPT ![running] = "run"]
      BY <2>1, <2>2, <2>4
    <3> QED BY <2>1, <2>4, <3>1
  <2> QED BY <2>3, <2>4
<1>4. CASE Masking!ExitMask
  <2>1. /\ isr = "out" /\ critical_pc[running] = "exit" /\ ~ masked'
        /\ critical_pc' = [critical_pc EXCEPT ![running] = "run"]
        /\ UNCHANGED <<running, ulCriticalNesting, stacked, isr, ulReturn, entered>>
    BY <1>4, Zenon DEF Masking!ExitMask
  <2>2. masked' \in BOOLEAN
    BY <1>4, Zenon DEF Masking!ExitMask
  <2> QED BY <2>1, <2>2
<1>5. ASSUME NEW t \in Thread, Masking!Yield(t) PROVE MaskingInv'
  BY <1>5, MaskingSwitch DEF Masking!Yield
<1>6. CASE Masking!Interrupt
  BY <1>6 DEF Masking!Interrupt
<1>7. ASSUME NEW handler \in {"tick", "call"}, Masking!SetMask(handler)
      PROVE  MaskingInv'
  BY <1>7 DEF Masking!SetMask
<1>8. ASSUME NEW switch \in BOOLEAN, Masking!ClearMask(switch) PROVE MaskingInv'
  BY <1>8 DEF Masking!ClearMask
<1>9. ASSUME NEW t \in Thread, Masking!ReturnFromInterrupt(t) PROVE MaskingInv'
  <2>1. CASE ulPortYieldRequired
    BY <1>9, <2>1, MaskingSwitch DEF Masking!ReturnFromInterrupt
  <2>2. CASE ~ ulPortYieldRequired
    BY <1>9, <2>2 DEF Masking!ReturnFromInterrupt
  <2> QED BY <2>1, <2>2
<1>10. CASE UNCHANGED Masking!vars
  BY <1>10 DEF Masking!vars
<1> QED BY <1>1, <1>2, <1>3, <1>4, <1>5, <1>6, <1>7, <1>8, <1>9, <1>10
        DEF Masking!Next

\* Interrupts that may use the kernel are out exactly while the running task is in
\* a section of its own, for any number of tasks and any depth of nesting.
THEOREM SectionsHold == Spec => []SectionsAreTheTasks
<1>1. MaskingInv => SectionsAreTheTasks
  BY DEF MaskingInv, MaskingType, NestingSaved, MaskFits, SectionsAreTheTasks,
         Masking!SectionsAreTheTasks, Masking!At
<1> QED BY <1>1, Composed, MaskingInit, MaskingNext, PTL DEF Masking!Spec

-----------------------------------------------------------------------------
(***************************************************************************)
(* EventChannels.                                                          *)
(***************************************************************************)
Actor == {"task", "handler"}

SignallingType ==
    /\ evtchn_pending \subseteq Signalling!Port
    /\ sending \in [Signalling!Port -> {"done", "select", "upcall"}]
    /\ busy \in [Actor -> {"no", "test", "select", "upcall", "clear", "default"}]
    /\ on = [a \in Actor |-> on[a]]

\* The callback looks at new selectors with none left of the last round, and a
\* handler unmasks only inside of it.
CallbackPlaces ==
    /\ callback \in {"out", "exchange"} => l1 = {}
    /\ busy["handler"] # "no" => callback = "return"

\* Somebody will have the callback look at the selectors.
Told(selector) ==
    evtchn_upcall_pending \/ callback = "exchange" \/ Signalling!Tells(selector)

SelectorsTold == \A s \in evtchn_pending_sel : Told(s)

\* Somebody has seen the event, or has still to look for it.
OnItsWay(p) ==
    \/ Signalling!Selector(p) \in l1 \cup evtchn_pending_sel
    \/ sending[p] = "select"
    \/ \E a \in Actor : on[a] = p /\ busy[a] \in {"test", "select"}

EdgesSeen == \A p \in evtchn_pending \ evtchn_mask : OnItsWay(p)

SignallingInv == SignallingType /\ CallbackPlaces /\ SelectorsTold /\ EdgesSeen

LEMMA SignallingInit == Signalling!Init => SignallingInv
BY DEF Signalling!Init, SignallingInv, SignallingType, CallbackPlaces, SelectorsTold,
       EdgesSeen, Actor

LEMMA SignallingNext == SignallingInv /\ [Signalling!Next]_(Signalling!vars) => SignallingInv'
<1> SUFFICES ASSUME SignallingInv, Signalling!Next \/ UNCHANGED Signalling!vars
             PROVE  SignallingInv'
  OBVIOUS
<1> USE DEF SignallingInv, SignallingType, CallbackPlaces, SelectorsTold, EdgesSeen,
            Told, OnItsWay, Actor, Signalling!Tells,
            Signalling!shared, Signalling!guest, Signalling!tasks,
            Signalling!Runs, Signalling!Done, Signalling!Idle
<1>1. ASSUME NEW p \in Signalling!Port, Signalling!Send(p) PROVE SignallingInv'
  BY <1>1 DEF Signalling!Send
<1>2. ASSUME NEW p \in Signalling!Port, Signalling!SendSelect(p) PROVE SignallingInv'
  BY <1>2 DEF Signalling!SendSelect
<1>3. ASSUME NEW p \in Signalling!Port, Signalling!SendUpcall(p) PROVE SignallingInv'
  BY <1>3 DEF Signalling!SendUpcall
<1>4. CASE Signalling!Enter
  BY <1>4 DEF Signalling!Enter
<1>5. CASE Signalling!Exchange
  BY <1>5 DEF Signalling!Exchange
<1>6. CASE Signalling!Scan
  BY <1>6 DEF Signalling!Scan, Signalling!active_evtchns, Signalling!PendingPorts
<1>7. ASSUME NEW unmasks \in BOOLEAN, Signalling!do_event(unmasks) PROVE SignallingInv'
  BY <1>7 DEF Signalling!do_event
<1>8. CASE Signalling!Handled
  BY <1>8 DEF Signalling!Handled
<1>9. ASSUME NEW a \in Actor, Signalling!UnmaskTest(a) PROVE SignallingInv'
  BY <1>9 DEF Signalling!UnmaskTest, Signalling!Resends
<1>10. ASSUME NEW a \in Actor, Signalling!UnmaskSelect(a) PROVE SignallingInv'
  BY <1>10 DEF Signalling!UnmaskSelect
<1>11. ASSUME NEW a \in Actor, Signalling!UnmaskUpcall(a) PROVE SignallingInv'
  BY <1>11 DEF Signalling!UnmaskUpcall
<1>12. ASSUME NEW p \in Signalling!Port, Signalling!bind_evtchn(p) PROVE SignallingInv'
  BY <1>12 DEF Signalling!bind_evtchn
<1>13. ASSUME NEW p \in Signalling!Port, Signalling!unmask_evtchn(p) PROVE SignallingInv'
  BY <1>13 DEF Signalling!unmask_evtchn, Signalling!Begin
<1>14. ASSUME NEW p \in Signalling!Port, Signalling!unbind_evtchn(p) PROVE SignallingInv'
  BY <1>14 DEF Signalling!unbind_evtchn, Signalling!Begin
<1>15. CASE Signalling!UnbindClear
  BY <1>15 DEF Signalling!UnbindClear
<1>16. CASE Signalling!UnbindDefault
  BY <1>16 DEF Signalling!UnbindDefault
<1>17. CASE UNCHANGED Signalling!vars
  BY <1>17 DEF Signalling!vars
<1> QED BY <1>1, <1>2, <1>3, <1>4, <1>5, <1>6, <1>7, <1>8, <1>9, <1>10, <1>11, <1>12,
           <1>13, <1>14, <1>15, <1>16, <1>17
        DEF Signalling!Next, Signalling!Callback

\* An event on a port that is not masked is on its way, for any number of ports and
\* any width of the words that Xen shares with the guest.
THEOREM EdgesHold == Spec => []NoEdgeLost
<1>1. SignallingInv => NoEdgeLost
  BY DEF SignallingInv, SelectorsTold, EdgesSeen, Told, OnItsWay, Actor, NoEdgeLost, Signalling!NoEdgeLost
<1> QED BY <1>1, Composed, SignallingInit, SignallingNext, PTL DEF Signalling!Spec

-----------------------------------------------------------------------------
(***************************************************************************)
(* GrantTable.  First, who has which entry and what the other domain may   *)
(* do with it; then the free list.                                         *)
(***************************************************************************)
Ref == Granting!Ref

Filling == {"fill access", "fill transfer"}
Permitting == {"granted", "end access"}
Holding == Filling \cup Permitting \cup
           {"permit", "accept", "accepting", "end transfer", "committed", "put"}
Flag == {"permit_access", "reading", "writing",
         "accept_transfer", "transfer_committed", "transfer_completed"}
Counted == {"access", "transfer", "give"}

GrantingType ==
    /\ grant_pc \in [Owner -> Holding \cup Counted \cup {"run"}]
    /\ given \in [Ref -> Owner \cup {NULL}]
    /\ flags \in [Ref -> SUBSET Flag]
    /\ frame \in [Ref -> Owner \cup {NULL}]
    /\ map \in [Ref -> Owner \cup {NULL}]
    /\ ref \in [Owner -> Ref \cup {NULL}]
    /\ grant_seen \in [Owner -> SUBSET Flag]
    /\ gnttab_list \in [0..NR_GRANT_ENTRIES - 1 -> 0..NR_GRANT_ENTRIES - 1]
    /\ gnttab_sem \in Nat

\* A task in the middle of a call, or with a grant, has an entry of its own.
EntriesOwned ==
    /\ \A t \in Owner : grant_pc[t] \in Holding => ref[t] \in Ref /\ given[ref[t]] = t
    /\ \A r \in Ref : given[r] # NULL =>
                          grant_pc[given[r]] \in Holding /\ ref[given[r]] = r

\* The other domain uses what is permitted, which is the frame of the owner.
UsePermitted(r) ==
    /\ "permit_access" \in flags[r] =>
           given[r] # NULL /\ grant_pc[given[r]] \in Permitting
    /\ Granting!InUse(flags[r]) => "permit_access" \in flags[r]
    /\ map[r] # NULL => Granting!InUse(flags[r]) /\ map[r] = given[r]
    /\ given[r] # NULL /\ grant_pc[given[r]] \in Permitting \cup {"permit"} =>
           frame[r] = given[r]

Unowned == {r \in Ref : given[r] = NULL}
Counting == {t \in Owner : grant_pc[t] \in Counted}

\* The free entries in the order of the list.
IsFreeList(s) ==
    /\ \A i, j \in 1..Len(s) : s[i] = s[j] => i = j
    /\ gnttab_list[0] = IF s = <<>> THEN 0 ELSE s[1]
    /\ \A i \in 1..Len(s) : gnttab_list[s[i]] = IF i = Len(s) THEN 0 ELSE s[i + 1]
    /\ \A r \in Ref : given[r] = NULL <=> \E i \in 1..Len(s) : s[i] = r

FreeListed ==
    /\ \E s \in Seq(Ref) : IsFreeList(s)
    /\ gnttab_sem + Cardinality(Counting) = Cardinality(Unowned)

GrantingInv ==
    /\ GrantingType /\ EntriesOwned
    /\ \A r \in Ref : UsePermitted(r)
    /\ FreeListed

\* The entries are numbers, none of them zero.
LEMMA RefFacts ==
    /\ Ref \subseteq Nat \ {0} /\ Ref \subseteq 0..NR_GRANT_ENTRIES - 1
    /\ 0 \notin Ref /\ 0 \in 0..NR_GRANT_ENTRIES - 1
    /\ IsFiniteSet(Ref) /\ Cardinality(Ref) = NR_GRANT_ENTRIES - NR_RESERVED_ENTRIES
<1> USE GrantAssumption
<1>1. Ref = NR_RESERVED_ENTRIES..NR_GRANT_ENTRIES - 1
  BY DEF Ref, Granting!Ref
<1>2. IsFiniteSet(Ref) /\ Cardinality(Ref) = NR_GRANT_ENTRIES - NR_RESERVED_ENTRIES
  BY <1>1, FS_Interval
<1> QED BY <1>1, <1>2

LEMMA CountingFinite ==
    /\ IsFiniteSet(Counting) /\ Cardinality(Counting) \in Nat
    /\ IsFiniteSet(Unowned) /\ Cardinality(Unowned) \in Nat
<1>1. IsFiniteSet(Counting)
  BY GrantAssumption, FS_Subset DEF Counting
<1>2. IsFiniteSet(Unowned)
  BY RefFacts, FS_Subset DEF Unowned
<1> QED BY <1>1, <1>2, FS_CardinalityType

LEMMA GrantingInit == Granting!Init => GrantingInv
<1> SUFFICES ASSUME Granting!Init PROVE GrantingInv
  OBVIOUS
<1> USE RefFacts, GrantAssumption DEF Granting!Init
<1>0. gnttab_sem = Cardinality(Ref) /\ Cardinality(Ref) \in Nat
  <2>1. gnttab_sem = Cardinality(Granting!Ref)
    BY DEF Cardinality, Granting!Cardinality
  <2> QED BY <2>1 DEF Ref
<1>1. GrantingType
  <2>1. gnttab_sem \in Nat
    BY <1>0
  <2>2. given \in [Ref -> Owner \cup {NULL}]
    BY DEF Ref
  <2> QED BY <2>1, <2>2 DEF GrantingType, Ref
<1>2. EntriesOwned /\ \A r \in Ref : UsePermitted(r)
  BY DEF EntriesOwned, UsePermitted, Holding, Filling, Permitting, Ref, Granting!InUse
<1>3. Counting = {} /\ Unowned = Ref
  BY DEF Counting, Counted, Unowned, Ref
<1>4. gnttab_sem + Cardinality(Counting) = Cardinality(Unowned)
  BY <1>0, <1>3, FS_EmptySet
<1>5. \E s \in Seq(Ref) : IsFreeList(s)
  <2> DEFINE N == NR_GRANT_ENTRIES - NR_RESERVED_ENTRIES
             s == [i \in 1..N |-> NR_GRANT_ENTRIES - i]
  <2>1. N \in Nat \ {0}
    OBVIOUS
  <2>2. \A i \in 1..N : NR_GRANT_ENTRIES - i \in Ref
    BY DEF Ref, Granting!Ref
  <2>3. s \in Seq(Ref) /\ Len(s) = N /\ s # <<>>
    <3>1. s \in [1..N -> Ref]
      BY <2>2
    <3>2. s \in Seq(Ref) /\ Len(s) = N
      BY <2>1, <3>1, SeqDef, LenProperties
    <3> QED BY <2>1, <3>2, EmptySeq
  <2>4. gnttab_list = [r \in 0..NR_GRANT_ENTRIES - 1 |->
                         IF r = 0 THEN NR_GRANT_ENTRIES - 1
                         ELSE IF r > NR_RESERVED_ENTRIES THEN r - 1 ELSE 0]
    OBVIOUS
  <2>5. ASSUME NEW i \in 1..N
        PROVE  gnttab_list[s[i]] = IF i = N THEN 0 ELSE s[i + 1]
    BY <2>1, <2>4, <2>5
  <2>6. ASSUME NEW r \in Ref PROVE \E i \in 1..N : s[i] = r
    <3>1. NR_GRANT_ENTRIES - r \in 1..N
      BY DEF Ref, Granting!Ref
    <3> QED BY <3>1
  <2>7. \A r \in Ref : given[r] = NULL
    BY DEF Ref
  <2>8. \A i, j \in 1..N : s[i] = s[j] => i = j
    BY <2>1
  <2>9. gnttab_list[0] = s[1]
    BY <2>1, <2>4
  <2> HIDE DEF s, N
  <2>10. IsFreeList(s)
    BY <2>3, <2>5, <2>6, <2>7, <2>8, <2>9 DEF IsFreeList
  <2> QED BY <2>3, <2>10
<1> QED BY <1>1, <1>2, <1>4, <1>5 DEF GrantingInv, FreeListed

\* A task with an entry goes on; what it changes is its entry's.
LEMMA OwnerMoves ==
    ASSUME GrantingInv, GrantingType', NEW t \in Owner, NEW r \in Ref, r = ref[t],
           NEW place \in Holding, grant_pc[t] \in Holding,
           grant_pc' = [grant_pc EXCEPT ![t] = place],
           UNCHANGED <<gnttab_list, gnttab_sem, given, ref>>,
           \A q \in Ref : q # r => /\ flags'[q] = flags[q] /\ frame'[q] = frame[q]
                                   /\ map'[q] = map[q],
           UsePermitted(r)'
    PROVE  GrantingInv'
<1>1. /\ given[r] = t /\ grant_pc'[t] = place /\ t # NULL
      /\ \A u \in Owner : u # t => grant_pc'[u] = grant_pc[u]
      /\ \A q \in Ref : q # r => given[q] # t
  BY GrantAssumption DEF GrantingInv, GrantingType, EntriesOwned
<1>2. EntriesOwned'
  BY <1>1 DEF GrantingInv, EntriesOwned, GrantingType
<1>3. ASSUME NEW q \in Ref PROVE UsePermitted(q)'
  <2>1. CASE q = r
    BY <2>1
  <2>2. CASE q # r
    <3>1. given[q] # NULL => grant_pc'[given[q]] = grant_pc[given[q]]
      BY <1>1, <2>2 DEF GrantingInv, GrantingType
    <3>2. UsePermitted(q)
      BY DEF GrantingInv
    <3> QED BY <2>2, <3>1, <3>2 DEF UsePermitted
  <2> QED BY <2>1, <2>2
<1>4. FreeListed'
  <2>1. \A u \in Owner : grant_pc'[u] \in Counted <=> grant_pc[u] \in Counted
    BY <1>1 DEF Counted, Holding, Filling, Permitting
  <2>2. Counting' = Counting /\ Unowned' = Unowned
    BY <2>1 DEF Counting, Unowned
  <2>3. \A s : IsFreeList(s)' <=> IsFreeList(s)
    BY DEF IsFreeList
  <2> QED BY <2>2, <2>3 DEF GrantingInv, FreeListed
<1> QED BY <1>2, <1>3, <1>4 DEF GrantingInv

\* Steps of a task that has an entry.
LEMMA GrantingOwned ==
    ASSUME GrantingInv, NEW t \in Owner,
           \/ \E call \in {"access", "transfer"} : Granting!FillFrame(t, call)
           \/ Granting!Permit(t) \/ Granting!EndAccess(t) \/ Granting!Refuse(t)
           \/ Granting!CmpxchgAccess(t) \/ Granting!Accept(t)
           \/ Granting!EndTransfer(t) \/ Granting!CmpxchgTransfer(t)
           \/ Granting!Completed(t)
    PROVE  GrantingInv'
<1>1. PICK r \in Ref : r = ref[t] /\ given[r] = t /\ t # NULL
  <2>1. grant_pc[t] \in Holding
    BY DEF Holding, Filling, Permitting, Granting!FillFrame, Granting!Permit, Granting!EndAccess,
           Granting!Refuse, Granting!CmpxchgAccess, Granting!Accept, Granting!EndTransfer,
           Granting!CmpxchgTransfer, Granting!Completed
  <2> QED BY <2>1, GrantAssumption DEF GrantingInv, EntriesOwned
<1>2. UsePermitted(r)
  BY DEF GrantingInv
<1> USE DEF Holding, Filling, Permitting, Granting!GoTo, Granting!SetFlags,
            Granting!free, Granting!entries
<1>3. ASSUME NEW call \in {"access", "transfer"}, Granting!FillFrame(t, call)
      PROVE  GrantingInv'
  <2>1. PICK place : /\ place = (IF call = "access" THEN "permit" ELSE "accept")
                     /\ grant_pc' = [grant_pc EXCEPT ![t] = place]
    BY <1>3 DEF Granting!FillFrame
  <2>2. /\ frame' = [frame EXCEPT ![r] = t] /\ grant_pc[t] \in Filling
        /\ UNCHANGED <<gnttab_list, gnttab_sem, flags, ref, grant_seen, map, given>>
    BY <1>1, <1>3 DEF Granting!FillFrame
  <2>3. GrantingType'
    BY <2>1, <2>2 DEF GrantingInv, GrantingType, Counted
  <2>4. UsePermitted(r)'
    BY <1>1, <1>2, <2>1, <2>2, <2>3 DEF UsePermitted, GrantingInv, GrantingType
  <2> QED BY <1>1, <2>1, <2>2, <2>3, <2>4, OwnerMoves DEF GrantingInv, GrantingType
<1>4. CASE Granting!Permit(t)
  <2>1. /\ grant_pc' = [grant_pc EXCEPT ![t] = "granted"] /\ grant_pc[t] = "permit"
        /\ flags' = [flags EXCEPT ![r] = {"permit_access"}]
        /\ UNCHANGED <<gnttab_list, gnttab_sem, frame, ref, grant_seen, map, given>>
    BY <1>1, <1>4 DEF Granting!Permit
  <2>2. GrantingType'
    BY <2>1 DEF GrantingInv, GrantingType, Counted, Flag
  <2>3. UsePermitted(r)'
    BY <1>1, <1>2, <2>1, <2>2 DEF UsePermitted, GrantingInv, GrantingType, Granting!InUse
  <2> QED BY <1>1, <2>1, <2>2, <2>3, OwnerMoves DEF GrantingInv, GrantingType
<1>5. CASE Granting!EndAccess(t) \/ Granting!Refuse(t)
  <2>1. PICK place \in Permitting :
          /\ grant_pc' = [grant_pc EXCEPT ![t] = place] /\ grant_pc[t] \in Permitting
          /\ UNCHANGED <<gnttab_list, gnttab_sem, flags, frame, ref, map, given>>
    BY <1>5 DEF Granting!EndAccess, Granting!Refuse
  <2>2. grant_seen' = [grant_seen EXCEPT ![t] = flags[r]]
        \/ grant_seen' = [grant_seen EXCEPT ![t] = {}]
    BY <1>1, <1>5 DEF Granting!EndAccess, Granting!Refuse
  <2>3. GrantingType'
    BY <1>1, <2>1, <2>2 DEF GrantingInv, GrantingType
  <2>4. UsePermitted(r)'
    BY <1>1, <1>2, <2>1, <2>3 DEF UsePermitted, GrantingInv, GrantingType
  <2> QED BY <1>1, <2>1, <2>3, <2>4, OwnerMoves
<1>6. CASE Granting!CmpxchgAccess(t)
  <2>1. CASE flags[r] = grant_seen[t]
    <3>1. /\ grant_pc' = [grant_pc EXCEPT ![t] = "put"] /\ grant_pc[t] = "end access"
          /\ flags' = [flags EXCEPT ![r] = {}] /\ ~ Granting!InUse(flags[r])
          /\ grant_seen' = [grant_seen EXCEPT ![t] = {}]
          /\ UNCHANGED <<gnttab_list, gnttab_sem, frame, ref, map, given>>
      BY <1>1, <1>6, <2>1 DEF Granting!CmpxchgAccess, Granting!Exchanges
    <3>2. GrantingType'
      BY <3>1 DEF GrantingInv, GrantingType
    <3>3. UsePermitted(r)'
      BY <1>1, <1>2, <3>1, <3>2 DEF UsePermitted, GrantingInv, GrantingType, Granting!InUse
    <3> QED BY <1>1, <3>1, <3>2, <3>3, OwnerMoves DEF GrantingInv, GrantingType
  <2>2. CASE flags[r] # grant_seen[t]
    <3>1. /\ grant_pc[t] = "end access"
          /\ grant_seen' = [grant_seen EXCEPT ![t] = flags[r]]
          /\ UNCHANGED <<grant_pc, flags, gnttab_list, gnttab_sem, frame, ref, map, given>>
      BY <1>1, <1>6, <2>2 DEF Granting!CmpxchgAccess, Granting!Exchanges
    <3>2. GrantingType'
      BY <3>1 DEF GrantingInv, GrantingType
    <3>3. UsePermitted(r)'
      BY <1>2, <3>1 DEF UsePermitted
    <3>4. grant_pc' = [grant_pc EXCEPT ![t] = "end access"]
      BY <3>1 DEF GrantingInv, GrantingType
    <3> QED BY <1>1, <3>1, <3>2, <3>3, <3>4, OwnerMoves
  <2> QED BY <2>1, <2>2
<1>7. CASE Granting!Accept(t)
  <2>1. /\ grant_pc' = [grant_pc EXCEPT ![t] = "accepting"] /\ grant_pc[t] = "accept"
        /\ flags' = [flags EXCEPT ![r] = {"accept_transfer"}]
        /\ UNCHANGED <<gnttab_list, gnttab_sem, frame, ref, grant_seen, map, given>>
    BY <1>1, <1>7 DEF Granting!Accept
  <2>2. GrantingType'
    BY <2>1 DEF GrantingInv, GrantingType, Counted, Flag
  <2>3. UsePermitted(r)'
    BY <1>1, <1>2, <2>1, <2>2 DEF UsePermitted, GrantingInv, GrantingType, Granting!InUse
  <2> QED BY <1>1, <2>1, <2>2, <2>3, OwnerMoves DEF GrantingInv, GrantingType
<1>8. CASE Granting!EndTransfer(t)
  <2>1. PICK place \in {"committed", "end transfer"} :
          /\ grant_pc' = [grant_pc EXCEPT ![t] = place] /\ grant_pc[t] = "accepting"
          /\ grant_seen' = [grant_seen EXCEPT ![t] = flags[r]]
          /\ UNCHANGED <<gnttab_list, gnttab_sem, flags, frame, ref, map, given>>
    BY <1>1, <1>8 DEF Granting!EndTransfer
  <2>2. GrantingType'
    BY <1>1, <2>1 DEF GrantingInv, GrantingType
  <2>3. UsePermitted(r)'
    BY <1>1, <1>2, <2>1, <2>2 DEF UsePermitted, GrantingInv, GrantingType
  <2> QED BY <1>1, <2>1, <2>2, <2>3, OwnerMoves
<1>9. CASE Granting!CmpxchgTransfer(t)
  <2>1. PICK place \in {"put", "accepting"} :
          /\ grant_pc' = [grant_pc EXCEPT ![t] = place] /\ grant_pc[t] = "end transfer"
          /\ flags' = [flags EXCEPT ![r] = {}] \/ flags' = flags
          /\ grant_seen' = [grant_seen EXCEPT ![t] = {}]
          /\ UNCHANGED <<gnttab_list, gnttab_sem, frame, ref, map, given>>
    BY <1>1, <1>9 DEF Granting!CmpxchgTransfer
  <2>2. GrantingType'
    BY <1>1, <2>1 DEF GrantingInv, GrantingType
  <2>3. UsePermitted(r)'
    BY <1>1, <1>2, <2>1, <2>2 DEF UsePermitted, GrantingInv, GrantingType, Granting!InUse
  <2> QED BY <1>1, <2>1, <2>2, <2>3, OwnerMoves DEF GrantingInv, GrantingType
<1>10. CASE Granting!Completed(t)
  <2>1. /\ grant_pc' = [grant_pc EXCEPT ![t] = "put"] /\ grant_pc[t] = "committed"
        /\ grant_seen' = [grant_seen EXCEPT ![t] = {}]
        /\ UNCHANGED <<gnttab_list, gnttab_sem, flags, frame, ref, map, given>>
    BY <1>10 DEF Granting!Completed
  <2>2. GrantingType'
    BY <2>1 DEF GrantingInv, GrantingType
  <2>3. UsePermitted(r)'
    BY <1>1, <1>2, <2>1, <2>2 DEF UsePermitted, GrantingInv, GrantingType
  <2> QED BY <1>1, <2>1, <2>2, <2>3, OwnerMoves
<1> QED BY <1>3, <1>4, <1>5, <1>6, <1>7, <1>8, <1>9, <1>10

\* Steps of the other domain.
LEMMA GrantingOther ==
    ASSUME GrantingInv, NEW r \in Ref,
           \/ Granting!Mark(r, {"reading"}) \/ Granting!Mark(r, {"reading", "writing"})
           \/ Granting!Map(r) \/ Granting!Unmap(r) \/ Granting!Commit(r)
           \/ Granting!Complete(r)
    PROVE  GrantingInv'
<1>1. UNCHANGED <<gnttab_list, gnttab_sem, given, grant_pc, ref, grant_seen, frame>>
  BY DEF Granting!Mark, Granting!Map, Granting!Unmap, Granting!Commit,
         Granting!Complete, Granting!free, Granting!entries, Granting!tasks
<1>2. FreeListed' /\ EntriesOwned'
  <2>1. Counting' = Counting /\ Unowned' = Unowned
    BY <1>1 DEF Counting, Unowned
  <2>2. \A s : IsFreeList(s)' <=> IsFreeList(s)
    BY <1>1 DEF IsFreeList
  <2> QED BY <1>1, <2>1, <2>2 DEF GrantingInv, FreeListed, EntriesOwned
<1>3. SUFFICES GrantingType' /\ UsePermitted(r)' /\
               \A q \in Ref : q # r => flags'[q] = flags[q] /\ map'[q] = map[q]
  BY <1>1, <1>2 DEF GrantingInv, UsePermitted
<1>4. UsePermitted(r)
  BY DEF GrantingInv
<1>5. flags \in [Ref -> SUBSET Flag] /\ map \in [Ref -> Owner \cup {NULL}]
      /\ frame \in [Ref -> Owner \cup {NULL}]
  BY DEF GrantingInv, GrantingType
<1>6. ASSUME \/ \E f \in SUBSET Flag : flags' = [flags EXCEPT ![r] = f]
             \/ flags' = flags,
             \/ \E d \in Owner \cup {NULL} : map' = [map EXCEPT ![r] = d]
             \/ map' = map
      PROVE  GrantingType' /\ \A q \in Ref : q # r => flags'[q] = flags[q] /\ map'[q] = map[q]
  BY <1>1, <1>5, <1>6 DEF GrantingInv, GrantingType
<1>7. CASE Granting!Mark(r, {"reading"}) \/ Granting!Mark(r, {"reading", "writing"})
  <2>1. PICK use \in SUBSET Flag : /\ flags' = [flags EXCEPT ![r] = flags[r] \cup use]
                                   /\ "permit_access" \in flags[r] /\ map' = map
                                   /\ "reading" \in use
                                   /\ flags[r] \cup use \in SUBSET Flag
                                   /\ ~ Granting!InUse(flags[r])
    BY <1>5, <1>7 DEF Granting!Mark, Granting!SetFlags, Flag
  <2>2. UsePermitted(r)'
    BY <1>1, <1>4, <1>5, <2>1 DEF UsePermitted, Granting!InUse
  <2> QED BY <1>6, <2>1, <2>2
<1>8. CASE Granting!Map(r)
  <2>1. map' = [map EXCEPT ![r] = frame[r]] /\ flags' = flags /\ Granting!InUse(flags[r])
    BY <1>8 DEF Granting!Map, Granting!entries
  <2>2. UsePermitted(r)'
    BY <1>1, <1>4, <1>5, <2>1 DEF UsePermitted
  <2> QED BY <1>5, <1>6, <2>1, <2>2
<1>9. CASE Granting!Unmap(r)
  <2>1. map' = [map EXCEPT ![r] = NULL]
        /\ flags' = [flags EXCEPT ![r] = flags[r] \ {"reading", "writing"}]
    BY <1>9 DEF Granting!Unmap, Granting!SetFlags
  <2>2. UsePermitted(r)'
    BY <1>1, <1>4, <1>5, <2>1 DEF UsePermitted, Granting!InUse
  <2> QED BY <1>5, <1>6, <2>1, <2>2
<1>10. CASE Granting!Commit(r) \/ Granting!Complete(r)
  <2>1. PICK f \in {"transfer_committed", "transfer_completed"} :
           flags' = [flags EXCEPT ![r] = flags[r] \cup {f}] /\ map' = map
    BY <1>10 DEF Granting!Commit, Granting!Complete, Granting!SetFlags
  <2>2. UsePermitted(r)'
    BY <1>1, <1>4, <1>5, <2>1 DEF UsePermitted, Granting!InUse
  <2>3. flags[r] \cup {f} \in SUBSET Flag
    BY <1>5, <2>1 DEF Flag
  <2> QED BY <1>6, <2>1, <2>2, <2>3
<1> QED BY <1>7, <1>8, <1>9, <1>10

\* Get and put of a permit of the semaphore, before and after the list's step.
LEMMA GrantingPermits ==
    ASSUME GrantingInv, NEW t \in Owner,
           \/ \E call \in {"access", "transfer"} : Granting!Take(t, call)
           \/ Granting!Give(t)
    PROVE  GrantingInv'
<1>1. /\ UNCHANGED <<gnttab_list, flags, frame, ref, grant_seen, map, given>>
      /\ \/ /\ grant_pc[t] = "run" /\ gnttab_sem > 0 /\ gnttab_sem' = gnttab_sem - 1
            /\ \E call \in {"access", "transfer"} : grant_pc' = [grant_pc EXCEPT ![t] = call]
         \/ /\ grant_pc[t] = "give" /\ gnttab_sem' = gnttab_sem + 1
            /\ grant_pc' = [grant_pc EXCEPT ![t] = "run"]
  BY DEF Granting!Take, Granting!Give, Granting!GoTo, Granting!entries
<1>2. GrantingType'
  <2>1. PICK place \in Counted \cup {"run"} : grant_pc' = [grant_pc EXCEPT ![t] = place]
    BY <1>1 DEF Counted
  <2>2. gnttab_sem' \in Nat
    BY <1>1 DEF GrantingInv, GrantingType
  <2> QED BY <1>1, <2>1, <2>2 DEF GrantingInv, GrantingType
<1>3. /\ \A u \in Owner : u # t => grant_pc'[u] = grant_pc[u]
      /\ grant_pc[t] \notin Holding /\ grant_pc'[t] \notin Holding
      /\ grant_pc[t] = "run" <=> grant_pc'[t] \in Counted
      /\ grant_pc[t] = "give" => grant_pc'[t] = "run"
  BY <1>1 DEF GrantingInv, GrantingType, Holding, Filling, Permitting, Counted
<1>4. EntriesOwned'
  BY <1>1, <1>3 DEF GrantingInv, EntriesOwned, GrantingType
<1>5. ASSUME NEW r \in Ref PROVE UsePermitted(r)'
  <2>1. given[r] # NULL => given[r] \in Owner /\ given[r] # t
    BY <1>3 DEF GrantingInv, GrantingType, EntriesOwned
  <2> QED BY <1>1, <1>3, <2>1 DEF GrantingInv, UsePermitted
<1>6. FreeListed'
  <2>1. Unowned' = Unowned /\ \A s : IsFreeList(s)' <=> IsFreeList(s)
    BY <1>1 DEF Unowned, IsFreeList
  <2>2. CASE grant_pc[t] = "run"
    <3>1. t \notin Counting /\ Counting' = Counting \cup {t}
          /\ gnttab_sem' = gnttab_sem - 1 /\ gnttab_sem \in Nat
      BY <1>1, <1>3, <2>2 DEF Counting, Counted, GrantingInv, GrantingType
    <3>2. Cardinality(Counting') = Cardinality(Counting) + 1
      BY <3>1, CountingFinite, FS_AddElement
    <3> QED BY <2>1, <3>1, <3>2, CountingFinite DEF GrantingInv, FreeListed
  <2>3. CASE grant_pc[t] = "give"
    <3>1. t \in Counting /\ Counting' = Counting \ {t}
          /\ gnttab_sem' = gnttab_sem + 1 /\ gnttab_sem \in Nat
      BY <1>1, <1>3, <2>3 DEF Counting, Counted, GrantingInv, GrantingType
    <3>2. Cardinality(Counting') = Cardinality(Counting) - 1
      BY <3>1, CountingFinite, FS_RemoveElement
    <3> QED BY <2>1, <3>1, <3>2, CountingFinite DEF GrantingInv, FreeListed
  <2> QED BY <1>1, <2>2, <2>3
<1> QED BY <1>2, <1>4, <1>5, <1>6 DEF GrantingInv

\* Nobody pops the end of the list: the semaphore counts fewer permits than there
\* are entries.
LEMMA HeadIsFree ==
    ASSUME GrantingInv, NEW t \in Owner, grant_pc[t] \in Counted,
           NEW s \in Seq(Ref), IsFreeList(s)
    PROVE  /\ s # <<>> /\ Len(s) \in Nat /\ 1 \in 1..Len(s)
           /\ gnttab_list[0] = s[1] /\ s[1] \in Ref /\ given[s[1]] = NULL
<1>1. Cardinality(Counting) # 0
  BY CountingFinite, FS_EmptySet DEF Counting
<1>2. Unowned # {}
  <2>1. Cardinality(Unowned) # 0
    BY <1>1, CountingFinite DEF GrantingInv, GrantingType, FreeListed
  <2> QED BY <2>1, FS_EmptySet
<1>3. PICK r \in Ref, i \in 1..Len(s) : s[i] = r
  BY <1>2 DEF Unowned, IsFreeList
<1>4. Len(s) \in Nat /\ 1 \in 1..Len(s)
  BY <1>3, LenProperties
<1>5. s # <<>> /\ s[1] \in Ref
  BY <1>4, EmptySeq, ElementOfSeq
<1> QED BY <1>4, <1>5 DEF IsFreeList

LEMMA GrantingPop ==
    ASSUME GrantingInv, NEW t \in Owner, NEW call \in {"access", "transfer"},
           Granting!Pop(t, call)
    PROVE  GrantingInv'
<1>1. PICK s \in Seq(Ref) : IsFreeList(s)
  BY DEF GrantingInv, FreeListed
<1>2. PICK r : r = gnttab_list[0]
  OBVIOUS
<1>3. PICK place \in Filling :
        /\ grant_pc[t] = call /\ grant_pc' = [grant_pc EXCEPT ![t] = place]
        /\ gnttab_list' = [gnttab_list EXCEPT ![0] = gnttab_list[r]]
        /\ ref' = [ref EXCEPT ![t] = r] /\ given' = [given EXCEPT ![r] = t]
        /\ UNCHANGED <<gnttab_sem, flags, frame, grant_seen, map>>
  BY <1>2 DEF Granting!Pop, Granting!GoTo, Granting!entries, Filling
<1>4. /\ s # <<>> /\ Len(s) \in Nat /\ 1 \in 1..Len(s)
      /\ r = s[1] /\ r \in Ref /\ given[r] = NULL
  BY <1>1, <1>2, <1>3, HeadIsFree DEF Counted
<1>5. GrantingType'
  BY <1>3, <1>4, RefFacts DEF GrantingInv, GrantingType, Holding
<1>6. /\ \A u \in Owner : u # t => grant_pc'[u] = grant_pc[u] /\ ref'[u] = ref[u]
      /\ grant_pc'[t] = place /\ ref'[t] = r /\ given'[r] = t /\ t # NULL
      /\ \A q \in Ref : q # r => given'[q] = given[q] /\ given[q] # t
  <2>1. grant_pc[t] \notin Holding
    BY <1>3 DEF Holding, Filling, Permitting
  <2>2. \A q \in Ref : given[q] # t
    BY <2>1, GrantAssumption DEF GrantingInv, EntriesOwned
  <2> QED BY <1>3, <1>4, <2>2, GrantAssumption DEF GrantingInv, GrantingType
<1>7. EntriesOwned'
  <2>1. ASSUME NEW u \in Owner, grant_pc'[u] \in Holding
        PROVE  ref'[u] \in Ref /\ given'[ref'[u]] = u
    <3>1. CASE u = t
      BY <1>4, <1>6, <3>1
    <3>2. CASE u # t
      <4>1. ref[u] \in Ref /\ given[ref[u]] = u
        BY <1>6, <2>1, <3>2 DEF GrantingInv, EntriesOwned
      <4>2. ref[u] # r
        BY <1>4, <4>1, GrantAssumption
      <4> QED BY <1>6, <3>2, <4>1, <4>2
    <3> QED BY <3>1, <3>2
  <2>2. ASSUME NEW q \in Ref, given'[q] # NULL
        PROVE  grant_pc'[given'[q]] \in Holding /\ ref'[given'[q]] = q
    <3>1. CASE q = r
      BY <1>6, <3>1 DEF Holding
    <3>2. CASE q # r
      <4>1. given'[q] = given[q] /\ given[q] \in Owner /\ given[q] # t
        BY <1>6, <2>2, <3>2 DEF GrantingInv, GrantingType
      <4> QED BY <1>6, <2>2, <4>1 DEF GrantingInv, EntriesOwned
    <3> QED BY <3>1, <3>2
  <2> QED BY <2>1, <2>2 DEF EntriesOwned
<1>8. ASSUME NEW q \in Ref PROVE UsePermitted(q)'
  <2>1. UsePermitted(q)
    BY DEF GrantingInv
  <2>2. CASE q = r
    <3>1. ~ ("permit_access" \in flags[r]) /\ map[r] = NULL /\ ~ Granting!InUse(flags[r])
      BY <1>4, <2>1, <2>2 DEF UsePermitted
    <3>2. grant_pc'[given'[r]] \notin Permitting \cup {"permit"}
      BY <1>6 DEF Filling, Permitting
    <3> QED BY <1>3, <2>2, <3>1, <3>2 DEF UsePermitted
  <2>3. CASE q # r
    <3>1. given[q] # NULL => grant_pc'[given[q]] = grant_pc[given[q]]
      BY <1>6, <2>3 DEF GrantingInv, GrantingType
    <3> QED BY <1>3, <1>6, <2>1, <2>3, <3>1 DEF UsePermitted
  <2> QED BY <2>2, <2>3
<1>9. gnttab_sem' + Cardinality(Counting') = Cardinality(Unowned')
  <2>1. t \in Counting /\ Counting' = Counting \ {t}
    BY <1>3, <1>6 DEF Counting, Counted, Filling
  <2>2. r \in Unowned /\ Unowned' = Unowned \ {r}
    BY <1>4, <1>6 DEF Unowned
  <2>3. /\ Cardinality(Counting') = Cardinality(Counting) - 1
        /\ Cardinality(Unowned') = Cardinality(Unowned) - 1
    BY <2>1, <2>2, CountingFinite, FS_RemoveElement
  <2> QED BY <1>3, <2>3, CountingFinite DEF GrantingInv, GrantingType, FreeListed
<1>10. Tail(s) \in Seq(Ref) /\ IsFreeList(Tail(s))'
  <2> DEFINE q == Tail(s)
  <2>1. /\ q \in Seq(Ref) /\ Len(q) = Len(s) - 1
        /\ \A i \in 1..Len(s) - 1 : q[i] = s[i + 1]
    BY <1>4, HeadTailProperties
  <2>2. \A i \in 1..Len(s) : s[i] \in Ref
    BY ElementOfSeq
  <2>3. \A x \in Ref : gnttab_list'[x] = gnttab_list[x]
    BY <1>3, RefFacts DEF GrantingInv, GrantingType
  <2>4. gnttab_list'[0] = gnttab_list[s[1]]
    BY <1>3, <1>4, RefFacts DEF GrantingInv, GrantingType
  <2> HIDE DEF q
  <2>5. q = <<>> <=> Len(s) = 1
    BY <1>4, <2>1, EmptySeq
  <2>6. gnttab_list'[0] = IF q = <<>> THEN 0 ELSE q[1]
    BY <1>1, <1>4, <2>1, <2>4, <2>5 DEF IsFreeList
  <2>7. ASSUME NEW i \in 1..Len(q)
        PROVE  gnttab_list'[q[i]] = IF i = Len(q) THEN 0 ELSE q[i + 1]
    <3>1. i + 1 \in 1..Len(s) /\ q[i] = s[i + 1] /\ s[i + 1] \in Ref
          /\ (i # Len(q) => q[i + 1] = s[i + 2])
      BY <1>4, <2>1, <2>2
    <3> QED BY <1>1, <1>4, <2>1, <2>3, <3>1 DEF IsFreeList
  <2>8. ASSUME NEW x \in Ref
        PROVE  given'[x] = NULL <=> \E i \in 1..Len(q) : q[i] = x
    <3>1. given[x] = NULL <=> \E i \in 1..Len(s) : s[i] = x
      BY <1>1 DEF IsFreeList
    <3>2. (\E i \in 1..Len(q) : q[i] = x) <=> (\E i \in 2..Len(s) : s[i] = x)
      <4>1. ASSUME NEW i \in 1..Len(q), q[i] = x PROVE \E j \in 2..Len(s) : s[j] = x
        <5>1. i + 1 \in 2..Len(s) /\ s[i + 1] = x
          BY <1>4, <2>1, <4>1
        <5> QED BY <5>1
      <4>2. ASSUME NEW i \in 2..Len(s), s[i] = x PROVE \E j \in 1..Len(q) : q[j] = x
        <5>1. i - 1 \in 1..Len(q) /\ q[i - 1] = s[i]
          BY <1>4, <2>1
        <5> QED BY <4>2, <5>1
      <4> QED BY <4>1, <4>2
    <3>3. CASE x = r
      <4>1. \A i \in 2..Len(s) : s[i] # r
        BY <1>1, <1>4 DEF IsFreeList
      <4> QED BY <1>6, <3>2, <3>3, <4>1
    <3>4. CASE x # r
      <4>1. (\E i \in 1..Len(s) : s[i] = x) <=> (\E i \in 2..Len(s) : s[i] = x)
        BY <1>4, <3>4
      <4> QED BY <1>6, <3>1, <3>2, <3>4, <4>1
    <3> QED BY <3>3, <3>4
  <2>9. \A i, j \in 1..Len(q) : q[i] = q[j] => i = j
    <3> SUFFICES ASSUME NEW i \in 1..Len(q), NEW j \in 1..Len(q), q[i] = q[j]
                 PROVE  i = j
      OBVIOUS
    <3>1. i + 1 \in 1..Len(s) /\ j + 1 \in 1..Len(s) /\ s[i + 1] = s[j + 1]
      BY <1>4, <2>1
    <3> QED BY <1>1, <3>1 DEF IsFreeList
  <2>10. IsFreeList(q)'
    BY <2>6, <2>7, <2>8, <2>9 DEF IsFreeList
  <2> QED BY <2>1, <2>10 DEF q
<1> QED BY <1>5, <1>7, <1>8, <1>9, <1>10 DEF GrantingInv, FreeListed

LEMMA GrantingPush ==
    ASSUME GrantingInv, NEW t \in Owner, Granting!Push(t)
    PROVE  GrantingInv'
<1>1. PICK s \in Seq(Ref) : IsFreeList(s)
  BY DEF GrantingInv, FreeListed
<1>2. PICK r \in Ref : r = ref[t] /\ given[r] = t /\ t # NULL /\ grant_pc[t] = "put"
  BY GrantAssumption DEF Granting!Push, GrantingInv, EntriesOwned, Holding
<1>3. /\ grant_pc' = [grant_pc EXCEPT ![t] = "give"]
      /\ gnttab_list' = [gnttab_list EXCEPT ![r] = gnttab_list[0], ![0] = r]
      /\ ref' = [ref EXCEPT ![t] = NULL] /\ given' = [given EXCEPT ![r] = NULL]
      /\ UNCHANGED <<gnttab_sem, flags, frame, grant_seen, map>>
  BY <1>2 DEF Granting!Push, Granting!Pushed, Granting!GoTo, Granting!entries
<1>4. /\ gnttab_list'[0] = r /\ gnttab_list'[r] = gnttab_list[0]
      /\ \A q \in Ref : q # r => gnttab_list'[q] = gnttab_list[q]
      /\ gnttab_list' \in [0..NR_GRANT_ENTRIES - 1 -> 0..NR_GRANT_ENTRIES - 1]
  <2>1. gnttab_list \in [0..NR_GRANT_ENTRIES - 1 -> 0..NR_GRANT_ENTRIES - 1]
    BY DEF GrantingInv, GrantingType
  <2> QED BY <1>3, <2>1, RefFacts
<1>5. GrantingType'
  BY <1>3, <1>4 DEF GrantingInv, GrantingType, Counted
<1>6. /\ \A u \in Owner : u # t => grant_pc'[u] = grant_pc[u] /\ ref'[u] = ref[u]
      /\ grant_pc'[t] = "give" /\ given'[r] = NULL
      /\ \A q \in Ref : q # r => given'[q] = given[q] /\ given[q] # t
  <2>1. \A q \in Ref : q # r => given[q] # t
    BY <1>2 DEF GrantingInv, EntriesOwned
  <2> QED BY <1>3, <2>1 DEF GrantingInv, GrantingType
<1>7. EntriesOwned'
  <2>1. ASSUME NEW u \in Owner, grant_pc'[u] \in Holding
        PROVE  ref'[u] \in Ref /\ given'[ref'[u]] = u
    <3>1. u # t
      BY <1>6, <2>1 DEF Holding, Filling, Permitting
    <3>2. ref[u] \in Ref /\ given[ref[u]] = u
      BY <1>6, <2>1, <3>1 DEF GrantingInv, EntriesOwned
    <3> QED BY <1>2, <1>6, <3>1, <3>2
  <2>2. ASSUME NEW q \in Ref, given'[q] # NULL
        PROVE  grant_pc'[given'[q]] \in Holding /\ ref'[given'[q]] = q
    <3>1. given'[q] = given[q] /\ given[q] \in Owner /\ given[q] # t
      BY <1>6, <2>2 DEF GrantingInv, GrantingType
    <3> QED BY <1>6, <2>2, <3>1 DEF GrantingInv, EntriesOwned
  <2> QED BY <2>1, <2>2 DEF EntriesOwned
<1>8. ASSUME NEW q \in Ref PROVE UsePermitted(q)'
  <2>1. UsePermitted(q)
    BY DEF GrantingInv
  <2>2. CASE q = r
    <3>1. ~ ("permit_access" \in flags[r]) /\ map[r] = NULL /\ ~ Granting!InUse(flags[r])
      BY <1>2, <2>1, <2>2 DEF UsePermitted, Permitting
    <3> QED BY <1>3, <1>6, <2>2, <3>1 DEF UsePermitted
  <2>3. CASE q # r
    <3>1. given[q] # NULL => grant_pc'[given[q]] = grant_pc[given[q]]
      BY <1>6, <2>3 DEF GrantingInv, GrantingType
    <3> QED BY <1>3, <1>6, <2>1, <2>3, <3>1 DEF UsePermitted
  <2> QED BY <2>2, <2>3
<1>9. gnttab_sem' + Cardinality(Counting') = Cardinality(Unowned')
  <2>1. t \notin Counting /\ Counting' = Counting \cup {t}
    BY <1>2, <1>6 DEF Counting, Counted
  <2>2. r \notin Unowned /\ Unowned' = Unowned \cup {r}
    BY <1>2, <1>6 DEF Unowned
  <2>3. /\ Cardinality(Counting') = Cardinality(Counting) + 1
        /\ Cardinality(Unowned') = Cardinality(Unowned) + 1
    BY <2>1, <2>2, CountingFinite, FS_AddElement
  <2> QED BY <1>3, <2>3, CountingFinite DEF GrantingInv, GrantingType, FreeListed
<1>10. \E q \in Seq(Ref) : IsFreeList(q)'
  <2>1. PICK q : q = <<r>> \o s
    OBVIOUS
  <2>2. /\ q \in Seq(Ref) /\ Len(s) \in Nat /\ Len(q) = Len(s) + 1
        /\ q[1] = r /\ \A i \in 1..Len(s) : q[i + 1] = s[i]
    <3>1. <<r>> \in Seq(Ref) /\ Len(<<r>>) = 1 /\ <<r>>[1] = r /\ Len(s) \in Nat
      BY LenProperties
    <3>2. /\ q \in Seq(Ref) /\ Len(q) = 1 + Len(s)
          /\ \A i \in 1..1 + Len(s) : q[i] = IF i <= 1 THEN <<r>>[i] ELSE s[i - 1]
      BY <2>1, <3>1, ConcatProperties
    <3>3. ASSUME NEW i \in 1..Len(s) PROVE q[i + 1] = s[i]
      BY <3>1, <3>2
    <3>4. q[1] = r
      BY <3>1, <3>2
    <3> QED BY <3>1, <3>2, <3>3, <3>4
  <2>3. \A i \in 1..Len(s) : s[i] \in Ref /\ s[i] # r
    <3>1. \A i \in 1..Len(s) : s[i] \in Ref
      BY ElementOfSeq
    <3> QED BY <1>1, <1>2, <3>1 DEF IsFreeList
  <2>4. q # <<>>
    BY <2>2, EmptySeq
  <2>5. \A i \in 1..Len(q) : i # 1 => i - 1 \in 1..Len(s) /\ q[i] = s[i - 1]
    <3> SUFFICES ASSUME NEW i \in 1..Len(q), i # 1
                 PROVE  i - 1 \in 1..Len(s) /\ q[i] = s[i - 1]
      OBVIOUS
    <3>1. i - 1 \in 1..Len(s) /\ (i - 1) + 1 = i
      BY <2>2
    <3> QED BY <2>2, <3>1
  <2>6. ASSUME NEW i \in 1..Len(q)
        PROVE  gnttab_list'[q[i]] = IF i = Len(q) THEN 0 ELSE q[i + 1]
    <3>1. CASE i = 1
      <4>1. gnttab_list'[q[1]] = IF s = <<>> THEN 0 ELSE s[1]
        BY <1>1, <1>4, <2>2 DEF IsFreeList
      <4>2. s = <<>> <=> Len(s) = 0
        BY EmptySeq
      <4>3. Len(s) # 0 => q[2] = s[1]
        <5> SUFFICES ASSUME Len(s) # 0 PROVE q[2] = s[1]
          OBVIOUS
        <5>1. 1 \in 1..Len(s) /\ 1 + 1 = 2
          BY <2>2
        <5> QED BY <2>2, <5>1
      <4> QED BY <2>2, <3>1, <4>1, <4>2, <4>3
    <3>2. CASE i # 1
      <4>1. i - 1 \in 1..Len(s) /\ q[i] = s[i - 1]
        BY <2>5, <3>2
      <4>2. gnttab_list'[q[i]] = gnttab_list[s[i - 1]]
        BY <1>4, <2>3, <4>1
      <4>3. gnttab_list[s[i - 1]] = IF i - 1 = Len(s) THEN 0 ELSE s[(i - 1) + 1]
        BY <1>1, <4>1 DEF IsFreeList
      <4>4. i - 1 # Len(s) => q[i + 1] = s[(i - 1) + 1]
        <5> SUFFICES ASSUME i - 1 # Len(s) PROVE q[i + 1] = s[(i - 1) + 1]
          OBVIOUS
        <5>1. i \in 1..Len(s) /\ (i - 1) + 1 = i
          BY <2>2, <4>1
        <5> QED BY <2>2, <5>1
      <4> QED BY <2>2, <4>1, <4>2, <4>3, <4>4
    <3> QED BY <3>1, <3>2
  <2>7. ASSUME NEW x \in Ref
        PROVE  given'[x] = NULL <=> \E i \in 1..Len(q) : q[i] = x
    <3>1. CASE x = r
      <4>1. 1 \in 1..Len(q) /\ q[1] = x
        BY <2>2, <3>1
      <4> QED BY <1>6, <3>1, <4>1
    <3>2. CASE x # r
      <4>1. given'[x] = NULL <=> \E i \in 1..Len(s) : s[i] = x
        BY <1>1, <1>6, <3>2 DEF IsFreeList
      <4>2. ASSUME NEW i \in 1..Len(s), s[i] = x PROVE \E j \in 1..Len(q) : q[j] = x
        <5>1. i + 1 \in 1..Len(q) /\ q[i + 1] = x
          BY <2>2, <4>2
        <5> QED BY <5>1
      <4>3. ASSUME NEW i \in 1..Len(q), q[i] = x PROVE \E j \in 1..Len(s) : s[j] = x
        BY <2>2, <2>5, <3>2, <4>3
      <4> QED BY <4>1, <4>2, <4>3
    <3> QED BY <3>1, <3>2
  <2>8. \A i, j \in 1..Len(q) : q[i] = q[j] => i = j
    <3> SUFFICES ASSUME NEW i \in 1..Len(q), NEW j \in 1..Len(q), q[i] = q[j]
                 PROVE  i = j
      OBVIOUS
    <3>1. CASE i = 1 \/ j = 1
      BY <2>2, <2>3, <2>5, <3>1
    <3>2. CASE i # 1 /\ j # 1
      <4>1. i - 1 = j - 1
        BY <1>1, <2>5, <3>2 DEF IsFreeList
      <4> QED BY <2>2, <4>1
    <3> QED BY <3>1, <3>2
  <2>9. IsFreeList(q)'
    BY <1>4, <2>2, <2>4, <2>6, <2>7, <2>8 DEF IsFreeList
  <2> QED BY <2>2, <2>9
<1> QED BY <1>5, <1>7, <1>8, <1>9, <1>10 DEF GrantingInv, FreeListed

LEMMA GrantingNext == GrantingInv /\ [Granting!Next]_(Granting!vars) => GrantingInv'
<1> SUFFICES ASSUME GrantingInv, Granting!Next \/ UNCHANGED Granting!vars
             PROVE  GrantingInv'
  OBVIOUS
<1>1. CASE UNCHANGED Granting!vars
  <2>1. UNCHANGED <<gnttab_list, gnttab_sem, frame, flags, grant_pc, ref, grant_seen,
                    map, given>>
    BY <1>1 DEF Granting!vars, Granting!free, Granting!entries, Granting!tasks
  <2>2. Counting' = Counting /\ Unowned' = Unowned /\ \A s : IsFreeList(s)' <=> IsFreeList(s)
    BY <2>1 DEF Counting, Unowned, IsFreeList
  <2> QED BY <2>1, <2>2 DEF GrantingInv, GrantingType, EntriesOwned, UsePermitted, FreeListed
<1>2. CASE Granting!Next
  BY <1>2, GrantingPermits, GrantingPop, GrantingPush, GrantingOwned, GrantingOther
     DEF Granting!Next, Ref
<1> QED BY <1>1, <1>2

\* Who has which entry, what the other domain may do with it, and the free list.
THEOREM GrantingHolds == Spec => []GrantingInv
BY Composed, GrantingInit, GrantingNext, PTL DEF Granting!Spec

\* What is mapped by an entry is the frame of the task that has it and still grants
\* it, whatever the flags become between the test and the exchange.
THEOREM MappedStaysGranted == Spec => []MappedIsGranted
<1>1. GrantingInv => MappedIsGranted
  BY GrantAssumption DEF GrantingInv, GrantingType, UsePermitted, Permitting,
     MappedIsGranted, Granting!MappedIsGranted, Ref
<1> QED BY <1>1, GrantingHolds, PTL

\* A set of natural numbers that is not empty has a least element.
LEMMA LeastElement ==
    ASSUME NEW S \in SUBSET Nat, S # {}
    PROVE  \E n \in S : \A m \in S : n <= m
<1> DEFINE Less == OpToRel(<, Nat)
<1>1. \A x, y \in Nat : <<x, y>> \in Less <=> x < y
  BY DEF OpToRel
<1>2. IsWellFoundedOn(Less, Nat)
  BY NatLessThanWellFounded
<1> HIDE DEF Less
<1>3. PICK n \in S : \A m \in S : ~ (<<m, n>> \in Less)
  BY <1>2, WFMin
<1>4. ASSUME NEW m \in S PROVE n <= m
  <2>1. n \in Nat /\ m \in Nat
    OBVIOUS
  <2>2. ~ (m < n)
    BY <1>1, <1>3, <2>1
  <2> QED BY <2>1, <2>2
<1> QED BY <1>4

\* What the links reach from the head is what the list has.
LEMMA ListedIsUnowned == GrantingInv => Granting!Listed = Unowned
<1> SUFFICES ASSUME GrantingInv PROVE Granting!Listed = Unowned
  OBVIOUS
<1> DEFINE Closed == {S \in SUBSET (0..NR_GRANT_ENTRIES - 1) :
                          /\ gnttab_list[0] \in S
                          /\ \A r \in S \ {0} : gnttab_list[r] \in S}
<1>1. PICK s \in Seq(Ref) : IsFreeList(s)
  BY DEF GrantingInv, FreeListed
<1>2. /\ Len(s) \in Nat /\ (s = <<>> <=> Len(s) = 0)
      /\ \A i \in 1..Len(s) : s[i] \in Ref /\ s[i] # 0 /\ s[i] \in Unowned
  <2>1. \A i \in 1..Len(s) : s[i] \in Ref
    BY ElementOfSeq
  <2> QED BY <1>1, <2>1, LenProperties, EmptySeq, RefFacts DEF IsFreeList, Unowned
<1>3. \A r \in Unowned : \E i \in 1..Len(s) : s[i] = r
  BY <1>1 DEF IsFreeList, Unowned
<1>4. Unowned \cup {0} \in Closed
  <2>1. gnttab_list[0] \in Unowned \cup {0}
    <3>1. s # <<>> => 1 \in 1..Len(s)
      BY <1>2
    <3> QED BY <1>1, <1>2, <3>1 DEF IsFreeList
  <2>2. ASSUME NEW r \in Unowned PROVE gnttab_list[r] \in Unowned \cup {0}
    <3>1. PICK i \in 1..Len(s) : s[i] = r
      BY <1>3
    <3>2. i # Len(s) => i + 1 \in 1..Len(s)
      BY <1>2
    <3> QED BY <1>1, <1>2, <3>1, <3>2 DEF IsFreeList
  <2> QED BY <2>1, <2>2, RefFacts DEF Unowned
<1>5. ASSUME NEW S \in Closed PROVE Unowned \subseteq S
  <2> DEFINE Missed == {i \in 1..Len(s) : s[i] \notin S}
  <2>1. SUFFICES ASSUME Missed # {} PROVE FALSE
    BY <1>3
  <2>2. Missed \in SUBSET Nat
    BY <1>2
  <2> HIDE DEF Missed
  <2>3. PICK n \in Missed : \A m \in Missed : n <= m
    BY <2>1, <2>2, LeastElement
  <2> USE DEF Missed
  <2>4. CASE n = 1
    BY <1>1, <1>2, <2>3, <2>4 DEF IsFreeList
  <2>5. CASE n # 1
    <3>1. n - 1 \in 1..Len(s) /\ n - 1 # Len(s) /\ (n - 1) + 1 = n /\ n - 1 \notin Missed
      BY <1>2, <2>3, <2>5
    <3>2. s[n - 1] \in S \ {0} /\ gnttab_list[s[n - 1]] = s[n]
      BY <1>1, <1>2, <3>1 DEF IsFreeList
    <3> QED BY <2>3, <3>2
  <2> QED BY <2>4, <2>5
<1>6. Granting!Listed = {r \in 1..NR_GRANT_ENTRIES - 1 : \A S \in Closed : r \in S}
  BY DEF Granting!Listed
<1>7. Unowned \subseteq 1..NR_GRANT_ENTRIES - 1
  BY RefFacts, GrantAssumption DEF Unowned, Ref, Granting!Ref
<1>8. ASSUME NEW r \in Granting!Listed PROVE r \in Unowned
  <2>1. r \in 1..NR_GRANT_ENTRIES - 1 /\ r \in Unowned \cup {0}
    BY <1>4, <1>6
  <2> QED BY <2>1, GrantAssumption
<1> QED BY <1>5, <1>6, <1>7, <1>8

\* The list has exactly the entries that nobody has, and at least as many as the
\* semaphore promises: nobody pops its end.
THEOREM FreeEntriesKept == Spec => []FreeListIsSound
<1>1. ASSUME GrantingInv PROVE FreeListIsSound
  <2> DEFINE Popping == {t \in Owner : grant_pc[t] \in {"access", "transfer"}}
  <2>1. /\ IsFiniteSet(Popping) /\ Cardinality(Popping) \in Nat
        /\ Cardinality(Popping) <= Cardinality(Counting)
    <3>1. Popping \subseteq Counting
      BY DEF Counting, Counted
    <3> QED BY <3>1, CountingFinite, FS_Subset, FS_CardinalityType
  <2>2. Granting!Listed = Unowned
    BY <1>1, ListedIsUnowned
  <2>3. gnttab_sem + Cardinality(Popping) <= Cardinality(Unowned)
    BY <1>1, <2>1, CountingFinite DEF GrantingInv, GrantingType, FreeListed
  <2> QED BY <2>2, <2>3 DEF FreeListIsSound, Granting!FreeListIsSound, Unowned, Ref,
             Cardinality, Granting!Cardinality
<1> QED BY <1>1, GrantingHolds, PTL
-----------------------------------------------------------------------------
(***************************************************************************)
(* Rendezvous.  What a confirmation in the store stands for: the right end *)
(* that the left end is attached to is there and waits for it, or has gone *)
(* on and left no key by which another could take the confirmation as its  *)
(* own.  After a cut that is so only once the directory is removed.        *)
(***************************************************************************)
Domain == Left \cup Right
Committed == {"identify", "refs", "ports", "wait", "remove", "connected"}
MeetingPlace == Committed \cup {"off", "dead", "run", "accept", "name", "peer", "map",
                                "bind", "confirm"}
Confirmed == keys["LeftConnectionConfirmed"]

MeetingType ==
    /\ keys \in [Meeting!Key -> Domain \cup {NULL}]
    /\ keys["LeftDomId"] \in Left \cup {NULL} /\ Confirmed \in Left \cup {NULL}
    /\ keys["RightDomId"] \in Right \cup {NULL}
    /\ keys["RightPorts"] \in Right \cup {NULL}
    /\ rendezvous_pc \in [Domain -> MeetingPlace]
    /\ other \in [Domain -> Domain \cup {NULL}]
    /\ granted \in [Right -> Domain \cup {NULL}]
    /\ offered \in [Right -> Domain \cup {NULL}]
    /\ mapped \in [Left -> Domain \cup {NULL}]
    /\ attached \in [Left -> Domain \cup {NULL}]
    /\ cut \in BOOLEAN /\ misled \in SUBSET Right

OneAlive ==
    /\ \A l, m \in Left : Meeting!Alive(l) /\ Meeting!Alive(m) => l = m
    /\ \A r, q \in Right : Meeting!Alive(r) /\ Meeting!Alive(q) => r = q

RightEnds ==
    \A r \in Right :
        /\ rendezvous_pc[r] \in {"accept"} \cup Committed => other[r] \in Left
        /\ rendezvous_pc[r] \in Committed => offered[r] = other[r]
        /\ offered[r] # NULL => /\ offered[r] = other[r] /\ granted[r] = other[r]
                                /\ rendezvous_pc[r] \in Committed \cup {"dead"}

LeftEnds ==
    \A l \in Left :
        /\ rendezvous_pc[l] \in {"map", "bind", "confirm", "connected"} =>
               other[l] \in Right
        /\ rendezvous_pc[l] \in {"bind", "confirm", "connected"} => mapped[l] = other[l]
        /\ rendezvous_pc[l] \in {"confirm", "connected"} => attached[l] = other[l]
        /\ attached[l] # NULL =>
               /\ attached[l] \in Right
               /\ mapped[l] = attached[l] /\ offered[attached[l]] = l
               /\ rendezvous_pc[l] \in {"confirm", "connected", "dead"}

PortsOfWaiting ==
    ~cut /\ keys["RightPorts"] # NULL =>
        rendezvous_pc[keys["RightPorts"]] \in {"wait", "remove"}

Standing(r, l) ==
    \/ rendezvous_pc[r] \in {"wait", "remove"}
    \/ /\ rendezvous_pc[r] \in {"connected", "dead"}
       /\ keys["LeftDomId"] = NULL
       /\ \A q \in Right : rendezvous_pc[q] \in {"off", "dead", "run", "connected"}
       /\ \A m \in Left : m # l => rendezvous_pc[m] \in {"off", "dead", "run"}

ConfirmsStand ==
    /\ Confirmed # NULL => /\ attached[Confirmed] # NULL
                           /\ rendezvous_pc[Confirmed] \in {"connected", "dead"}
    /\ ~cut => \A l \in Left : rendezvous_pc[l] = "confirm" \/ Confirmed = l =>
                                   Standing(attached[l], l)

NotMisled ==
    \A r \in Right : rendezvous_pc[r] \in {"remove", "connected"} /\ r \notin misled =>
                         attached[other[r]] = r

MeetingInv ==
    /\ MeetingType /\ OneAlive /\ RightEnds /\ LeftEnds
    /\ PortsOfWaiting /\ ConfirmsStand /\ NotMisled

LEMMA MeetingInit == Meeting!Init => MeetingInv
BY RendezvousAssumption
   DEF Meeting!Init, MeetingInv, MeetingType, OneAlive, RightEnds, LeftEnds, PortsOfWaiting,
   ConfirmsStand, NotMisled, MeetingPlace, Committed, Confirmed, Domain, Meeting!Key, Meeting!Domain,
   Meeting!Alive

LEMMA MeetingTyped == MeetingInv /\ Meeting!Next => MeetingType'
<1> SUFFICES ASSUME MeetingInv, Meeting!Next PROVE MeetingType'
  OBVIOUS
<1> USE RendezvousAssumption DEF MeetingInv, MeetingType, Confirmed, MeetingPlace,
        Committed, Meeting!Key, Meeting!GoTo,
        Meeting!Write, Meeting!NoKeys, Meeting!rights, Meeting!lefts, Domain
<1>1. ASSUME NEW d \in Domain, Meeting!Boot(d) \/ Meeting!Die(d) PROVE MeetingType'
  BY <1>1 DEF Meeting!Boot, Meeting!Die
<1>2. ASSUME NEW l \in Left, Meeting!RemoveDirectory(l) PROVE MeetingType'
  BY <1>2 DEF Meeting!RemoveDirectory
<1>9. ASSUME NEW l \in Left, Meeting!WriteLeftDomId(l) PROVE MeetingType'
  BY <1>9 DEF Meeting!WriteLeftDomId
<1>3. ASSUME NEW l \in Left, Meeting!ReadRightDomId(l) PROVE MeetingType'
  BY <1>3 DEF Meeting!ReadRightDomId
<1>4. ASSUME NEW l \in Left, Meeting!MapGrants(l) \/ Meeting!BindPort(l) PROVE MeetingType'
  BY <1>4 DEF Meeting!MapGrants, Meeting!BindPort
<1>5. ASSUME NEW l \in Left, Meeting!Confirm(l) PROVE MeetingType'
  BY <1>5 DEF Meeting!Confirm
<1>6. ASSUME NEW r \in Right, NEW ok \in BOOLEAN,
             Meeting!ReadLeftDomId(r) \/ Meeting!GrantPages(r, ok)
      PROVE  MeetingType'
  BY <1>6 DEF Meeting!ReadLeftDomId, Meeting!GrantPages
<1>7. ASSUME NEW r \in Right,
             Meeting!WriteRightDomId(r) \/ Meeting!WriteGrantRefs(r) \/ Meeting!WritePorts(r)
      PROVE  MeetingType'
  BY <1>7 DEF Meeting!WriteRightDomId, Meeting!WriteGrantRefs, Meeting!WritePorts
<1>8. ASSUME NEW r \in Right, Meeting!ReadConfirmed(r) PROVE MeetingType'
  BY <1>8 DEF Meeting!ReadConfirmed
<1>10. ASSUME NEW r \in Right, Meeting!CleanUp(r) PROVE MeetingType'
  BY <1>10 DEF Meeting!CleanUp
<1> QED
  BY <1>1, <1>2, <1>3, <1>4, <1>5, <1>6, <1>7, <1>8, <1>9, <1>10 DEF Meeting!Next, Meeting!Domain

\* Every step of one end keeps what is known of the two.
LEMMA MeetingNext == MeetingInv /\ [Meeting!Next]_(Meeting!vars) => MeetingInv'
<1> SUFFICES ASSUME MeetingInv, [Meeting!Next]_(Meeting!vars) PROVE MeetingInv'
  OBVIOUS
<1> USE RendezvousAssumption DEF MeetingInv, MeetingType, Confirmed, Committed, Domain
<1>1. CASE UNCHANGED Meeting!vars
  BY <1>1 DEF Meeting!vars, Meeting!rights, Meeting!lefts, OneAlive, RightEnds, LeftEnds,
     PortsOfWaiting, ConfirmsStand, NotMisled, Standing, Meeting!Alive
<1> SUFFICES ASSUME Meeting!Next PROVE MeetingInv'
  BY <1>1
<1>2. MeetingType'
  BY MeetingTyped
<1> USE DEF Meeting!GoTo, Meeting!rights, Meeting!lefts, Meeting!Key
<1>3. ASSUME NEW d \in Domain, Meeting!Boot(d) PROVE MeetingInv'
  <2> USE <1>2, <1>3 DEF Meeting!Boot
  <2>1. OneAlive'
    BY DEF OneAlive, Meeting!Alive
  <2>2. RightEnds'
    BY DEF RightEnds
  <2>3. LeftEnds'
    BY DEF LeftEnds
  <2>4. PortsOfWaiting'
    BY DEF PortsOfWaiting
  <2>5. ConfirmsStand'
    BY DEF ConfirmsStand, Standing
  <2>6. NotMisled'
    BY DEF NotMisled
  <2> QED BY <2>1, <2>2, <2>3, <2>4, <2>5, <2>6
<1>4. ASSUME NEW d \in Domain, Meeting!Die(d) PROVE MeetingInv'
  <2> USE <1>2, <1>4 DEF Meeting!Die
  <2>1. OneAlive'
    BY DEF OneAlive, Meeting!Alive
  <2>2. RightEnds'
    BY DEF RightEnds
  <2>3. LeftEnds'
    BY DEF LeftEnds
  <2>4. PortsOfWaiting'
    BY DEF PortsOfWaiting
  <2>5. ConfirmsStand'
    <3>1. Confirmed # NULL => attached'[Confirmed] # NULL
                              /\ rendezvous_pc'[Confirmed] \in {"connected", "dead"}
      BY DEF ConfirmsStand
    <3>2. ASSUME ~cut', NEW l \in Left, rendezvous_pc'[l] = "confirm" \/ Confirmed = l
          PROVE  Standing(attached[l], l)'
      <4>1. ~cut /\ rendezvous_pc[d] \notin {"wait", "remove"}
        BY <3>2
      <4>2. Standing(attached[l], l)
        BY <3>2, <4>1 DEF ConfirmsStand
      <4>3. attached[l] \in Right
        BY <3>2 DEF LeftEnds, ConfirmsStand
      <4> QED BY <4>1, <4>2, <4>3 DEF Standing
    <3> QED BY <3>1, <3>2 DEF ConfirmsStand
  <2>6. NotMisled'
    BY DEF NotMisled
  <2> QED BY <2>1, <2>2, <2>3, <2>4, <2>5, <2>6
<1>5. ASSUME NEW l \in Left, Meeting!RemoveDirectory(l) PROVE MeetingInv'
  <2> USE <1>2, <1>5 DEF Meeting!RemoveDirectory, Meeting!NoKeys
  <2>1. OneAlive'
    BY DEF OneAlive, Meeting!Alive
  <2>2. RightEnds'
    BY DEF RightEnds
  <2>3. LeftEnds'
    BY DEF LeftEnds
  <2>4. PortsOfWaiting'
    BY DEF PortsOfWaiting
  <2>5. ConfirmsStand'
    BY DEF ConfirmsStand, OneAlive, Meeting!Alive
  <2>6. NotMisled'
    BY DEF NotMisled
  <2> QED BY <2>1, <2>2, <2>3, <2>4, <2>5, <2>6
<1>6. ASSUME NEW l \in Left, Meeting!WriteLeftDomId(l) PROVE MeetingInv'
  <2> USE <1>2, <1>6 DEF Meeting!WriteLeftDomId, Meeting!Write
  <2>1. OneAlive'
    BY DEF OneAlive, Meeting!Alive
  <2>2. RightEnds'
    BY DEF RightEnds
  <2>3. LeftEnds'
    BY DEF LeftEnds
  <2>4. PortsOfWaiting'
    BY DEF PortsOfWaiting
  <2>5. ConfirmsStand'
    BY DEF ConfirmsStand, Standing
  <2>6. NotMisled'
    BY DEF NotMisled
  <2> QED BY <2>1, <2>2, <2>3, <2>4, <2>5, <2>6
<1>7. ASSUME NEW l \in Left, Meeting!ReadRightDomId(l) PROVE MeetingInv'
  <2> USE <1>2, <1>7 DEF Meeting!ReadRightDomId, Meeting!Found
  <2>1. OneAlive'
    BY DEF OneAlive, Meeting!Alive
  <2>2. RightEnds'
    BY DEF RightEnds
  <2>3. LeftEnds'
    BY DEF LeftEnds
  <2>4. PortsOfWaiting'
    BY DEF PortsOfWaiting
  <2>5. ConfirmsStand'
    BY DEF ConfirmsStand, Standing
  <2>6. NotMisled'
    BY DEF NotMisled
  <2> QED BY <2>1, <2>2, <2>3, <2>4, <2>5, <2>6
<1>8. ASSUME NEW l \in Left, Meeting!MapGrants(l) PROVE MeetingInv'
  <2> USE <1>2, <1>8 DEF Meeting!MapGrants, Meeting!Found
  <2>1. OneAlive'
    BY DEF OneAlive, Meeting!Alive
  <2>2. RightEnds'
    BY DEF RightEnds
  <2>3. LeftEnds'
    BY DEF LeftEnds
  <2>4. PortsOfWaiting'
    BY DEF PortsOfWaiting
  <2>5. ConfirmsStand'
    BY DEF ConfirmsStand, Standing, LeftEnds, RightEnds, OneAlive, Meeting!Alive
  <2>6. NotMisled'
    BY DEF NotMisled
  <2> QED BY <2>1, <2>2, <2>3, <2>4, <2>5, <2>6
<1>9. ASSUME NEW l \in Left, Meeting!BindPort(l) PROVE MeetingInv'
  <2> USE <1>2, <1>9 DEF Meeting!BindPort, Meeting!Found
  <2>1. OneAlive'
    BY DEF OneAlive, Meeting!Alive
  <2>2. RightEnds'
    BY DEF RightEnds
  <2>3. LeftEnds'
    BY DEF LeftEnds
  <2>4. PortsOfWaiting'
    BY DEF PortsOfWaiting
  <2>5. ConfirmsStand'
    BY DEF ConfirmsStand, Standing, LeftEnds, RightEnds, OneAlive, PortsOfWaiting, Meeting!Alive
  <2>6. NotMisled'
    BY DEF NotMisled, LeftEnds, RightEnds
  <2> QED BY <2>1, <2>2, <2>3, <2>4, <2>5, <2>6
<1>10. ASSUME NEW l \in Left, Meeting!Confirm(l) PROVE MeetingInv'
  <2> USE <1>2, <1>10 DEF Meeting!Confirm, Meeting!Write
  <2>1. OneAlive'
    BY DEF OneAlive, Meeting!Alive
  <2>2. RightEnds'
    BY DEF RightEnds
  <2>3. LeftEnds'
    BY DEF LeftEnds
  <2>4. PortsOfWaiting'
    BY DEF PortsOfWaiting
  <2>5. ConfirmsStand'
    BY DEF ConfirmsStand, Standing, LeftEnds, RightEnds, OneAlive, Meeting!Alive
  <2>6. NotMisled'
    BY DEF NotMisled
  <2> QED BY <2>1, <2>2, <2>3, <2>4, <2>5, <2>6
<1>11. ASSUME NEW r \in Right, Meeting!ReadLeftDomId(r) PROVE MeetingInv'
  <2> USE <1>2, <1>11 DEF Meeting!ReadLeftDomId, Meeting!Found
  <2>1. OneAlive'
    BY DEF OneAlive, Meeting!Alive
  <2>2. RightEnds'
    BY DEF RightEnds
  <2>3. LeftEnds'
    BY DEF LeftEnds
  <2>4. PortsOfWaiting'
    BY DEF PortsOfWaiting
  <2>5. ConfirmsStand'
    BY DEF ConfirmsStand, Standing
  <2>6. NotMisled'
    BY DEF NotMisled
  <2> QED BY <2>1, <2>2, <2>3, <2>4, <2>5, <2>6
<1>12. ASSUME NEW r \in Right, NEW ok \in BOOLEAN, Meeting!GrantPages(r, ok) PROVE MeetingInv'
  <2> USE <1>2, <1>12 DEF Meeting!GrantPages
  <2>1. OneAlive'
    BY DEF OneAlive, Meeting!Alive
  <2>2. RightEnds'
    BY DEF RightEnds
  <2>3. LeftEnds'
    BY DEF LeftEnds, RightEnds
  <2>4. PortsOfWaiting'
    BY DEF PortsOfWaiting
  <2>5. ConfirmsStand'
    BY DEF ConfirmsStand, Standing, LeftEnds, RightEnds
  <2>6. NotMisled'
    BY DEF NotMisled
  <2> QED BY <2>1, <2>2, <2>3, <2>4, <2>5, <2>6
<1>13. ASSUME NEW r \in Right, Meeting!WriteRightDomId(r) PROVE MeetingInv'
  <2> USE <1>2, <1>13 DEF Meeting!WriteRightDomId, Meeting!Write
  <2>1. OneAlive'
    BY DEF OneAlive, Meeting!Alive
  <2>2. RightEnds'
    BY DEF RightEnds
  <2>3. LeftEnds'
    BY DEF LeftEnds
  <2>4. PortsOfWaiting'
    BY DEF PortsOfWaiting
  <2>5. ConfirmsStand'
    BY DEF ConfirmsStand, Standing
  <2>6. NotMisled'
    BY DEF NotMisled
  <2> QED BY <2>1, <2>2, <2>3, <2>4, <2>5, <2>6
<1>14. ASSUME NEW r \in Right, Meeting!WriteGrantRefs(r) PROVE MeetingInv'
  <2> USE <1>2, <1>14 DEF Meeting!WriteGrantRefs, Meeting!Write
  <2>1. OneAlive'
    BY DEF OneAlive, Meeting!Alive
  <2>2. RightEnds'
    BY DEF RightEnds
  <2>3. LeftEnds'
    BY DEF LeftEnds
  <2>4. PortsOfWaiting'
    BY DEF PortsOfWaiting
  <2>5. ConfirmsStand'
    BY DEF ConfirmsStand, Standing
  <2>6. NotMisled'
    BY DEF NotMisled
  <2> QED BY <2>1, <2>2, <2>3, <2>4, <2>5, <2>6
<1>15. ASSUME NEW r \in Right, Meeting!WritePorts(r) PROVE MeetingInv'
  <2> USE <1>2, <1>15 DEF Meeting!WritePorts, Meeting!Write
  <2>1. OneAlive'
    BY DEF OneAlive, Meeting!Alive
  <2>2. RightEnds'
    BY DEF RightEnds
  <2>3. LeftEnds'
    BY DEF LeftEnds
  <2>4. PortsOfWaiting'
    BY DEF PortsOfWaiting
  <2>5. ConfirmsStand'
    BY DEF ConfirmsStand, Standing
  <2>6. NotMisled'
    BY DEF NotMisled
  <2> QED BY <2>1, <2>2, <2>3, <2>4, <2>5, <2>6
<1>16. ASSUME NEW r \in Right, Meeting!ReadConfirmed(r) PROVE MeetingInv'
  <2> USE <1>2, <1>16 DEF Meeting!ReadConfirmed, Meeting!Found
  <2>1. OneAlive'
    BY DEF OneAlive, Meeting!Alive
  <2>2. RightEnds'
    BY DEF RightEnds
  <2>3. LeftEnds'
    BY DEF LeftEnds
  <2>4. PortsOfWaiting'
    BY DEF PortsOfWaiting
  <2>5. ConfirmsStand'
    BY DEF ConfirmsStand, Standing
  <2>6. NotMisled'
    BY DEF NotMisled, LeftEnds, RightEnds, OneAlive, Meeting!Alive, ConfirmsStand, Standing
  <2> QED BY <2>1, <2>2, <2>3, <2>4, <2>5, <2>6
<1>17. ASSUME NEW r \in Right, Meeting!CleanUp(r) PROVE MeetingInv'
  <2> USE <1>2, <1>17 DEF Meeting!CleanUp, Meeting!NoKeys
  <2>1. OneAlive'
    BY DEF OneAlive, Meeting!Alive
  <2>2. RightEnds'
    BY DEF RightEnds
  <2>3. LeftEnds'
    BY DEF LeftEnds
  <2>4. PortsOfWaiting'
    BY DEF PortsOfWaiting
  <2>5. ConfirmsStand'
    BY DEF ConfirmsStand, Standing, LeftEnds, RightEnds, OneAlive, Meeting!Alive
  <2>6. NotMisled'
    BY DEF NotMisled
  <2> QED BY <2>1, <2>2, <2>3, <2>4, <2>5, <2>6
<1> QED
  BY <1>3, <1>4, <1>5, <1>6, <1>7, <1>8, <1>9, <1>10, <1>11, <1>12, <1>13, <1>14, <1>15, <1>16, <1>17 DEF Meeting!Next, Meeting!Domain

\* What the two ends, the store's keys and the confirmation say of each other.
THEOREM MeetingHolds == Spec => []MeetingInv
BY Composed, MeetingInit, MeetingNext, PTL DEF Meeting!Spec

\* The two ends of a channel are each other's, but where a right end died between
\* the wait and the removal of its keys.
THEOREM EndsAreEachOthers == Spec => []EndsAgree
<1>1. MeetingInv => EndsAgree
  BY RendezvousAssumption DEF MeetingInv, MeetingType, RightEnds, LeftEnds, NotMisled,
     Committed, Domain, EndsAgree, Meeting!EndsAgree
<1> QED BY <1>1, MeetingHolds, PTL
-----------------------------------------------------------------------------
(***************************************************************************)
(* Watches.  As long as no list changed under a task, each call finds what *)
(* it has loaded.                                                          *)
(***************************************************************************)
WatchingCall == {"link", "ask", "end", "unlink"}
WatchingPlace == WatchingCall \cup {"run", "test", "sleep", "asleep", "pop"}
InList(list, w) == \E i \in 1..Len(list) : list[i] = w

WatchingType ==
    /\ watch_pc \in [Watcher -> WatchingPlace]
    /\ token \in [Watcher -> Token \cup {NULL}]
    /\ watch_seen \in [Watcher -> Seq(Token)]
    /\ watches \in Seq(Token) /\ xenbus_events \in Seq(Token)
    /\ registered \in SUBSET Token

TokensApart == \A t, u \in Watcher : t # u /\ token[t] # NULL => token[t] # token[u]

CallsFind ==
    \A t \in Watcher :
        /\ watch_pc[t] \in WatchingCall => token[t] \in Token
        /\ watch_pc[t] = "ask" => InList(watches, token[t])
        /\ watch_pc[t] = "unlink" => token[t] \notin registered
        /\ watch_pc[t] = "sleep" => watch_seen[t] = <<>>
        /\ watch_pc[t] = "pop" => watch_seen[t] # <<>>

RegisteredKept == \A w \in registered : InList(watches, w)

EventsOwed ==
    /\ owed = Len(xenbus_events)
    /\ xenbus_events # <<>> => \A t \in Watcher : watch_pc[t] # "asleep"

WatchingInv ==
    \/ raced
    \/ WatchingType /\ TokensApart /\ CallsFind /\ RegisteredKept /\ EventsOwed

\* A list loses one watch of the token, and no other.
LEMMA WithoutKeeps ==
    ASSUME NEW s \in Seq(Token), NEW w \in Token
    PROVE  /\ Watching!Without(s, w) \in Seq(Token)
           /\ \A x : x # w /\ InList(s, x) => InList(Watching!Without(s, w), x)
<1>1. CASE ~ \E i \in 1..Len(s) : s[i] = w
  BY <1>1 DEF Watching!Without, Watching!RemoveFirst
<1>2. CASE \E i \in 1..Len(s) : s[i] = w
  <2> DEFINE I == {i \in 1..Len(s) : s[i] = w}
             k == CHOOSE x \in I : \A y \in I : x <= y
             a == SubSeq(s, 1, k - 1)
             b == SubSeq(s, k + 1, Len(s))
  <2>1. k \in 1..Len(s) /\ s[k] = w /\ Len(s) \in Nat
    <3>1. I # {} /\ I \in SUBSET Nat
      BY <1>2
    <3> HIDE DEF I
    <3>2. \E x \in I : \A y \in I : x <= y
      BY <3>1, LeastElement
    <3>3. k \in I
      BY <3>2
    <3> QED BY <3>3, LenProperties DEF I
  <2>2. Watching!Without(s, w) = a \o b
    <3>1. Watching!Without(s, w) = Watching!RemoveAt(s, k)
      BY <1>2 DEF Watching!Without, Watching!RemoveFirst, Watching!SelectInSeq, Watching!Min
    <3> QED BY <3>1 DEF Watching!RemoveAt
  <2>3. \A i \in 1..Len(s) : s[i] \in Token
    BY ElementOfSeq
  <2> HIDE DEF k
  <2>4. a \in Seq(Token) /\ Len(a) = k - 1 /\ \A i \in 1..k - 1 : a[i] = s[i]
    <3>1. \A i \in 1..k - 1 : s[i] \in Token
      BY <2>1, <2>3
    <3>2. /\ a \in Seq(Token) /\ Len(a) = IF 1 <= k - 1 THEN (k - 1) - 1 + 1 ELSE 0
          /\ \A i \in 1..(k - 1) - 1 + 1 : a[i] = s[1 + i - 1]
      BY <2>1, <3>1, SubSeqProperties
    <3> QED BY <2>1, <3>2
  <2>5. /\ b \in Seq(Token) /\ Len(b) = Len(s) - k
        /\ \A i \in 1..Len(s) - k : b[i] = s[k + i]
    <3>1. \A i \in k + 1..Len(s) : s[i] \in Token
      BY <2>1, <2>3
    <3>2. /\ b \in Seq(Token) /\ Len(b) = IF k + 1 <= Len(s) THEN Len(s) - (k + 1) + 1 ELSE 0
          /\ \A i \in 1..Len(s) - (k + 1) + 1 : b[i] = s[(k + 1) + i - 1]
      BY <2>1, <3>1, SubSeqProperties
    <3> QED BY <2>1, <3>2
  <2> HIDE DEF a, b
  <2>6. /\ a \o b \in Seq(Token) /\ Len(a \o b) = Len(a) + Len(b)
        /\ \A i \in 1..Len(a) + Len(b) :
               (a \o b)[i] = IF i <= Len(a) THEN a[i] ELSE b[i - Len(a)]
    BY <2>4, <2>5, ConcatProperties
  <2>7. ASSUME NEW x, x # w, NEW i \in 1..Len(s), s[i] = x PROVE InList(a \o b, x)
    <3>1. CASE i < k
      <4>1. i \in 1..Len(a) + Len(b) /\ i <= Len(a) /\ i \in 1..k - 1
        BY <2>1, <2>4, <2>5, <3>1
      <4> QED BY <2>4, <2>6, <2>7, <4>1 DEF InList
    <3>2. CASE i > k
      <4>1. /\ i - 1 \in 1..Len(a) + Len(b) /\ ~ (i - 1 <= Len(a))
            /\ i - k \in 1..Len(s) - k /\ (i - 1) - Len(a) = i - k /\ k + (i - k) = i
        BY <2>1, <2>4, <2>5, <3>2
      <4> QED BY <2>5, <2>6, <2>7, <4>1 DEF InList
    <3> QED BY <2>1, <2>7, <3>1, <3>2
  <2> QED BY <2>2, <2>6, <2>7 DEF InList
<1> QED BY <1>1, <1>2

\* A watch or an event put before a list.
LEMMA Prepended ==
    ASSUME NEW s \in Seq(Token), NEW w \in Token
    PROVE  /\ <<w>> \o s \in Seq(Token)
           /\ Len(<<w>> \o s) = Len(s) + 1 /\ <<w>> \o s # <<>>
           /\ \A x : InList(<<w>> \o s, x) <=> x = w \/ InList(s, x)
<1> DEFINE q == <<w>> \o s
<1>1. <<w>> \in Seq(Token) /\ Len(<<w>>) = 1 /\ <<w>>[1] = w /\ Len(s) \in Nat
  BY LenProperties
<1>2. /\ q \in Seq(Token) /\ Len(q) = 1 + Len(s)
      /\ \A i \in 1..1 + Len(s) : q[i] = IF i <= 1 THEN <<w>>[i] ELSE s[i - 1]
  BY <1>1, ConcatProperties
<1> HIDE DEF q
<1>3. q # <<>>
  BY <1>1, <1>2, EmptySeq
<1>4. InList(q, w)
  BY <1>1, <1>2 DEF InList
<1>5. ASSUME NEW i \in 1..Len(s) PROVE i + 1 \in 1..Len(q) /\ q[i + 1] = s[i]
  BY <1>1, <1>2
<1>6. ASSUME NEW i \in 1..Len(q), i # 1 PROVE i - 1 \in 1..Len(s) /\ q[i] = s[i - 1]
  BY <1>1, <1>2, <1>6
<1>7. q[1] = w
  BY <1>1, <1>2
<1>8. ASSUME NEW x PROVE InList(q, x) <=> x = w \/ InList(s, x)
  <2>1. InList(s, x) => InList(q, x)
    BY <1>5 DEF InList
  <2>2. InList(q, x) => x = w \/ InList(s, x)
    BY <1>6, <1>7 DEF InList
  <2> QED BY <1>4, <2>1, <2>2
<1> QED BY <1>1, <1>2, <1>3, <1>8 DEF q

LEMMA WatchingInit == Watching!Init => WatchingInv
<1> SUFFICES ASSUME Watching!Init PROVE WatchingInv
  OBVIOUS
<1>1. <<>> \in Seq(Token) /\ Len(<<>>) = 0
  BY EmptySeq
<1> QED
  BY <1>1 DEF Watching!Init, WatchingInv, WatchingType, TokensApart, CallsFind, RegisteredKept,
     EventsOwed, WatchingPlace, WatchingCall

LEMMA WatchingNext == WatchingInv /\ [Watching!Next]_(Watching!vars) => WatchingInv'
<1> SUFFICES ASSUME WatchingInv, [Watching!Next]_(Watching!vars) PROVE WatchingInv'
  OBVIOUS
<1>1. CASE UNCHANGED Watching!vars
  BY <1>1 DEF Watching!vars, Watching!taskVars, WatchingInv, WatchingType, TokensApart, CallsFind,
     RegisteredKept, EventsOwed, InList
<1>2. raced => raced' \/ UNCHANGED Watching!vars
  BY DEF Watching!Next, Watching!BeginWatch, Watching!Link, Watching!Watch, Watching!BeginUnwatch,
     Watching!Unwatch, Watching!Unlink, Watching!BeginWait, Watching!Test, Watching!Sleep,
     Watching!Pop, Watching!Push, Watching!Rest
<1> SUFFICES ASSUME ~raced, ~raced', Watching!Next PROVE WatchingInv'
  BY <1>1, <1>2 DEF WatchingInv
<1> USE WatchesAssumption DEF WatchingInv, WatchingType, WatchingPlace, WatchingCall,
        Watching!GoTo, Watching!Load
<1>3. ASSUME NEW t \in Watcher, NEW w \in Token, Watching!BeginWatch(t, w) PROVE WatchingInv'
  BY <1>3 DEF Watching!BeginWatch, Watching!Begin, TokensApart, CallsFind, RegisteredKept,
     EventsOwed
<1>4. ASSUME NEW t \in Watcher, NEW w \in Token, Watching!BeginUnwatch(t, w) PROVE WatchingInv'
  BY <1>4 DEF Watching!BeginUnwatch, Watching!Begin, TokensApart, CallsFind, RegisteredKept,
     EventsOwed
<1>5. ASSUME NEW t \in Watcher, Watching!Link(t) PROVE WatchingInv'
  <2>1. watches = watch_seen[t] /\ token[t] \in Token /\ watches' = <<token[t]>> \o watches
    BY <1>5 DEF Watching!Link, Watching!Rest, CallsFind
  <2>2. /\ watches' \in Seq(Token)
        /\ \A x : InList(watches', x) <=> x = token[t] \/ InList(watches, x)
    BY <2>1, Prepended
  <2>3. /\ watch_pc' = [watch_pc EXCEPT ![t] = "ask"]
        /\ watch_seen' = [watch_seen EXCEPT ![t] = <<>>] /\ <<>> \in Seq(Token)
        /\ UNCHANGED <<token, xenbus_events, registered, owed>>
    BY <1>5, EmptySeq DEF Watching!Link
  <2>4. WatchingType'
    BY <2>2, <2>3
  <2>5. CallsFind'
    BY <2>1, <2>2, <2>3 DEF CallsFind
  <2> QED BY <2>2, <2>3, <2>4, <2>5 DEF TokensApart, RegisteredKept, EventsOwed
<1>6. ASSUME NEW t \in Watcher, NEW ok \in BOOLEAN, Watching!Watch(t, ok) PROVE WatchingInv'
  <2>1. <<>> \in Seq(Token)
    BY EmptySeq
  <2> QED
    BY <1>6, <2>1 DEF Watching!Watch, Watching!Return, TokensApart, CallsFind, RegisteredKept,
       EventsOwed
<1>7. ASSUME NEW t \in Watcher, NEW ok \in BOOLEAN, Watching!Unwatch(t, ok) PROVE WatchingInv'
  <2>1. <<>> \in Seq(Token) /\ UNCHANGED <<watches, xenbus_events, owed>>
        /\ watch_pc[t] = "end" /\ token[t] \in Token
    BY <1>7, EmptySeq DEF Watching!Unwatch, CallsFind
  <2>2. CASE ok
    <3>1. /\ registered' = registered \ {token[t]} /\ UNCHANGED token
          /\ watch_pc' = [watch_pc EXCEPT ![t] = "unlink"]
          /\ watch_seen' = [watch_seen EXCEPT ![t] = watches]
      BY <1>7, <2>2 DEF Watching!Unwatch
    <3> QED BY <2>1, <3>1 DEF TokensApart, CallsFind, RegisteredKept, EventsOwed
  <2>3. CASE ~ok
    <3>1. /\ registered' = registered /\ token' = [token EXCEPT ![t] = NULL]
          /\ watch_pc' = [watch_pc EXCEPT ![t] = "run"]
          /\ watch_seen' = [watch_seen EXCEPT ![t] = <<>>]
      BY <1>7, <2>3 DEF Watching!Unwatch, Watching!Return
    <3> QED BY <2>1, <3>1 DEF TokensApart, CallsFind, RegisteredKept, EventsOwed
  <2> QED BY <2>2, <2>3
<1>8. ASSUME NEW t \in Watcher, Watching!Unlink(t) PROVE WatchingInv'
  <2>1. /\ watches = watch_seen[t] /\ token[t] \in Token /\ token[t] \notin registered
        /\ watches' = Watching!Without(watches, token[t])
    BY <1>8 DEF Watching!Unlink, Watching!Rest, CallsFind
  <2>2. /\ watches' \in Seq(Token)
        /\ \A x : x # token[t] /\ InList(watches, x) => InList(watches', x)
    BY <2>1, WithoutKeeps
  <2>3. /\ watch_pc' = [watch_pc EXCEPT ![t] = "run"]
        /\ watch_seen' = [watch_seen EXCEPT ![t] = <<>>] /\ <<>> \in Seq(Token)
        /\ token' = [token EXCEPT ![t] = NULL]
        /\ UNCHANGED <<xenbus_events, registered, owed>>
    BY <1>8, EmptySeq DEF Watching!Unlink, Watching!Return
  <2>4. WatchingType' /\ TokensApart'
    BY <2>2, <2>3 DEF TokensApart
  <2>5. CallsFind'
    BY <2>1, <2>2, <2>3 DEF CallsFind, TokensApart
  <2> QED BY <2>1, <2>2, <2>3, <2>4, <2>5 DEF RegisteredKept, EventsOwed
<1>9. ASSUME NEW t \in Watcher, Watching!BeginWait(t) \/ Watching!Test(t) \/ Watching!Sleep(t)
      PROVE  WatchingInv'
  <2>1. UNCHANGED <<token, watches, xenbus_events, registered, owed>>
    BY <1>9 DEF Watching!BeginWait, Watching!Test, Watching!Sleep
  <2>2. PICK place \in {"test", "pop", "sleep", "asleep"}, list \in Seq(Token) :
            /\ watch_pc' = [watch_pc EXCEPT ![t] = place]
            /\ watch_seen' = [watch_seen EXCEPT ![t] = list]
            /\ place = "sleep" => list = <<>>
            /\ place = "pop" => list # <<>>
            /\ place = "asleep" => xenbus_events = <<>>
    <3>1. CASE Watching!BeginWait(t)
      BY <3>1 DEF Watching!BeginWait
    <3>2. CASE Watching!Test(t)
      BY <3>2 DEF Watching!Test
    <3>3. CASE Watching!Sleep(t)
      BY <3>3 DEF Watching!Sleep, Watching!Rest, CallsFind
    <3> QED BY <1>9, <3>1, <3>2, <3>3
  <2> QED BY <2>1, <2>2 DEF TokensApart, CallsFind, RegisteredKept, EventsOwed
<1>10. ASSUME NEW t \in Watcher, Watching!Pop(t) PROVE WatchingInv'
  <2>1. /\ xenbus_events = watch_seen[t] /\ xenbus_events # <<>>
        /\ xenbus_events' = Tail(xenbus_events)
    BY <1>10 DEF Watching!Pop, Watching!Rest, CallsFind
  <2>2. /\ xenbus_events' \in Seq(Token) /\ Len(xenbus_events') = Len(xenbus_events) - 1
        /\ <<>> \in Seq(Token)
    BY <2>1, HeadTailProperties, EmptySeq
  <2> QED
    BY <1>10, <2>1, <2>2 DEF Watching!Pop, Watching!Return, TokensApart, CallsFind,
       RegisteredKept, EventsOwed
<1>11. ASSUME NEW w \in Token, Watching!Push(w) PROVE WatchingInv'
  <2>1. /\ <<w>> \o xenbus_events \in Seq(Token)
        /\ Len(<<w>> \o xenbus_events) = Len(xenbus_events) + 1
    BY Prepended
  <2> QED
    BY <1>11, <2>1 DEF Watching!Push, Watching!WakesAll, TokensApart, CallsFind, RegisteredKept,
       EventsOwed
<1> QED
  BY <1>3, <1>4, <1>5, <1>6, <1>7, <1>8, <1>9, <1>10, <1>11 DEF Watching!Next

\* Unless a list changed under a task, no watch of the store is dropped from the
\* list, no event is lost, and no task sleeps beside one.
THEOREM NothingElseLoses == Spec => []OnlyRacesLose
<1>1. WatchingInv => OnlyRacesLose
  BY DEF WatchingInv, RegisteredKept, EventsOwed, InList, OnlyRacesLose, Watching!OnlyRacesLose,
     Watching!Contains
<1>2. Spec => []WatchingInv
  BY Composed, WatchingInit, WatchingNext, PTL DEF Watching!Spec
<1> QED BY <1>1, <1>2, PTL
=============================================================================
