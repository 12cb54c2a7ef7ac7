---------------------------- MODULE TasksProofs ----------------------------
(***************************************************************************)
(* The safety properties of Tasks, for every number of tasks, priorities   *)
(* and event lists, every size of the tick count and every application.    *)
(*                                                                         *)
(* IInv of TasksInv, about where tasks are, is inductive.  A step moves at *)
(* most one task, so the proof of each action says what it does to the     *)
(* lists, that every other task stays where it was (UnmovedOK), and where  *)
(* the moved task is now.  The invariants of the tick count (TickInv), of  *)
(* the choice of the running task (HighInv) and of the sleepers (SleepInv) *)
(* are each inductive together with it.                                    *)
(***************************************************************************)
EXTENDS TasksInv, ListLemmas, FiniteSetTheorems

LEMMA ConstantFacts ==
    /\ Idle \in AllTasks /\ Main \in AllTasks /\ Main # Idle
    /\ Task \subseteq AllTasks /\ Idle \notin Task
    /\ ListEnd \notin AllTasks
    /\ 0 \in Level /\ 0 \in Tick /\ portMAX_DELAY \in Tick
    /\ Level \subseteq Nat /\ Tick \subseteq Nat
    /\ \A p, q \in Level : Larger(p, q) \in Level
    /\ \A p \in Level : EventItemValue(p) \in 1..MAX_PRIORITIES
BY TaskAssumption, SizeAssumption
   DEF AllTasks, Level, Tick, portMAX_DELAY, Larger, EventItemValue

LEMMA TicksAfterType ==
    ASSUME NEW time \in Tick, NEW n \in Tick
    PROVE  TicksAfter(time, n) \in Tick
BY SizeAssumption DEF Tick, TicksAfter

LEMMA NextTickType == \A time \in Tick : TicksAfter(time, 1) \in Tick
BY SizeAssumption DEF Tick, TicksAfter

-----------------------------------------------------------------------------
(***************************************************************************)
(* What the operators on the ready lists do to a ReadyOK collection.       *)
(***************************************************************************)
LEMMA NonEmptyItems ==
    ASSUME NEW lists, NEW top, ReadyOK(lists, top)
    PROVE  \A p \in Level : NonEmpty(lists, p) <=> ItemsOf(lists[p]) # {}
<1>1. \A p \in Level : IsRing(lists[p], AllTasks)
  BY DEF ReadyOK
<1> QED BY <1>1, ConstantFacts, RingItems DEF NonEmpty

\* The selection finds the highest level with a task, and a task there.
LEMMA HighestReadyIs ==
    ASSUME NEW lists, NEW top, ReadyOK(lists, top)
    PROVE  /\ HighestReady(lists, top) \in Level
           /\ ItemsOf(lists[HighestReady(lists, top)]) # {}
           /\ \A p \in Level : ItemsOf(lists[p]) # {} =>
                 p <= HighestReady(lists, top)
<1> DEFINE H == {p \in 0..top : NonEmpty(lists, p)}
<1>1. top \in Nat /\ 0..top \subseteq Level
  BY SizeAssumption DEF ReadyOK, Level
<1>2. \A p \in Level : NonEmpty(lists, p) <=> ItemsOf(lists[p]) # {}
  BY NonEmptyItems
<1>3. \A p \in Level : ItemsOf(lists[p]) # {} => p \in H
  <2>1. \A p \in Level : ItemsOf(lists[p]) # {} => p \in 0..top
    BY <1>1 DEF ReadyOK, Level
  <2> QED BY <1>2, <2>1
<1>4. 0 \in H
  BY <1>3, ConstantFacts DEF ReadyOK
<1>5. H \in SUBSET (0..top) /\ H # {}
  BY <1>4
<1>6. Max(H) \in H /\ \A p \in H : Max(H) >= p
  BY <1>1, <1>5, MaxOfNat
<1>7. HighestReady(lists, top) = Max(H)
  BY DEF HighestReady
<1>8. Max(H) \in 0..top /\ NonEmpty(lists, Max(H))
  BY <1>6
<1> HIDE DEF H
<1> QED BY <1>1, <1>2, <1>3, <1>6, <1>7, <1>8, ConstantFacts

LEMMA SwitchReady ==
    ASSUME NEW lists, NEW top, ReadyOK(lists, top),
           vTaskSwitchContext(lists, top),
           pxCurrentTCB \in AllTasks, uxSchedulerSuspended \in Nat
    PROVE  /\ ReadyOK(pxReadyTasksLists, uxTopReadyPriority)'
           /\ \A p \in Level : ItemsOf(pxReadyTasksLists[p])' = ItemsOf(lists[p])
           /\ pxCurrentTCB' \in AllTasks
           /\ xYieldPending' \in BOOLEAN
           /\ uxSchedulerSuspended # 0 => pxCurrentTCB' = pxCurrentTCB
           /\ uxSchedulerSuspended = 0 => InReady(pxCurrentTCB)'
<1>1. CASE uxSchedulerSuspended # 0
  <2>1. /\ pxReadyTasksLists' = lists /\ uxTopReadyPriority' = top
        /\ pxCurrentTCB' = pxCurrentTCB
    BY <1>1 DEF vTaskSwitchContext
  <2>2. xYieldPending' \in BOOLEAN
    BY <1>1, Zenon DEF vTaskSwitchContext
  <2> QED BY <1>1, <2>1, <2>2
<1>2. CASE uxSchedulerSuspended = 0
  <2> DEFINE p == HighestReady(lists, top)
             ring == listGET_OWNER_OF_NEXT_ENTRY(lists[p])
  <2>1. /\ p \in Level /\ ItemsOf(lists[p]) # {}
        /\ \A q \in Level : ItemsOf(lists[q]) # {} => q <= p
    BY HighestReadyIs
  <2>2. /\ pxReadyTasksLists' = [lists EXCEPT ![p] = ring]
        /\ uxTopReadyPriority' = p
        /\ pxCurrentTCB' = Index(ring)
    BY <1>2 DEF vTaskSwitchContext
  <2>3. xYieldPending' \in BOOLEAN
    BY <1>2, Zenon DEF vTaskSwitchContext
  <2>4. /\ IsRing(ring, AllTasks) /\ ItemsOf(ring) = ItemsOf(lists[p])
        /\ Index(ring) \in ItemsOf(lists[p])
    <3>1. IsRing(lists[p], AllTasks)
      BY <2>1 DEF ReadyOK
    <3> QED BY <2>1, <3>1, ConstantFacts, NextEntryRing
  <2> HIDE DEF p, ring
  <2>5. /\ lists \in [Level -> Seq(AllTasks \cup {ListEnd})]
        /\ ring \in Seq(AllTasks \cup {ListEnd})
    BY <2>4 DEF ReadyOK, IsRing, IsList
  <2>6. /\ pxReadyTasksLists' \in [Level -> Seq(AllTasks \cup {ListEnd})]
        /\ \A q \in Level : q # p => pxReadyTasksLists'[q] = lists[q]
        /\ pxReadyTasksLists'[p] = ring
    BY <2>1, <2>2, <2>5
  <2>7. \A q \in Level : ItemsOf(pxReadyTasksLists[q])' = ItemsOf(lists[q])
    BY <2>4, <2>6 DEF ItemsOf
  <2>8. \A q \in Level : IsRing(pxReadyTasksLists'[q], AllTasks)
    BY <2>4, <2>6 DEF ReadyOK
  <2>9. ReadyOK(pxReadyTasksLists, uxTopReadyPriority)'
    BY <2>1, <2>2, <2>6, <2>7, <2>8, ConstantFacts DEF ReadyOK
  <2>10. Index(ring) \in AllTasks
    BY <2>1, <2>4, ConstantFacts, RingItems DEF ReadyOK
  <2> QED BY <1>2, <2>1, <2>2, <2>3, <2>4, <2>7, <2>9, <2>10 DEF InReady
<1> QED BY <1>1, <1>2

LEMMA SwitchIfReady ==
    ASSUME NEW condition \in BOOLEAN, NEW lists, NEW top, ReadyOK(lists, top),
           SwitchIf(condition, lists, top),
           pxCurrentTCB \in AllTasks, uxSchedulerSuspended \in Nat,
           xYieldPending \in BOOLEAN
    PROVE  /\ ReadyOK(pxReadyTasksLists, uxTopReadyPriority)'
           /\ \A p \in Level : ItemsOf(pxReadyTasksLists[p])' = ItemsOf(lists[p])
           /\ pxCurrentTCB' \in AllTasks
           /\ xYieldPending' \in BOOLEAN
           /\ uxSchedulerSuspended # 0 \/ ~ condition =>
                 pxCurrentTCB' = pxCurrentTCB
           /\ uxSchedulerSuspended = 0 /\ condition => InReady(pxCurrentTCB)'
<1>1. CASE condition
  <2>1. vTaskSwitchContext(lists, top)
    BY <1>1 DEF SwitchIf
  <2> QED BY <1>1, <2>1, SwitchReady
<1>2. CASE ~ condition
  BY <1>2 DEF SwitchIf
<1> QED BY <1>1, <1>2

LEMMA WithReadyOK ==
    ASSUME NEW lists, NEW top, ReadyOK(lists, top), NEW t \in AllTasks,
           NEW p \in Level, t \notin ItemsOf(lists[p])
    PROVE  /\ ReadyOK(WithReady(lists, t, p), Larger(p, top))
           /\ ItemsOf(WithReady(lists, t, p)[p]) = ItemsOf(lists[p]) \cup {t}
           /\ \A q \in Level : q # p =>
                 ItemsOf(WithReady(lists, t, p)[q]) = ItemsOf(lists[q])
<1> DEFINE ring == vListInsertEnd(lists[p], t)
           new == WithReady(lists, t, p)
<1>1. IsRing(ring, AllTasks) /\ ItemsOf(ring) = ItemsOf(lists[p]) \cup {t}
  <2>1. IsRing(lists[p], AllTasks)
    BY DEF ReadyOK
  <2> QED BY <2>1, ConstantFacts, InsertEndRing
<1>2. new = [lists EXCEPT ![p] = ring]
  BY DEF WithReady
<1> HIDE DEF ring, new
<1>3. /\ lists \in [Level -> Seq(AllTasks \cup {ListEnd})]
      /\ ring \in Seq(AllTasks \cup {ListEnd})
  BY <1>1 DEF ReadyOK, IsRing, IsList
<1>4. /\ new \in [Level -> Seq(AllTasks \cup {ListEnd})]
      /\ new[p] = ring
      /\ \A q \in Level : q # p => new[q] = lists[q]
  BY <1>2, <1>3
<1>5. \A q \in Level : IsRing(new[q], AllTasks)
  BY <1>1, <1>4 DEF ReadyOK
<1>6. \A q \in Level : ItemsOf(new[q]) # {} => q <= Larger(p, top)
  <2>1. top \in Nat /\ Level \subseteq Nat
    BY ConstantFacts DEF ReadyOK
  <2>2. \A q \in Level : ItemsOf(new[q]) # {} => q <= p \/ q <= top
    BY <1>4, <2>1 DEF ReadyOK
  <2> QED BY <2>1, <2>2 DEF Larger
<1>7. Idle \in ItemsOf(new[0])
  BY <1>1, <1>4, ConstantFacts DEF ReadyOK
<1>8. Larger(p, top) \in Level
  BY ConstantFacts DEF ReadyOK
<1>9. ReadyOK(new, Larger(p, top))
  BY <1>4, <1>5, <1>6, <1>7, <1>8 DEF ReadyOK
<1> QED BY <1>1, <1>4, <1>9 DEF new

LEMMA ReadyWithoutOK ==
    ASSUME ReadyOK(pxReadyTasksLists, uxTopReadyPriority), NEW t \in AllTasks
    PROVE  /\ t # Idle => ReadyOK(ReadyWithout(t), uxTopReadyPriority)
           /\ \A p \in Level :
                 ItemsOf(ReadyWithout(t)[p]) = ItemsOf(pxReadyTasksLists[p]) \ {t}
<1> DEFINE new == ReadyWithout(t)
<1>1. \A p \in Level : new[p] = uxListRemove(pxReadyTasksLists[p], t)
  BY DEF ReadyWithout
<1>2. \A p \in Level : IsRing(pxReadyTasksLists[p], AllTasks)
  BY DEF ReadyOK
<1>3. ASSUME NEW p \in Level
      PROVE  /\ IsRing(new[p], AllTasks)
             /\ ItemsOf(new[p]) = ItemsOf(pxReadyTasksLists[p]) \ {t}
  BY <1>1, <1>2, ConstantFacts, RemoveRing
<1>4. new \in [Level -> Seq(AllTasks \cup {ListEnd})]
  <2>1. \A p \in Level :
           uxListRemove(pxReadyTasksLists[p], t) \in Seq(AllTasks \cup {ListEnd})
    BY <1>1, <1>3 DEF IsRing, IsList
  <2> QED BY <2>1 DEF ReadyWithout
<1> HIDE DEF new
<1>5. t # Idle => Idle \in ItemsOf(new[0])
  BY <1>3, ConstantFacts DEF ReadyOK
<1>6. \A p \in Level : ItemsOf(new[p]) # {} => p <= uxTopReadyPriority
  BY <1>3 DEF ReadyOK
<1>7. t # Idle => ReadyOK(new, uxTopReadyPriority)
  BY <1>3, <1>4, <1>5, <1>6 DEF ReadyOK
<1> QED BY <1>3, <1>7 DEF new

\* The same for the task that is put back at another level.
LEMMA MovedReadyOK ==
    ASSUME ReadyOK(pxReadyTasksLists, uxTopReadyPriority),
           NEW t \in AllTasks, t # Idle, NEW p \in Level
    PROVE  LET lists == WithReady(ReadyWithout(t), t, p)
           IN  /\ ReadyOK(lists, Larger(p, uxTopReadyPriority))
               /\ ItemsOf(lists[p]) = ItemsOf(pxReadyTasksLists[p]) \cup {t}
               /\ \A q \in Level : q # p =>
                     ItemsOf(lists[q]) = ItemsOf(pxReadyTasksLists[q]) \ {t}
<1> DEFINE out == ReadyWithout(t)
           lists == WithReady(out, t, p)
<1>1. /\ ReadyOK(out, uxTopReadyPriority)
      /\ \A q \in Level : ItemsOf(out[q]) = ItemsOf(pxReadyTasksLists[q]) \ {t}
  BY ReadyWithoutOK
<1> HIDE DEF out
<1>2. t \notin ItemsOf(out[p])
  BY <1>1
<1>3. /\ ReadyOK(lists, Larger(p, uxTopReadyPriority))
      /\ ItemsOf(lists[p]) = ItemsOf(out[p]) \cup {t}
      /\ \A q \in Level : q # p => ItemsOf(lists[q]) = ItemsOf(out[q])
  BY <1>1, <1>2, WithReadyOK
<1> HIDE DEF lists
<1>4. /\ ItemsOf(lists[p]) = ItemsOf(pxReadyTasksLists[p]) \cup {t}
      /\ \A q \in Level : q # p =>
            ItemsOf(lists[q]) = ItemsOf(pxReadyTasksLists[q]) \ {t}
  BY <1>1, <1>3
<1> QED BY <1>3, <1>4 DEF lists, out

-----------------------------------------------------------------------------
(***************************************************************************)
(* The same for the delayed lists, the event lists and the parked tasks.   *)
(***************************************************************************)
LEMMA RemoveFromDelayedOK ==
    ASSUME DelayedOK, xItemValue \in [AllTasks -> Tick], NEW t \in AllTasks,
           RemoveFromDelayed(t)
    PROVE  /\ DelayedOK'
           /\ ToSet(pxDelayedTaskList)' = ToSet(pxDelayedTaskList) \ {t}
           /\ ToSet(pxOverflowDelayedTaskList)' =
                 ToSet(pxOverflowDelayedTaskList) \ {t}
           /\ xItemValue' \in [AllTasks -> Tick]
           /\ xNextTaskUnblockTime' = xNextTaskUnblockTime
<1>1. /\ IsList(pxDelayedTaskList, AllTasks)
      /\ IsList(pxOverflowDelayedTaskList, AllTasks)
  BY DEF DelayedOK
<1>2. /\ pxDelayedTaskList' = RemoveFirst(pxDelayedTaskList, t)
      /\ pxOverflowDelayedTaskList' = RemoveFirst(pxOverflowDelayedTaskList, t)
      /\ xItemValue' = [xItemValue EXCEPT ![t] = 0]
      /\ xNextTaskUnblockTime' = xNextTaskUnblockTime
  BY DEF RemoveFromDelayed
<1>3. /\ IsList(pxDelayedTaskList', AllTasks)
      /\ ToSet(pxDelayedTaskList') = ToSet(pxDelayedTaskList) \ {t}
  BY <1>1, <1>2, RemoveFirstList
<1>4. /\ IsList(pxOverflowDelayedTaskList', AllTasks)
      /\ ToSet(pxOverflowDelayedTaskList') =
            ToSet(pxOverflowDelayedTaskList) \ {t}
  BY <1>1, <1>2, RemoveFirstList
<1>5. xItemValue' \in [AllTasks -> Tick]
  BY <1>2, ConstantFacts
<1> QED BY <1>2, <1>3, <1>4, <1>5 DEF DelayedOK

\* The current task goes to one of the two delayed lists.
LEMMA AddCurrentOK ==
    ASSUME DelayedOK, xItemValue \in [AllTasks -> Tick], NEW wake \in Tick,
           pxCurrentTCB \in AllTasks, xNextTaskUnblockTime \in Tick,
           ~ InDelayed(pxCurrentTCB), ~ InOverflow(pxCurrentTCB),
           AddCurrentToDelayed(wake)
    PROVE  /\ DelayedOK'
           /\ \A t \in AllTasks \ {pxCurrentTCB} :
                 /\ InDelayed(t)' <=> InDelayed(t)
                 /\ InOverflow(t)' <=> InOverflow(t)
           /\ \/ /\ pxCurrentTCB \in ToSet(pxDelayedTaskList')
                 /\ pxCurrentTCB \notin ToSet(pxOverflowDelayedTaskList')
              \/ /\ pxCurrentTCB \notin ToSet(pxDelayedTaskList')
                 /\ pxCurrentTCB \in ToSet(pxOverflowDelayedTaskList')
           /\ xItemValue' \in [AllTasks -> Tick]
           /\ xNextTaskUnblockTime' \in Tick
<1> DEFINE value == [xItemValue EXCEPT ![pxCurrentTCB] = wake]
<1>1. /\ IsList(pxDelayedTaskList, AllTasks)
      /\ IsList(pxOverflowDelayedTaskList, AllTasks)
      /\ pxCurrentTCB \notin ToSet(pxDelayedTaskList)
      /\ pxCurrentTCB \notin ToSet(pxOverflowDelayedTaskList)
  BY DEF DelayedOK, InDelayed, InOverflow
<1>2. xItemValue' \in [AllTasks -> Tick]
  BY DEF AddCurrentToDelayed
<1>3. xNextTaskUnblockTime' \in Tick
  BY DEF AddCurrentToDelayed
<1>4. CASE wake < xTickCount
  <2>1. /\ pxOverflowDelayedTaskList' =
              vListInsert(pxOverflowDelayedTaskList, pxCurrentTCB, value)
        /\ pxDelayedTaskList' = pxDelayedTaskList
    BY <1>4 DEF AddCurrentToDelayed
  <2> HIDE DEF value
  <2>2. /\ IsList(pxOverflowDelayedTaskList', AllTasks)
        /\ ToSet(pxOverflowDelayedTaskList') =
              ToSet(pxOverflowDelayedTaskList) \cup {pxCurrentTCB}
    BY <1>1, <2>1, vListInsertList
  <2> QED BY <1>1, <1>2, <1>3, <2>1, <2>2 DEF DelayedOK, InDelayed, InOverflow
<1>5. CASE ~ (wake < xTickCount)
  <2>1. /\ pxDelayedTaskList' =
              vListInsert(pxDelayedTaskList, pxCurrentTCB, value)
        /\ pxOverflowDelayedTaskList' = pxOverflowDelayedTaskList
    BY <1>5 DEF AddCurrentToDelayed
  <2> HIDE DEF value
  <2>2. /\ IsList(pxDelayedTaskList', AllTasks)
        /\ ToSet(pxDelayedTaskList') =
              ToSet(pxDelayedTaskList) \cup {pxCurrentTCB}
    BY <1>1, <2>1, vListInsertList
  <2> QED BY <1>1, <1>2, <1>3, <2>1, <2>2 DEF DelayedOK, InDelayed, InOverflow
<1> QED BY <1>4, <1>5

LEMMA RemoveFromEventsOK ==
    ASSUME EventsOK, NEW t \in AllTasks, RemoveFromEvents(t)
    PROVE  /\ EventsOK'
           /\ \A e \in EventList :
                 ToSet(xEventLists[e])' = ToSet(xEventLists[e]) \ {t}
           /\ ToSet(xPendingReadyList)' = ToSet(xPendingReadyList) \ {t}
<1>1. /\ \A e \in EventList : xEventLists'[e] = RemoveFirst(xEventLists[e], t)
      /\ xPendingReadyList' = RemoveFirst(xPendingReadyList, t)
  BY DEF RemoveFromEvents
<1>2. ASSUME NEW e \in EventList
      PROVE  /\ IsList(xEventLists'[e], AllTasks)
             /\ ToSet(xEventLists'[e]) = ToSet(xEventLists[e]) \ {t}
  <2>1. IsList(xEventLists[e], AllTasks)
    BY DEF EventsOK
  <2> QED BY <1>1, <2>1, RemoveFirstList
<1>3. /\ IsList(xPendingReadyList', AllTasks)
      /\ ToSet(xPendingReadyList') = ToSet(xPendingReadyList) \ {t}
  BY <1>1, RemoveFirstList DEF EventsOK
<1>4. xEventLists' \in [EventList -> Seq(AllTasks)]
  <2>1. \A e \in EventList : RemoveFirst(xEventLists[e], t) \in Seq(AllTasks)
    BY <1>1, <1>2 DEF IsList
  <2> QED BY <2>1 DEF RemoveFromEvents
<1> QED BY <1>2, <1>3, <1>4 DEF EventsOK

-----------------------------------------------------------------------------
(***************************************************************************)
(* A task that a step does not move.                                       *)
(***************************************************************************)
Unmoved(t) ==
    /\ \A p \in Level :
          t \in ItemsOf(pxReadyTasksLists'[p]) <=> t \in ItemsOf(pxReadyTasksLists[p])
    /\ InDelayed(t)' <=> InDelayed(t)
    /\ InOverflow(t)' <=> InOverflow(t)
    /\ InSuspended(t)' <=> InSuspended(t)
    /\ InTermination(t)' <=> InTermination(t)
    /\ InPending(t)' <=> InPending(t)
    /\ \A e \in EventList :
          t \in ToSet(xEventLists'[e]) <=> t \in ToSet(xEventLists[e])
    /\ pc'[t] = "none" <=> pc[t] = "none"
    /\ pc'[t] = "deleted" <=> pc[t] = "deleted"
    /\ uxPriority'[t] = uxPriority[t]

LEMMA UnmovedOK ==
    ASSUME NEW t \in AllTasks, TaskOK(t), Unmoved(t)
    PROVE  TaskOK(t)' /\ (InReady(t)' <=> InReady(t))
<1>1. InReady(t)' <=> InReady(t)
  BY DEF Unmoved, InReady
<1>2. InEvents(t)' <=> InEvents(t)
  BY DEF Unmoved, InEvents
<1>3. InOneList(t)'
  BY <1>1, Zenon DEF Unmoved, TaskOK, InOneList
<1>4. AtItsLevel(t)'
  BY DEF Unmoved, TaskOK, AtItsLevel
<1>5. WaitsBlocked(t)'
  BY <1>1, <1>2 DEF Unmoved, TaskOK, WaitsBlocked
<1> QED BY <1>1, <1>3, <1>4, <1>5 DEF TaskOK

-----------------------------------------------------------------------------
(***************************************************************************)
(* Each action keeps IInv.                                                 *)
(***************************************************************************)
\* Where the running task of a call is.
LEMMA CallFacts ==
    ASSUME IInv, NEW name, Call(name)
    PROVE  /\ mode = "task" /\ pc[pxCurrentTCB] = "run"
           /\ uxSchedulerSuspended = 0
           /\ pxCurrentTCB \in Task /\ InReady(pxCurrentTCB)
           /\ \A t \in AllTasks : ~ InSection(t)
           /\ ~ Resuming
<1>1. /\ mode = "task" /\ pc[pxCurrentTCB] = "run"
      /\ uxSchedulerSuspended = 0 /\ pxCurrentTCB # Idle
  BY DEF Call, InTask
<1>2. pxCurrentTCB \in Task /\ InReady(pxCurrentTCB)
  BY <1>1 DEF IInv, TcbType, AllTasks, Control, RunningReady
<1>3. \A t \in AllTasks : ~ InSection(t)
  BY <1>1, ConstantFacts DEF IInv, TcbType, Control, SectionsOfCurrent, Resuming
<1> QED BY <1>1, <1>2, <1>3 DEF Resuming

LEMMA vTaskDeleteKeeps ==
    ASSUME IInv, NEW t \in Task, vTaskDelete(t)
    PROVE  IInv'
<1>1. t \in AllTasks /\ t # Idle
  BY ConstantFacts
<1>2. /\ mode = "task" /\ pc[pxCurrentTCB] = "run" /\ uxSchedulerSuspended = 0
      /\ InReady(pxCurrentTCB) /\ \A u \in AllTasks : ~ InSection(u)
  BY CallFacts DEF vTaskDelete
<1>3. TaskOK(t) /\ pc[t] # "none" /\ pc[t] # "deleted" /\ ~ InTermination(t)
  BY <1>1, Zenon DEF vTaskDelete, IsHandle, IInv, TaskOK, InOneList
<1>4. /\ ReadyOK(pxReadyTasksLists, uxTopReadyPriority)'
      /\ \A p \in Level : ItemsOf(pxReadyTasksLists'[p]) =
                          ItemsOf(pxReadyTasksLists[p]) \ {t}
  BY <1>1, ReadyWithoutOK DEF IInv, vTaskDelete
<1>5. /\ DelayedOK'
      /\ ToSet(pxDelayedTaskList)' = ToSet(pxDelayedTaskList) \ {t}
      /\ ToSet(pxOverflowDelayedTaskList)' =
            ToSet(pxOverflowDelayedTaskList) \ {t}
      /\ xItemValue' \in [AllTasks -> Tick]
      /\ xNextTaskUnblockTime' = xNextTaskUnblockTime
  BY <1>1, RemoveFromDelayedOK DEF IInv, TcbType, vTaskDelete
<1>6. /\ EventsOK'
      /\ \A e \in EventList :
            ToSet(xEventLists[e])' = ToSet(xEventLists[e]) \ {t}
      /\ ToSet(xPendingReadyList)' = ToSet(xPendingReadyList) \ {t}
  BY <1>1, RemoveFromEventsOK DEF IInv, vTaskDelete
<1>7. /\ ParkedOK'
      /\ ToSet(xSuspendedTaskList)' = ToSet(xSuspendedTaskList) \ {t}
      /\ ToSet(xTasksWaitingTermination)' =
            ToSet(xTasksWaitingTermination) \cup {t}
      /\ Len(xTasksWaitingTermination)' = Len(xTasksWaitingTermination) + 1
  <2>1. IsList(xTasksWaitingTermination, AllTasks)
        /\ t \notin ToSet(xTasksWaitingTermination)
    BY <1>3 DEF IInv, ParkedOK, InTermination
  <2>2. xTasksWaitingTermination' = Append(xTasksWaitingTermination, t)
    <3>1. RemoveFirst(xTasksWaitingTermination, t) = xTasksWaitingTermination
      BY <2>1, RemoveFirstAbsent DEF IsList
    <3> QED BY <3>1 DEF vTaskDelete
  <2>3. /\ IsList(xTasksWaitingTermination', AllTasks)
        /\ ToSet(xTasksWaitingTermination') =
              ToSet(xTasksWaitingTermination) \cup {t}
    BY <1>1, <2>1, <2>2, AppendList
  <2>4. Len(xTasksWaitingTermination') = Len(xTasksWaitingTermination) + 1
    BY <1>1, <2>1, <2>2, AppendProperties DEF IsList
  <2>5. /\ IsList(xSuspendedTaskList', AllTasks)
        /\ ToSet(xSuspendedTaskList') = ToSet(xSuspendedTaskList) \ {t}
    BY RemoveFirstList DEF vTaskDelete, IInv, ParkedOK
  <2> QED BY <2>3, <2>4, <2>5 DEF ParkedOK
<1>8. /\ pc' = [pc EXCEPT ![t] = "deleted"]
      /\ pc' \in [AllTasks -> Place]
      /\ pc'[t] = "deleted"
      /\ \A u \in AllTasks : u # t => pc'[u] = pc[u]
  BY <1>1 DEF vTaskDelete, IInv, TcbType, Place
<1>9. UNCHANGED <<uxPriority, uxBasePriority, xEventValue, uxTopReadyPriority,
                  uxCurrentNumberOfTasks, ticks, clock, suspension, loop,
                  pxCurrentTCB, xYieldPending>>
  BY DEF vTaskDelete
<1>10. ASSUME NEW u \in AllTasks, u # t
       PROVE  TaskOK(u)' /\ (InReady(u)' <=> InReady(u))
  <2>1. Unmoved(u)
    BY <1>4, <1>5, <1>6, <1>7, <1>8, <1>9, <1>10
       DEF Unmoved, InDelayed, InOverflow, InSuspended, InTermination, InPending
  <2> QED BY <1>10, <2>1, UnmovedOK DEF IInv
<1>11. TaskOK(t)'
  <2>1. /\ ~ InReady(t)' /\ ~ InDelayed(t)' /\ ~ InOverflow(t)'
        /\ ~ InSuspended(t)' /\ InTermination(t)' /\ ~ InPending(t)'
        /\ ~ InEvents(t)' /\ AtItsLevel(t)'
    BY <1>4, <1>5, <1>6, <1>7
       DEF InReady, InDelayed, InOverflow, InSuspended, InTermination,
           InPending, InEvents, AtItsLevel
  <2>2. InOneList(t)'
    BY <1>8, <2>1 DEF InOneList
  <2>3. WaitsBlocked(t)'
    BY <2>1 DEF WaitsBlocked, InEvents
  <2> QED BY <2>1, <2>2, <2>3 DEF TaskOK
<1>12. TcbType'
  BY <1>5, <1>8, <1>9 DEF IInv, TcbType
<1>16. CountType'
  BY <1>5, <1>9 DEF IInv, CountType, TcbType, vTaskDelete, clock, suspension
<1>17. LoopType'
  BY <1>9 DEF IInv, LoopType, loop
<1>13. Control'
  <2>1. (RunningReady /\ SectionsOfCurrent /\ SuspendedPlaces /\ IdlePlaces)'
    BY <1>1, <1>2, <1>8, <1>9, <1>10, ConstantFacts
       DEF RunningReady, SectionsOfCurrent, SuspendedPlaces, IdlePlaces,
           InSection, Resuming, suspension, loop, IInv, Control, TcbType
  <2>2. Loops'
    BY <1>2, <1>6, <1>9, EmptyByItems
       DEF IInv, Control, Loops, suspension, loop, EventsOK, IsList
  <2> QED BY <2>1, <2>2 DEF Control
<1>15. CountsAgree'
  <2>1. {u \in AllTasks : Exists(u)}' = {u \in AllTasks : Exists(u)}
    BY <1>3, <1>8 DEF Exists
  <2>2. xTasksWaitingTermination' # <<>>
    BY <1>7, EmptyByItems DEF ParkedOK, IsList
  <2> QED BY <1>7, <1>9, <2>1, <2>2 DEF CountsAgree, IInv, vTaskDelete
<1> QED BY <1>4, <1>5, <1>6, <1>7, <1>10, <1>11, <1>12, <1>13, <1>15,
           <1>16, <1>17
        DEF IInv

(***************************************************************************)
(* Actions that move no task: they switch, or change what the processor    *)
(* does.                                                                   *)
(***************************************************************************)
LEMMA StayOK ==
    ASSUME IInv,
           ReadyOK(pxReadyTasksLists, uxTopReadyPriority)',
           \A p \in Level :
              ItemsOf(pxReadyTasksLists'[p]) = ItemsOf(pxReadyTasksLists[p]),
           pc' \in [AllTasks -> Place],
           \A t \in AllTasks : /\ pc'[t] = "none" <=> pc[t] = "none"
                               /\ pc'[t] = "deleted" <=> pc[t] = "deleted",
           pc'[Idle] \in {"found", "reap"} => xTasksWaitingTermination # <<>>,
           pxCurrentTCB' \in AllTasks,
           UNCHANGED <<uxPriority, uxBasePriority, xItemValue, xEventValue,
                       pxDelayedTaskList, pxOverflowDelayedTaskList, parked,
                       events, uxCurrentNumberOfTasks, uxTasksDeleted>>
    PROVE  /\ TcbType' /\ DelayedOK' /\ ParkedOK' /\ EventsOK' /\ CountsAgree'
           /\ \A t \in AllTasks : TaskOK(t)' /\ (InReady(t)' <=> InReady(t))
<1>1. /\ pxDelayedTaskList' = pxDelayedTaskList
      /\ pxOverflowDelayedTaskList' = pxOverflowDelayedTaskList
      /\ xTasksWaitingTermination' = xTasksWaitingTermination
      /\ xSuspendedTaskList' = xSuspendedTaskList
      /\ xEventLists' = xEventLists /\ xPendingReadyList' = xPendingReadyList
      /\ uxPriority' = uxPriority
  BY DEF parked, events
<1>2. \A t \in AllTasks : Unmoved(t)
  BY <1>1 DEF Unmoved, InDelayed, InOverflow, InSuspended, InTermination, InPending
<1>3. \A t \in AllTasks : TaskOK(t)' /\ (InReady(t)' <=> InReady(t))
  BY <1>2, UnmovedOK DEF IInv
<1>4. TcbType'
  BY DEF IInv, TcbType
<1>5. DelayedOK' /\ ParkedOK' /\ EventsOK'
  BY <1>1 DEF IInv, DelayedOK, ParkedOK, EventsOK
<1>6. CountsAgree'
  <2>1. {t \in AllTasks : Exists(t)}' = {t \in AllTasks : Exists(t)}
    BY DEF Exists
  <2> QED BY <1>1, <2>1 DEF CountsAgree, IInv
<1> QED BY <1>3, <1>4, <1>5, <1>6

LEMMA taskYIELDKeeps == ASSUME IInv, taskYIELD PROVE IInv'
<1>1. /\ mode = "task" /\ pc[pxCurrentTCB] = "run" /\ uxSchedulerSuspended = 0
      /\ \A t \in AllTasks : ~ InSection(t)
  BY CallFacts DEF taskYIELD
<1>2. /\ ReadyOK(pxReadyTasksLists, uxTopReadyPriority)'
      /\ \A p \in Level :
            ItemsOf(pxReadyTasksLists'[p]) = ItemsOf(pxReadyTasksLists[p])
      /\ pxCurrentTCB' \in AllTasks /\ xYieldPending' \in BOOLEAN
      /\ InReady(pxCurrentTCB)'
  BY <1>1, SwitchReady DEF taskYIELD, IInv, TcbType, CountType
<1>3. UNCHANGED <<tcb, delayed, parked, events, counts, clock, suspension, loop>>
  BY DEF taskYIELD
<1>4. /\ TcbType' /\ DelayedOK' /\ ParkedOK' /\ EventsOK' /\ CountsAgree'
      /\ \A t \in AllTasks : TaskOK(t)' /\ (InReady(t)' <=> InReady(t))
  BY <1>2, <1>3, StayOK DEF tcb, delayed, counts, IInv, TcbType, CountsAgree
<1>5. CountType'
  BY <1>3 DEF IInv, CountType, counts, clock, delayed, suspension
<1>6. LoopType'
  BY <1>2, <1>3 DEF IInv, LoopType, loop
<1>7. Control'
  BY <1>1, <1>2, <1>3
     DEF Control, RunningReady, SectionsOfCurrent, SuspendedPlaces, IdlePlaces, Loops, InSection,
         Resuming, suspension, loop, tcb, events, IInv
<1> QED BY <1>2, <1>4, <1>5, <1>6, <1>7 DEF IInv

LEMMA portYIELDKeeps == ASSUME IInv, portYIELD_WITHIN_API PROVE IInv'
<1>1. /\ mode = "task" /\ uxSchedulerSuspended = 0
      /\ pc[pxCurrentTCB] \in {"yield", "deleted"}
      /\ \A t \in AllTasks : ~ InSection(t)
  BY DEF portYIELD_WITHIN_API, InTask, IInv, TcbType, CountType,
         Control, SuspendedPlaces, SectionsOfCurrent, InSection, Resuming
<1>2. /\ ReadyOK(pxReadyTasksLists, uxTopReadyPriority)'
      /\ \A p \in Level :
            ItemsOf(pxReadyTasksLists'[p]) = ItemsOf(pxReadyTasksLists[p])
      /\ pxCurrentTCB' \in AllTasks /\ xYieldPending' \in BOOLEAN
      /\ InReady(pxCurrentTCB)'
  BY <1>1, SwitchReady DEF portYIELD_WITHIN_API, IInv, TcbType, CountType
<1>3. UNCHANGED <<uxPriority, uxBasePriority, xItemValue, xEventValue, delayed,
                  parked, events, counts, clock, suspension, loop>>
  BY DEF portYIELD_WITHIN_API
<1>4. /\ pc' \in [AllTasks -> Place]
      /\ \A t \in AllTasks : \/ pc'[t] = pc[t]
                             \/ pc[t] = "yield" /\ pc'[t] = "run"
  BY <1>1 DEF portYIELD_WITHIN_API, InTask, IInv, TcbType, Place
<1>5. /\ TcbType' /\ DelayedOK' /\ ParkedOK' /\ EventsOK' /\ CountsAgree'
      /\ \A t \in AllTasks : TaskOK(t)' /\ (InReady(t)' <=> InReady(t))
  <2>1. pc'[Idle] \in {"found", "reap"} => xTasksWaitingTermination # <<>>
    BY <1>4, ConstantFacts DEF IInv, CountsAgree
  <2>2. \A t \in AllTasks : /\ pc'[t] = "none" <=> pc[t] = "none"
                            /\ pc'[t] = "deleted" <=> pc[t] = "deleted"
    BY <1>4
  <2> QED BY <1>2, <1>3, <1>4, <2>1, <2>2, StayOK DEF delayed, counts
<1>6. CountType'
  BY <1>3 DEF IInv, CountType, counts, clock, delayed, suspension
<1>7. LoopType'
  BY <1>2, <1>3 DEF IInv, LoopType, loop
<1>8. Control'
  BY <1>1, <1>2, <1>3, <1>4, ConstantFacts
     DEF Control, RunningReady, SectionsOfCurrent, SuspendedPlaces, IdlePlaces, Loops, InSection,
         Resuming, suspension, loop, events, IInv
<1> QED BY <1>2, <1>5, <1>6, <1>7, <1>8 DEF IInv

LEMMA vTaskSuspendAllKeeps == ASSUME IInv, vTaskSuspendAll PROVE IInv'
<1>1. /\ mode = "task" /\ pc[pxCurrentTCB] = "run" /\ pxCurrentTCB # Idle
      /\ uxSchedulerSuspended' = uxSchedulerSuspended + 1
      /\ uxSchedulerSuspended \in Nat
  BY DEF vTaskSuspendAll, InTask, IInv, CountType
<1>2. UNCHANGED <<tcb, ready, delayed, parked, events, counts, clock,
                  uxPendedTicks, loop, pxCurrentTCB, xYieldPending>>
  BY DEF vTaskSuspendAll
<1>3. ReadyOK(pxReadyTasksLists, uxTopReadyPriority)'
  BY <1>2 DEF ready, IInv
<1>4. /\ TcbType' /\ DelayedOK' /\ ParkedOK' /\ EventsOK' /\ CountsAgree'
      /\ \A t \in AllTasks : TaskOK(t)' /\ (InReady(t)' <=> InReady(t))
  BY <1>2, <1>3, StayOK DEF tcb, ready, delayed, counts, IInv, TcbType, CountsAgree
<1>5. CountType'
  BY <1>1, <1>2 DEF IInv, CountType, counts, clock, delayed
<1>6. LoopType'
  BY <1>2 DEF IInv, LoopType, loop
<1>7. Control'
  BY <1>1, <1>2, <1>4, ConstantFacts
     DEF Control, RunningReady, SectionsOfCurrent, SuspendedPlaces, IdlePlaces,
         Loops, InSection, Resuming, loop, tcb, events, IInv, TcbType
<1> QED BY <1>3, <1>4, <1>5, <1>6, <1>7 DEF IInv

\* The walk of uxTaskGetSystemState turns the ready lists and changes no set.
LEMMA SystemStateReady ==
    ASSUME IInv, uxTaskGetSystemState
    PROVE  /\ ReadyOK(pxReadyTasksLists, uxTopReadyPriority)'
           /\ \A p \in Level :
                 ItemsOf(pxReadyTasksLists'[p]) = ItemsOf(pxReadyTasksLists[p])
<1> DEFINE next(p) == listGET_OWNER_OF_NEXT_ENTRY(pxReadyTasksLists[p])
           new(p) == IF NonEmpty(pxReadyTasksLists, p)
                     THEN next(p) ELSE pxReadyTasksLists[p]
<1>1. \A p \in Level : IsRing(pxReadyTasksLists[p], AllTasks)
  BY DEF IInv, ReadyOK
<1>2. ASSUME NEW p \in Level, NonEmpty(pxReadyTasksLists, p)
      PROVE  /\ IsRing(next(p), AllTasks)
             /\ ItemsOf(next(p)) = ItemsOf(pxReadyTasksLists[p])
  <2>1. ItemsOf(pxReadyTasksLists[p]) # {}
    BY <1>2, NonEmptyItems DEF IInv
  <2> QED BY <1>1, <2>1, ConstantFacts, NextEntryRing
<1>3. pxReadyTasksLists' = [p \in Level |-> new(p)]
  BY DEF uxTaskGetSystemState
<1> HIDE DEF next
<1>4. \A p \in Level : /\ IsRing(new(p), AllTasks)
                       /\ ItemsOf(new(p)) = ItemsOf(pxReadyTasksLists[p])
  BY <1>1, <1>2
<1> HIDE DEF new
<1>5. \A p \in Level : pxReadyTasksLists'[p] = new(p)
  BY <1>3
<1>6. pxReadyTasksLists' \in [Level -> Seq(AllTasks \cup {ListEnd})]
  BY <1>3, <1>4 DEF IsRing, IsList
<1>7. uxTopReadyPriority' = uxTopReadyPriority
  BY DEF uxTaskGetSystemState
<1>8. ReadyOK(pxReadyTasksLists', uxTopReadyPriority')
  BY <1>4, <1>5, <1>6, <1>7, ConstantFacts DEF ReadyOK, IInv
<1> QED BY <1>4, <1>5, <1>8

LEMMA uxTaskGetSystemStateKeeps ==
    ASSUME IInv, uxTaskGetSystemState PROVE IInv'
<1>1. /\ mode = "task" /\ pc[pxCurrentTCB] = "run" /\ pxCurrentTCB # Idle
      /\ uxSchedulerSuspended' = uxSchedulerSuspended + 1
      /\ uxSchedulerSuspended \in Nat
  BY DEF uxTaskGetSystemState, InTask, IInv, CountType
<1>2. UNCHANGED <<uxPriority, uxBasePriority, xItemValue, xEventValue,
                  uxTopReadyPriority, delayed, parked, events, counts, clock,
                  uxPendedTicks, loop, pxCurrentTCB, xYieldPending>>
  BY DEF uxTaskGetSystemState
<1>3. /\ ReadyOK(pxReadyTasksLists, uxTopReadyPriority)'
      /\ \A p \in Level :
            ItemsOf(pxReadyTasksLists'[p]) = ItemsOf(pxReadyTasksLists[p])
  BY SystemStateReady
<1>4. /\ pc' \in [AllTasks -> Place] /\ pc'[pxCurrentTCB] = "state"
      /\ \A t \in AllTasks : t # pxCurrentTCB => pc'[t] = pc[t]
  BY DEF uxTaskGetSystemState, GoTo, IInv, TcbType, Place
<1>5. /\ TcbType' /\ DelayedOK' /\ ParkedOK' /\ EventsOK' /\ CountsAgree'
      /\ \A t \in AllTasks : TaskOK(t)' /\ (InReady(t)' <=> InReady(t))
  <2>1. pc'[Idle] \in {"found", "reap"} => xTasksWaitingTermination # <<>>
    BY <1>1, <1>4, ConstantFacts DEF IInv, CountsAgree
  <2>2. \A t \in AllTasks : /\ pc'[t] = "none" <=> pc[t] = "none"
                            /\ pc'[t] = "deleted" <=> pc[t] = "deleted"
    BY <1>1, <1>4
  <2> QED BY <1>2, <1>3, <1>4, <2>1, <2>2, StayOK DEF delayed, counts, IInv, TcbType
<1>6. CountType'
  BY <1>1, <1>2 DEF IInv, CountType, counts, clock, delayed
<1>7. LoopType'
  BY <1>2 DEF IInv, LoopType, loop
<1>8. Control'
  BY <1>1, <1>2, <1>4, <1>5, ConstantFacts
     DEF Control, RunningReady, SectionsOfCurrent, SuspendedPlaces, IdlePlaces,
         Loops, InSection, Resuming, loop, events, IInv, TcbType
<1> QED BY <1>3, <1>5, <1>6, <1>7, <1>8 DEF IInv

LEMMA xTaskResumeAllKeeps == ASSUME IInv, xTaskResumeAll PROVE IInv'
<1>1. /\ mode = "task" /\ uxSchedulerSuspended > 0
      /\ pc[pxCurrentTCB] \in {"run", "delay", "state", "looked", "found"}
      /\ uxSchedulerSuspended' = uxSchedulerSuspended - 1
      /\ uxSchedulerSuspended \in Nat
      /\ pxCurrentTCB \in AllTasks
  BY DEF xTaskResumeAll, InTask, IInv, CountType, TcbType
<1>2. UNCHANGED <<uxPriority, uxBasePriority, xItemValue, xEventValue, ready,
                  delayed, parked, events, counts, clock, uxPendedTicks,
                  caller, xSwitchRequired, waking, pxCurrentTCB, xYieldPending>>
  BY DEF xTaskResumeAll
<1>3. ReadyOK(pxReadyTasksLists, uxTopReadyPriority)'
  BY <1>2 DEF ready, IInv
<1>4. \/ uxSchedulerSuspended = 1 /\ mode' = "drain" /\ pc' = pc
      \/ /\ uxSchedulerSuspended > 1 /\ mode' = "task"
         /\ pc[pxCurrentTCB] \in {"run", "state"} /\ pxCurrentTCB # Idle
         /\ pc' = [pc EXCEPT ![pxCurrentTCB] = "run"]
  <2>1. CASE uxSchedulerSuspended = 1
    BY <2>1 DEF xTaskResumeAll
  <2>2. CASE uxSchedulerSuspended # 1
    <3>1. pxCurrentTCB # Idle /\ pc[pxCurrentTCB] # "delay"
      BY <1>1, <2>2 DEF IInv, Control, IdlePlaces, SuspendedPlaces
    <3>2. pc[pxCurrentTCB] \in {"run", "state"}
      BY <1>1, <3>1 DEF IInv, Control, IdlePlaces, AllTasks
    <3>3. AfterResume(pc[pxCurrentTCB], FALSE) = "run"
      BY <3>2 DEF AfterResume
    <3>4. mode' = mode /\ GoTo(AfterResume(pc[pxCurrentTCB], FALSE))
      BY <2>2 DEF xTaskResumeAll
    <3>5. pc' = [pc EXCEPT ![pxCurrentTCB] = "run"]
      BY <3>3, <3>4 DEF GoTo
    <3>6. uxSchedulerSuspended > 1
      BY <1>1, <2>2
    <3> QED BY <1>1, <3>1, <3>2, <3>4, <3>5, <3>6
  <2> QED BY <2>1, <2>2
<1>5. /\ pc' \in [AllTasks -> Place]
      /\ \A t \in AllTasks : \/ pc'[t] = pc[t]
                             \/ pc'[t] = "run" /\ pc[t] \in {"run", "state"}
      /\ \A t \in AllTasks : t # pxCurrentTCB => pc'[t] = pc[t]
  BY <1>1, <1>4 DEF IInv, TcbType, Place
<1>6. /\ TcbType' /\ DelayedOK' /\ ParkedOK' /\ EventsOK' /\ CountsAgree'
      /\ \A t \in AllTasks : TaskOK(t)' /\ (InReady(t)' <=> InReady(t))
  <2>1. pc'[Idle] \in {"found", "reap"} => xTasksWaitingTermination # <<>>
    BY <1>5, ConstantFacts DEF IInv, CountsAgree
  <2>2. \A t \in AllTasks : /\ pc'[t] = "none" <=> pc[t] = "none"
                            /\ pc'[t] = "deleted" <=> pc[t] = "deleted"
    BY <1>5
  <2> QED BY <1>1, <1>2, <1>3, <1>5, <2>1, <2>2, StayOK DEF ready, delayed, counts
<1>7. CountType'
  BY <1>1, <1>2 DEF IInv, CountType, counts, clock, delayed
<1>8. LoopType'
  BY <1>2, <1>4 DEF IInv, LoopType, Mode
<1>9. Control'
  <2>1. CASE uxSchedulerSuspended = 1 /\ mode' = "drain" /\ pc' = pc
    BY <1>1, <1>2, <1>6, <2>1, ConstantFacts
       DEF Control, RunningReady, SectionsOfCurrent, SuspendedPlaces, IdlePlaces,
           Loops, InSection, Resuming, events, IInv, TcbType
  <2>2. CASE /\ uxSchedulerSuspended > 1 /\ mode' = "task"
             /\ pc[pxCurrentTCB] \in {"run", "state"} /\ pxCurrentTCB # Idle
             /\ pc' = [pc EXCEPT ![pxCurrentTCB] = "run"]
    <3>1. pc'[pxCurrentTCB] = "run"
      BY <1>1, <2>2 DEF IInv, TcbType
    <3>2. RunningReady' /\ SuspendedPlaces'
      BY <1>1, <1>2, <1>6, <2>2, <3>1
         DEF Control, RunningReady, SuspendedPlaces, Resuming, IInv
    <3>3. SectionsOfCurrent' /\ IdlePlaces'
      BY <1>1, <1>2, <1>5, <2>2, <3>1, ConstantFacts
         DEF Control, SectionsOfCurrent, IdlePlaces, InSection, Resuming, IInv
    <3>4. Loops'
      BY <1>1, <1>2, <2>2 DEF Control, Loops, IInv, events
    <3> QED BY <3>2, <3>3, <3>4 DEF Control
  <2> QED BY <1>4, <2>1, <2>2
<1> QED BY <1>3, <1>6, <1>7, <1>8, <1>9 DEF IInv

LEMMA UnblockDoneKeeps == ASSUME IInv, UnblockDone PROVE IInv'
<1>1. mode = "unblock" /\ mode' = "slice"
  BY DEF UnblockDone
<1>2. UNCHANGED <<tcb, ready, pxDelayedTaskList, pxOverflowDelayedTaskList,
                  parked, events, counts, clock, suspension, caller,
                  xSwitchRequired, waking, pxCurrentTCB, xYieldPending>>
  BY DEF UnblockDone
<1>3. ReadyOK(pxReadyTasksLists, uxTopReadyPriority)'
  BY <1>2 DEF ready, IInv
<1>4. /\ TcbType' /\ DelayedOK' /\ ParkedOK' /\ EventsOK' /\ CountsAgree'
      /\ \A t \in AllTasks : TaskOK(t)' /\ (InReady(t)' <=> InReady(t))
  BY <1>2, <1>3, StayOK DEF tcb, ready, counts, IInv, TcbType, CountsAgree
<1>5. xNextTaskUnblockTime' \in Tick
  <2>1. pxDelayedTaskList # <<>> => Head(pxDelayedTaskList) \in AllTasks
    BY HeadTailProperties DEF IInv, DelayedOK, IsList
  <2> QED BY <2>1, ConstantFacts DEF UnblockDone, IInv, TcbType
<1>6. CountType'
  BY <1>2, <1>5 DEF IInv, CountType, counts, clock, suspension
<1>7. LoopType'
  BY <1>1, <1>2 DEF IInv, LoopType, Mode
<1>8. Control'
  BY <1>1, <1>2, <1>4
     DEF Control, RunningReady, SectionsOfCurrent, SuspendedPlaces, IdlePlaces,
         Loops, InSection, Resuming, tcb, events, suspension, IInv, TcbType
<1> QED BY <1>3, <1>4, <1>6, <1>7, <1>8 DEF IInv

\* The task that runs when an interrupt's handler returns is ready, whether or
\* not the handler switched.
LEMMA TickISRReturnKeeps == ASSUME IInv, TickISRReturn PROVE IInv'
<1>1. mode = "slice" /\ caller = "isr" /\ mode' = "task" /\ xSwitchRequired' = FALSE
  BY DEF TickISRReturn
<1>2. UNCHANGED <<tcb, delayed, parked, events, counts, clock, suspension,
                  caller, waking>>
  BY DEF TickISRReturn
<1>3. uxSchedulerSuspended = 0 /\ (\A t \in AllTasks : ~ InSection(t))
  BY <1>1 DEF IInv, Control, Loops, SectionsOfCurrent, Resuming
<1>4. /\ ReadyOK(pxReadyTasksLists, uxTopReadyPriority)'
      /\ \A p \in Level :
            ItemsOf(pxReadyTasksLists'[p]) = ItemsOf(pxReadyTasksLists[p])
      /\ pxCurrentTCB' \in AllTasks /\ xYieldPending' \in BOOLEAN
      /\ pxCurrentTCB' = pxCurrentTCB \/ InReady(pxCurrentTCB)'
  <2>1. SwitchWanted \in BOOLEAN
    BY Zenon DEF SwitchWanted, IInv, LoopType
  <2>2. SwitchIf(SwitchWanted, pxReadyTasksLists, uxTopReadyPriority)
    BY DEF TickISRReturn
  <2> HIDE DEF SwitchWanted
  <2> QED BY <1>3, <2>1, <2>2, SwitchIfReady
          DEF IInv, TcbType, CountType, LoopType
<1>5. /\ TcbType' /\ DelayedOK' /\ ParkedOK' /\ EventsOK' /\ CountsAgree'
      /\ \A t \in AllTasks : TaskOK(t)' /\ (InReady(t)' <=> InReady(t))
  BY <1>2, <1>4, StayOK DEF tcb, delayed, counts, IInv, TcbType, CountsAgree
<1>6. CountType'
  BY <1>2 DEF IInv, CountType, counts, clock, delayed, suspension
<1>7. LoopType'
  BY <1>1, <1>2, <1>4 DEF IInv, LoopType, Mode
<1>8. Control'
  BY <1>1, <1>2, <1>3, <1>4, <1>5
     DEF Control, RunningReady, SectionsOfCurrent, SuspendedPlaces, IdlePlaces,
         Loops, InSection, Resuming, tcb, events, suspension, IInv, TcbType
<1> QED BY <1>4, <1>5, <1>6, <1>7, <1>8 DEF IInv

LEMMA PendedTickReturnKeeps == ASSUME IInv, PendedTickReturn PROVE IInv'
<1>1. /\ mode = "slice" /\ caller = "resume" /\ mode' = "pended"
      /\ caller' = "isr" /\ xSwitchRequired' = FALSE
      /\ uxPendedTicks' = uxPendedTicks - 1
  BY DEF PendedTickReturn
<1>2. UNCHANGED <<tcb, ready, delayed, parked, events, counts, clock,
                  uxSchedulerSuspended, waking, pxCurrentTCB>>
  BY DEF PendedTickReturn
<1>3. ReadyOK(pxReadyTasksLists, uxTopReadyPriority)'
  BY <1>2 DEF ready, IInv
<1>4. /\ TcbType' /\ DelayedOK' /\ ParkedOK' /\ EventsOK' /\ CountsAgree'
      /\ \A t \in AllTasks : TaskOK(t)' /\ (InReady(t)' <=> InReady(t))
  BY <1>2, <1>3, StayOK DEF tcb, ready, delayed, counts, IInv, TcbType, CountsAgree
<1>5. uxPendedTicks > 0 /\ uxSchedulerSuspended = 0
  BY <1>1 DEF IInv, Control, Loops
<1>6. CountType'
  BY <1>1, <1>2, <1>5 DEF IInv, CountType, counts, clock, delayed
<1>7. LoopType'
  <2>1. xYieldPending' \in BOOLEAN
    BY Zenon DEF PendedTickReturn, SwitchWanted, IInv, LoopType
  <2> QED BY <1>1, <1>2, <2>1 DEF IInv, LoopType, Mode
<1>8. Control'
  BY <1>1, <1>2, <1>4, <1>5
     DEF Control, RunningReady, SectionsOfCurrent, SuspendedPlaces, IdlePlaces,
         Loops, InSection, Resuming, tcb, events, IInv, TcbType
<1> QED BY <1>3, <1>4, <1>6, <1>7, <1>8 DEF IInv

LEMMA DrainDoneKeeps == ASSUME IInv, DrainDone PROVE IInv'
<1>1. mode = "drain" /\ mode' = "pended" /\ xPendingReadyList = <<>>
  BY DEF DrainDone
<1>2. UNCHANGED <<tcb, ready, delayed, parked, events, counts, clock,
                  suspension, caller, xSwitchRequired, waking, pxCurrentTCB,
                  xYieldPending>>
  BY DEF DrainDone
<1>3. ReadyOK(pxReadyTasksLists, uxTopReadyPriority)'
  BY <1>2 DEF ready, IInv
<1>4. /\ TcbType' /\ DelayedOK' /\ ParkedOK' /\ EventsOK' /\ CountsAgree'
      /\ \A t \in AllTasks : TaskOK(t)' /\ (InReady(t)' <=> InReady(t))
  BY <1>2, <1>3, StayOK DEF tcb, ready, delayed, counts, IInv, TcbType, CountsAgree
<1>5. CountType'
  BY <1>2 DEF IInv, CountType, counts, clock, delayed, suspension
<1>6. LoopType'
  BY <1>1, <1>2 DEF IInv, LoopType, Mode
<1>7. Control'
  BY <1>1, <1>2, <1>4
     DEF Control, RunningReady, SectionsOfCurrent, SuspendedPlaces, IdlePlaces,
         Loops, InSection, Resuming, tcb, events, suspension, IInv, TcbType
<1> QED BY <1>3, <1>4, <1>5, <1>6, <1>7 DEF IInv

LEMMA ResumeAllDoneKeeps == ASSUME IInv, ResumeAllDone PROVE IInv'
<1>1. /\ mode = "pended" /\ mode' = "task"
      /\ pc[pxCurrentTCB] \in {"run", "delay", "state", "looked", "found"}
      /\ uxSchedulerSuspended = 0 /\ xPendingReadyList = <<>>
      /\ \A t \in AllTasks : t # pxCurrentTCB => ~ InSection(t)
  BY DEF ResumeAllDone, IInv, Control, Loops, SectionsOfCurrent,
         SuspendedPlaces, Resuming, InSection
<1>2. UNCHANGED <<uxPriority, uxBasePriority, xItemValue, xEventValue, delayed,
                  parked, events, counts, clock, suspension, caller,
                  xSwitchRequired, waking>>
  BY DEF ResumeAllDone
<1>3. /\ ReadyOK(pxReadyTasksLists, uxTopReadyPriority)'
      /\ \A p \in Level :
            ItemsOf(pxReadyTasksLists'[p]) = ItemsOf(pxReadyTasksLists[p])
      /\ pxCurrentTCB' \in AllTasks /\ xYieldPending' \in BOOLEAN
      /\ \/ InReady(pxCurrentTCB)'
         \/ ~ xYieldPending /\ pxCurrentTCB' = pxCurrentTCB
  <2>1. SwitchIf(xYieldPending, pxReadyTasksLists, uxTopReadyPriority)
    BY DEF ResumeAllDone
  <2>2. xYieldPending \in BOOLEAN
    BY DEF IInv, LoopType
  <2> QED BY <1>1, <2>1, <2>2, SwitchIfReady DEF IInv, TcbType, CountType
<1>4. /\ pc' \in [AllTasks -> Place]
      /\ \A t \in AllTasks : t # pxCurrentTCB => pc'[t] = pc[t]
      /\ pc'[pxCurrentTCB] \in {"run", "yield", "reap"}
      /\ pc'[pxCurrentTCB] = "yield" => pc[pxCurrentTCB] = "delay"
      /\ pc'[pxCurrentTCB] = "reap" => pc[pxCurrentTCB] = "found"
      /\ pc[pxCurrentTCB] = "delay" => xYieldPending \/ pc'[pxCurrentTCB] = "yield"
  <2> DEFINE next == AfterResume(pc[pxCurrentTCB], xYieldPending)
  <2>1. /\ next \in {"run", "yield", "reap"}
        /\ next = "yield" => pc[pxCurrentTCB] = "delay"
        /\ next = "reap" => pc[pxCurrentTCB] = "found"
        /\ pc[pxCurrentTCB] = "delay" => xYieldPending \/ next = "yield"
    BY <1>1 DEF AfterResume
  <2>2. pc' = [pc EXCEPT ![pxCurrentTCB] = next]
    BY DEF ResumeAllDone, GoTo
  <2> HIDE DEF next
  <2>3. pc \in [AllTasks -> Place] /\ pxCurrentTCB \in AllTasks /\ next \in Place
    BY <2>1 DEF IInv, TcbType, Place
  <2> QED BY <2>1, <2>2, <2>3
<1>5. /\ TcbType' /\ DelayedOK' /\ ParkedOK' /\ EventsOK' /\ CountsAgree'
      /\ \A t \in AllTasks : TaskOK(t)' /\ (InReady(t)' <=> InReady(t))
  <2>1. pc'[Idle] \in {"found", "reap"} => xTasksWaitingTermination # <<>>
    BY <1>4, ConstantFacts DEF IInv, CountsAgree
  <2>2. \A t \in AllTasks : /\ pc'[t] = "none" <=> pc[t] = "none"
                            /\ pc'[t] = "deleted" <=> pc[t] = "deleted"
    BY <1>1, <1>4
  <2> QED BY <1>2, <1>3, <1>4, <2>1, <2>2, StayOK DEF delayed, counts
<1>6. CountType'
  BY <1>2 DEF IInv, CountType, counts, clock, delayed, suspension
<1>7. LoopType'
  BY <1>1, <1>2, <1>3 DEF IInv, LoopType, Mode
<1>8. Control'
  <2>1. RunningReady'
    <3>1. CASE pxCurrentTCB' = pxCurrentTCB /\ ~ xYieldPending
      BY <1>1, <1>4, <1>5, <3>1 DEF RunningReady, IInv, Control, TcbType
    <3> QED BY <1>3, <3>1 DEF RunningReady
  <2>2. SectionsOfCurrent' /\ SuspendedPlaces'
    BY <1>1, <1>2, <1>4
       DEF SectionsOfCurrent, SuspendedPlaces, InSection, Resuming, suspension
  <2>3. IdlePlaces'
    <3>1. \A t \in Task : pc'[t] \notin {"looked", "found", "reap", "reaped"}
      BY <1>4, ConstantFacts DEF IInv, Control, IdlePlaces
    <3> QED BY <1>1, <1>2, <3>1 DEF IdlePlaces, suspension
  <2>4. Loops'
    BY <1>1, <1>2 DEF Loops, suspension, events
  <2> QED BY <2>1, <2>2, <2>3, <2>4 DEF Control
<1> QED BY <1>3, <1>5, <1>6, <1>7, <1>8 DEF IInv

LEMMA StartWakingKeeps ==
    ASSUME IInv, NEW e \in EventList, mode = "task", StartWaking(e) PROVE IInv'
<1>1. mode' = "wake" /\ waking' = e /\ xEventLists[e] # <<>>
  BY DEF StartWaking
<1>2. UNCHANGED <<tcb, ready, delayed, parked, events, counts, clock,
                  suspension, caller, xSwitchRequired, pxCurrentTCB,
                  xYieldPending>>
  BY DEF StartWaking
<1>3. ReadyOK(pxReadyTasksLists, uxTopReadyPriority)'
  BY <1>2 DEF ready, IInv
<1>4. /\ TcbType' /\ DelayedOK' /\ ParkedOK' /\ EventsOK' /\ CountsAgree'
      /\ \A t \in AllTasks : TaskOK(t)' /\ (InReady(t)' <=> InReady(t))
  BY <1>2, <1>3, StayOK DEF tcb, ready, delayed, counts, IInv, TcbType, CountsAgree
<1>5. CountType'
  BY <1>2 DEF IInv, CountType, counts, clock, delayed, suspension
<1>6. LoopType'
  BY <1>1, <1>2 DEF IInv, LoopType, Mode
<1>7. Control'
  BY <1>1, <1>2, <1>4
     DEF Control, RunningReady, SectionsOfCurrent, SuspendedPlaces, IdlePlaces,
         Loops, InSection, Resuming, tcb, events, suspension, IInv, TcbType
<1> QED BY <1>3, <1>4, <1>5, <1>6, <1>7 DEF IInv

LEMMA IdleLooksKeeps == ASSUME IInv, IdleLooks PROVE IInv'
<1> DEFINE next == IF xTasksWaitingTermination = <<>> THEN "looked" ELSE "found"
<1>1. /\ pxCurrentTCB = Idle /\ mode = "task" /\ pc[Idle] = "run"
      /\ uxSchedulerSuspended' = uxSchedulerSuspended + 1
      /\ pc' = [pc EXCEPT ![Idle] = next]
  BY DEF IdleLooks, InIdle, InTask, GoTo
<1>2. UNCHANGED <<uxPriority, uxBasePriority, xItemValue, xEventValue, ready,
                  delayed, parked, events, counts, clock, uxPendedTicks, loop,
                  pxCurrentTCB, xYieldPending>>
  BY DEF IdleLooks
<1>3. uxSchedulerSuspended = 0
  BY <1>1 DEF IInv, Control, IdlePlaces, CountType
<1>4. ReadyOK(pxReadyTasksLists, uxTopReadyPriority)'
  BY <1>2 DEF ready, IInv
<1>5. /\ pc' \in [AllTasks -> Place]
      /\ \A t \in AllTasks : t # Idle => pc'[t] = pc[t]
      /\ pc'[Idle] \in {"looked", "found"}
      /\ pc'[Idle] = "found" => xTasksWaitingTermination # <<>>
  <2>1. /\ next \in {"looked", "found"}
        /\ next = "found" => xTasksWaitingTermination # <<>>
    OBVIOUS
  <2> HIDE DEF next
  <2> QED BY <1>1, <2>1, ConstantFacts DEF IInv, TcbType, Place
<1>6. /\ TcbType' /\ DelayedOK' /\ ParkedOK' /\ EventsOK' /\ CountsAgree'
      /\ \A t \in AllTasks : TaskOK(t)' /\ (InReady(t)' <=> InReady(t))
  <2>1. \A t \in AllTasks : /\ pc'[t] = "none" <=> pc[t] = "none"
                            /\ pc'[t] = "deleted" <=> pc[t] = "deleted"
    BY <1>1, <1>5
  <2>2. pc'[Idle] \in {"found", "reap"} => xTasksWaitingTermination # <<>>
    BY <1>5
  <2> QED BY <1>1, <1>2, <1>4, <1>5, <2>1, <2>2, ConstantFacts, StayOK
          DEF ready, delayed, counts
<1>7. CountType'
  BY <1>1, <1>2 DEF IInv, CountType, counts, clock, delayed
<1>8. LoopType'
  BY <1>2 DEF IInv, LoopType, loop
<1>9. Control'
  <2>1. RunningReady'
    BY <1>1, <1>2, <1>6, ConstantFacts DEF RunningReady, IInv, Control
  <2>2. SectionsOfCurrent' /\ SuspendedPlaces'
    BY <1>1, <1>2, <1>3, <1>5
       DEF SectionsOfCurrent, SuspendedPlaces, InSection, Resuming, loop, IInv,
           Control
  <2>3. IdlePlaces'
    BY <1>1, <1>3, <1>5, ConstantFacts DEF IdlePlaces, IInv, Control
  <2>4. Loops'
    BY <1>1, <1>2, <1>3 DEF Loops, loop, events, IInv, Control
  <2> QED BY <2>1, <2>2, <2>3, <2>4 DEF Control
<1> QED BY <1>4, <1>6, <1>7, <1>8, <1>9 DEF IInv

LEMMA IdleReapedKeeps == ASSUME IInv, IdleReaped PROVE IInv'
<1>1. /\ pxCurrentTCB = Idle /\ mode = "task" /\ pc[Idle] = "run"
      /\ pc' = [pc EXCEPT ![Idle] = "reaped"]
  BY DEF IdleReaped, InIdle, InTask, GoTo
<1>2. UNCHANGED <<uxPriority, uxBasePriority, xItemValue, xEventValue, ready,
                  delayed, parked, events, counts, clock, suspension, loop,
                  pxCurrentTCB, xYieldPending>>
  BY DEF IdleReaped
<1>3. uxSchedulerSuspended = 0
  BY <1>1 DEF IInv, Control, IdlePlaces, CountType
<1>4. ReadyOK(pxReadyTasksLists, uxTopReadyPriority)'
  BY <1>2 DEF ready, IInv
<1>5. /\ pc' \in [AllTasks -> Place]
      /\ \A t \in AllTasks : t # Idle => pc'[t] = pc[t]
      /\ pc'[Idle] = "reaped"
  BY <1>1, ConstantFacts DEF IInv, TcbType, Place
<1>6. /\ TcbType' /\ DelayedOK' /\ ParkedOK' /\ EventsOK' /\ CountsAgree'
      /\ \A t \in AllTasks : TaskOK(t)' /\ (InReady(t)' <=> InReady(t))
  <2>1. \A t \in AllTasks : /\ pc'[t] = "none" <=> pc[t] = "none"
                            /\ pc'[t] = "deleted" <=> pc[t] = "deleted"
    BY <1>1, <1>5
  <2> QED BY <1>1, <1>2, <1>4, <1>5, <2>1, ConstantFacts, StayOK
          DEF ready, delayed, counts
<1>7. CountType'
  BY <1>1, <1>2 DEF IInv, CountType, counts, clock, delayed, suspension
<1>8. LoopType'
  BY <1>2 DEF IInv, LoopType, loop
<1>9. Control'
  <2>1. RunningReady'
    BY <1>1, <1>2, <1>6, ConstantFacts DEF RunningReady, IInv, Control
  <2>2. SectionsOfCurrent' /\ SuspendedPlaces' /\ IdlePlaces'
    BY <1>1, <1>2, <1>3, <1>5, ConstantFacts
       DEF SectionsOfCurrent, SuspendedPlaces, IdlePlaces, InSection, Resuming,
           loop, suspension, IInv, Control
  <2>3. Loops'
    BY <1>1, <1>2, <1>3 DEF Loops, loop, events, suspension, IInv, Control
  <2> QED BY <2>1, <2>2, <2>3 DEF Control
<1> QED BY <1>4, <1>6, <1>7, <1>8, <1>9 DEF IInv

LEMMA IdleYieldsKeeps == ASSUME IInv, IdleYields PROVE IInv'
<1>1. /\ pxCurrentTCB = Idle /\ mode = "task" /\ pc[Idle] = "reaped"
      /\ pc' = [pc EXCEPT ![Idle] = "run"]
  BY DEF IdleYields, InIdle, InTask, GoTo
<1>2. UNCHANGED <<uxPriority, uxBasePriority, xItemValue, xEventValue, delayed,
                  parked, events, counts, clock, suspension, loop>>
  BY DEF IdleYields
<1>3. uxSchedulerSuspended = 0 /\ \A t \in AllTasks : ~ InSection(t)
  BY <1>1 DEF IInv, Control, IdlePlaces, CountType, SectionsOfCurrent, InSection
<1>4. /\ ReadyOK(pxReadyTasksLists, uxTopReadyPriority)'
      /\ \A p \in Level :
            ItemsOf(pxReadyTasksLists'[p]) = ItemsOf(pxReadyTasksLists[p])
      /\ pxCurrentTCB' \in AllTasks /\ xYieldPending' \in BOOLEAN
      /\ pxCurrentTCB' = pxCurrentTCB \/ InReady(pxCurrentTCB)'
  <2> DEFINE condition == listCURRENT_LIST_LENGTH(pxReadyTasksLists[0]) > 1
  <2>1. condition \in BOOLEAN
    OBVIOUS
  <2>2. SwitchIf(condition, pxReadyTasksLists, uxTopReadyPriority)
    BY DEF IdleYields
  <2> HIDE DEF condition
  <2> QED BY <1>3, <2>1, <2>2, SwitchIfReady
          DEF IInv, TcbType, CountType, LoopType
<1>5. /\ pc' \in [AllTasks -> Place]
      /\ \A t \in AllTasks : t # Idle => pc'[t] = pc[t]
      /\ pc'[Idle] = "run"
  BY <1>1, ConstantFacts DEF IInv, TcbType, Place
<1>6. /\ TcbType' /\ DelayedOK' /\ ParkedOK' /\ EventsOK' /\ CountsAgree'
      /\ \A t \in AllTasks : TaskOK(t)' /\ (InReady(t)' <=> InReady(t))
  <2>1. \A t \in AllTasks : /\ pc'[t] = "none" <=> pc[t] = "none"
                            /\ pc'[t] = "deleted" <=> pc[t] = "deleted"
    BY <1>1, <1>5
  <2> QED BY <1>2, <1>4, <1>5, <2>1, StayOK DEF delayed, counts
<1>7. CountType'
  BY <1>2 DEF IInv, CountType, counts, clock, delayed, suspension
<1>8. LoopType'
  BY <1>2, <1>4 DEF IInv, LoopType, loop
<1>9. Control'
  <2>1. RunningReady'
    BY <1>1, <1>4, <1>6, ConstantFacts DEF RunningReady, IInv, Control
  <2>2. SectionsOfCurrent' /\ SuspendedPlaces' /\ IdlePlaces'
    BY <1>1, <1>2, <1>3, <1>5, ConstantFacts
       DEF SectionsOfCurrent, SuspendedPlaces, IdlePlaces, InSection, Resuming,
           loop, suspension, IInv, Control
  <2>3. Loops'
    BY <1>1, <1>2, <1>3 DEF Loops, loop, events, suspension, IInv, Control
  <2> QED BY <2>1, <2>2, <2>3 DEF Control
<1> QED BY <1>4, <1>6, <1>7, <1>8, <1>9 DEF IInv

-----------------------------------------------------------------------------
(***************************************************************************)
(* Ticks.  At the overflow the two delayed lists change places, and every  *)
(* sleeping task with them.                                                *)
(***************************************************************************)
LEMMA IncrementTickOK ==
    ASSUME IInv, NEW from \in {"isr", "resume"}, xTaskIncrementTick(from),
           UNCHANGED <<tcb, ready, parked, events, pxCurrentTCB>>
    PROVE  /\ DelayedOK'
           /\ \A t \in AllTasks : TaskOK(t)' /\ (InReady(t)' <=> InReady(t))
           /\ xTickCount' \in Tick /\ xNumOfOverflows' \in 0..OVERFLOWS - 1
           /\ xNextTaskUnblockTime' \in Tick
           /\ mode' \in {"assert", "unblock", "slice"}
           /\ caller' = from /\ xSwitchRequired' = FALSE
<1>1. xTickCount' \in Tick
  BY NextTickType DEF xTaskIncrementTick, IInv, CountType
<1>2. mode' \in {"assert", "unblock", "slice"} /\ caller' = from
      /\ xSwitchRequired' = FALSE
  BY DEF xTaskIncrementTick
<1>3. /\ pxReadyTasksLists' = pxReadyTasksLists
      /\ xTasksWaitingTermination' = xTasksWaitingTermination
      /\ xSuspendedTaskList' = xSuspendedTaskList
      /\ xEventLists' = xEventLists /\ xPendingReadyList' = xPendingReadyList
      /\ uxPriority' = uxPriority /\ pc' = pc
  BY DEF parked, events, ready, tcb
<1>4. CASE UNCHANGED <<delayed, xNumOfOverflows>>
  <2>1. /\ pxDelayedTaskList' = pxDelayedTaskList
        /\ pxOverflowDelayedTaskList' = pxOverflowDelayedTaskList
        /\ xNextTaskUnblockTime' = xNextTaskUnblockTime
        /\ xNumOfOverflows' = xNumOfOverflows
    BY <1>4 DEF delayed
  <2>2. \A t \in AllTasks : Unmoved(t)
    BY <1>3, <2>1
       DEF Unmoved, InDelayed, InOverflow, InSuspended, InTermination, InPending
  <2>3. \A t \in AllTasks : TaskOK(t)' /\ (InReady(t)' <=> InReady(t))
    BY <2>2, UnmovedOK DEF IInv
  <2> QED BY <1>1, <1>2, <2>1, <2>3 DEF DelayedOK, IInv, CountType
<1>5. CASE SwitchDelayedLists
  <2>1. /\ pxDelayedTaskList' = pxOverflowDelayedTaskList
        /\ pxOverflowDelayedTaskList' = pxDelayedTaskList
    BY <1>5 DEF SwitchDelayedLists
  <2>2. xNumOfOverflows' \in 0..OVERFLOWS - 1
    BY <1>5, SizeAssumption DEF SwitchDelayedLists, IInv, CountType
  <2>3. xNextTaskUnblockTime' \in Tick
    <3>1. pxOverflowDelayedTaskList # <<>> =>
             Head(pxOverflowDelayedTaskList) \in AllTasks
      BY HeadTailProperties DEF IInv, DelayedOK, IsList
    <3> QED BY <1>5, <3>1, ConstantFacts DEF SwitchDelayedLists, IInv, TcbType
  <2>4. ASSUME NEW t \in AllTasks
        PROVE  TaskOK(t)' /\ (InReady(t)' <=> InReady(t))
    <3>1. /\ InReady(t)' <=> InReady(t)
          /\ InDelayed(t)' <=> InOverflow(t)
          /\ InOverflow(t)' <=> InDelayed(t)
          /\ InSuspended(t)' <=> InSuspended(t)
          /\ InTermination(t)' <=> InTermination(t)
          /\ InEvents(t)' <=> InEvents(t)
          /\ InPending(t)' <=> InPending(t)
      BY <1>3, <2>1 DEF InReady, InDelayed, InOverflow, InSuspended,
                        InTermination, InEvents, InPending
    <3>2. TaskOK(t)
      BY DEF IInv
    <3>3. InOneList(t)'
      BY <1>3, <3>1, <3>2, Zenon DEF TaskOK, InOneList
    <3>4. AtItsLevel(t)'
      BY <1>3, <3>2 DEF TaskOK, AtItsLevel
    <3>5. WaitsBlocked(t)'
      BY <1>3, <3>1, <3>2 DEF TaskOK, WaitsBlocked
    <3> QED BY <3>1, <3>3, <3>4, <3>5 DEF TaskOK
  <2>5. DelayedOK'
    BY <2>1 DEF DelayedOK, IInv
  <2> QED BY <1>1, <1>2, <2>2, <2>3, <2>4, <2>5
<1> QED BY <1>4, <1>5 DEF xTaskIncrementTick

LEMMA TickISRKeeps == ASSUME IInv, TickISR PROVE IInv'
<1>1. mode = "task"
  BY DEF TickISR
<1>2. UNCHANGED <<tcb, ready, parked, events, uxCurrentNumberOfTasks,
                  uxTasksDeleted, uxSchedulerSuspended, waking, pxCurrentTCB,
                  xYieldPending>>
  BY DEF TickISR
<1>3. ticks' \in Tick
  BY NextTickType DEF TickISR, IInv, CountType
<1>4. CASE uxSchedulerSuspended = 0
  <2>1. xTaskIncrementTick("isr") /\ uxPendedTicks' = uxPendedTicks
    BY <1>4 DEF TickISR
  <2>2. /\ DelayedOK'
        /\ \A t \in AllTasks : TaskOK(t)' /\ (InReady(t)' <=> InReady(t))
        /\ xTickCount' \in Tick /\ xNumOfOverflows' \in 0..OVERFLOWS - 1
        /\ xNextTaskUnblockTime' \in Tick
        /\ mode' \in {"assert", "unblock", "slice"}
        /\ caller' = "isr" /\ xSwitchRequired' = FALSE
    BY <1>2, <2>1, IncrementTickOK
  <2>3. TcbType' /\ ReadyOK(pxReadyTasksLists, uxTopReadyPriority)' /\ ParkedOK'
        /\ EventsOK'
    BY <1>2 DEF IInv, TcbType, tcb, ready, ParkedOK, parked, EventsOK, events
  <2>4. CountType'
    BY <1>2, <1>3, <2>1, <2>2 DEF IInv, CountType
  <2>5. LoopType'
    BY <1>2, <2>2 DEF IInv, LoopType, Mode
  <2>6. Control'
    BY <1>1, <1>2, <1>4, <2>2
       DEF Control, RunningReady, SectionsOfCurrent, SuspendedPlaces, IdlePlaces,
           Loops, InSection, Resuming, tcb, events, IInv, TcbType
  <2>7. CountsAgree'
    BY <1>2 DEF IInv, CountsAgree, Exists, tcb, parked
  <2> QED BY <2>2, <2>3, <2>4, <2>5, <2>6, <2>7 DEF IInv
<1>5. CASE uxSchedulerSuspended # 0
  <2>1. /\ uxPendedTicks' = uxPendedTicks + 1
        /\ UNCHANGED <<delayed, clock, mode, caller, xSwitchRequired>>
    BY <1>5 DEF TickISR
  <2>2. ReadyOK(pxReadyTasksLists, uxTopReadyPriority)'
    BY <1>2 DEF ready, IInv
  <2>3. /\ TcbType' /\ DelayedOK' /\ ParkedOK' /\ EventsOK' /\ CountsAgree'
        /\ \A t \in AllTasks : TaskOK(t)' /\ (InReady(t)' <=> InReady(t))
    BY <1>2, <2>1, <2>2, StayOK DEF tcb, ready, delayed, IInv, TcbType, CountsAgree
  <2>4. CountType'
    BY <1>2, <1>3, <2>1 DEF IInv, CountType, delayed, clock
  <2>5. LoopType'
    BY <1>2, <2>1 DEF IInv, LoopType
  <2>6. Control'
    BY <1>1, <1>2, <2>1, <2>3
       DEF Control, RunningReady, SectionsOfCurrent, SuspendedPlaces, IdlePlaces,
           Loops, InSection, Resuming, tcb, events, IInv, TcbType
  <2> QED BY <2>2, <2>3, <2>4, <2>5, <2>6 DEF IInv
<1> QED BY <1>4, <1>5

LEMMA PendedTickKeeps == ASSUME IInv, PendedTick PROVE IInv'
<1>1. mode = "pended" /\ uxPendedTicks > 0 /\ xTaskIncrementTick("resume")
  BY DEF PendedTick
<1>2. UNCHANGED <<tcb, ready, parked, events, counts, suspension, waking,
                  pxCurrentTCB, xYieldPending>>
  BY DEF PendedTick
<1>3. /\ DelayedOK'
      /\ \A t \in AllTasks : TaskOK(t)' /\ (InReady(t)' <=> InReady(t))
      /\ xTickCount' \in Tick /\ xNumOfOverflows' \in 0..OVERFLOWS - 1
      /\ xNextTaskUnblockTime' \in Tick
      /\ mode' \in {"assert", "unblock", "slice"}
      /\ caller' = "resume" /\ xSwitchRequired' = FALSE
  BY <1>1, <1>2, IncrementTickOK
<1>4. TcbType' /\ ReadyOK(pxReadyTasksLists, uxTopReadyPriority)' /\ ParkedOK'
      /\ EventsOK'
  BY <1>2 DEF IInv, TcbType, tcb, ready, ParkedOK, parked, EventsOK, events
<1>5. CountType'
  BY <1>2, <1>3 DEF IInv, CountType, counts, suspension
<1>6. LoopType'
  BY <1>2, <1>3 DEF IInv, LoopType, Mode
<1>7. Control'
  BY <1>1, <1>2, <1>3
     DEF Control, RunningReady, SectionsOfCurrent, SuspendedPlaces, IdlePlaces,
         Loops, InSection, Resuming, tcb, events, suspension, IInv, TcbType
<1>8. CountsAgree'
  BY <1>2 DEF IInv, CountsAgree, Exists, tcb, parked, counts
<1> QED BY <1>3, <1>4, <1>5, <1>6, <1>7, <1>8 DEF IInv

-----------------------------------------------------------------------------
(***************************************************************************)
(* Actions that move a task: where it is afterwards.                       *)
(***************************************************************************)
LEMMA NowReadyOK ==
    ASSUME NEW t \in AllTasks, NEW p \in Level,
           t \in ItemsOf(pxReadyTasksLists'[p]), uxPriority'[t] = p,
           \A q \in Level : q # p => t \notin ItemsOf(pxReadyTasksLists'[q]),
           ~ InDelayed(t)', ~ InOverflow(t)', ~ InSuspended(t)',
           ~ InTermination(t)', ~ InEvents(t)', ~ InPending(t)',
           pc'[t] \notin {"none", "deleted"}
    PROVE  TaskOK(t)' /\ InReady(t)'
<1>1. InReady(t)'
  BY DEF InReady
<1>2. InOneList(t)'
  BY <1>1 DEF InOneList
<1>3. AtItsLevel(t)'
  BY DEF AtItsLevel
<1>4. WaitsBlocked(t)'
  BY DEF WaitsBlocked, InEvents
<1> QED BY <1>1, <1>2, <1>3, <1>4 DEF TaskOK

\* A blocked task waits on one event list at most, or is on xPendingReadyList.
LEMMA NowBlockedOK ==
    ASSUME NEW t \in AllTasks, ~ InReady(t)', ~ InTermination(t)',
           \/ InDelayed(t)' /\ ~ InOverflow(t)' /\ ~ InSuspended(t)'
           \/ ~ InDelayed(t)' /\ InOverflow(t)' /\ ~ InSuspended(t)'
           \/ ~ InDelayed(t)' /\ ~ InOverflow(t)' /\ InSuspended(t)',
           InEvents(t)' => ~ InPending(t)',
           \A e, f \in EventList :
              t \in ToSet(xEventLists'[e]) /\ t \in ToSet(xEventLists'[f]) => e = f,
           pc'[t] \notin {"none", "deleted"}
    PROVE  TaskOK(t)'
<1>1. InOneList(t)'
  BY DEF InOneList
<1>2. AtItsLevel(t)'
  BY DEF AtItsLevel, InReady
<1>3. WaitsBlocked(t)'
  BY DEF WaitsBlocked
<1> QED BY <1>1, <1>2, <1>3 DEF TaskOK

\* A task that is ready is in no other list, and a blocked one is not ready and
\* is not the idle task.
LEMMA WhereTasksAre ==
    ASSUME IInv, NEW t \in AllTasks
    PROVE  /\ InReady(t) => /\ ~ InDelayed(t) /\ ~ InOverflow(t)
                            /\ ~ InSuspended(t) /\ ~ InTermination(t)
                            /\ ~ InEvents(t) /\ ~ InPending(t)
           /\ InDelayed(t) \/ InOverflow(t) \/ InSuspended(t) =>
                 ~ InReady(t) /\ ~ InTermination(t) /\ t # Idle
           /\ InEvents(t) \/ InPending(t) =>
                 InDelayed(t) \/ InOverflow(t) \/ InSuspended(t)
           /\ InTermination(t) => ~ InReady(t) /\ t # Idle
           /\ InReady(t) \/ InDelayed(t) \/ InOverflow(t) \/ InSuspended(t) =>
                 pc[t] \notin {"none", "deleted"}
<1>1. InOneList(t) /\ WaitsBlocked(t)
  BY DEF IInv, TaskOK
<1>2. InReady(Idle)
  BY ConstantFacts DEF IInv, ReadyOK, InReady
<1> QED BY <1>1, <1>2 DEF InOneList, WaitsBlocked

LEMMA ResumeNowKeeps ==
    ASSUME IInv, NEW t \in Task, mode = "task", uxSchedulerSuspended = 0,
           xTaskIsTaskSuspended(t), ResumeNow(t)
    PROVE  IInv'
<1>1. /\ t \in AllTasks /\ InSuspended(t) /\ ~ InReady(t) /\ ~ InEvents(t)
      /\ ~ InPending(t) /\ ~ InDelayed(t) /\ ~ InOverflow(t)
      /\ ~ InTermination(t) /\ pc[t] \notin {"none", "deleted"}
  <2>1. t \in AllTasks
    BY ConstantFacts
  <2>2. InSuspended(t) /\ ~ InPending(t)
    BY ContainsIsIn
       DEF xTaskIsTaskSuspended, InSuspended, InPending, IInv, ParkedOK,
           EventsOK, IsList
  <2>3. ~ InEvents(t)
    <3>1. \A e \in EventList : xEventLists[e] \in Seq(AllTasks)
      BY DEF IInv, EventsOK
    <3> QED BY <3>1, ContainsIsIn DEF xTaskIsTaskSuspended, WaitsForEvent, InEvents
  <2>4. InOneList(t)
    BY <2>1 DEF IInv, TaskOK
  <2> QED BY <2>1, <2>2, <2>3, <2>4, WhereTasksAre DEF InOneList
<1>2. UNCHANGED <<tcb, delayed, xTasksWaitingTermination, events, counts,
                  clock, suspension, loop>>
  BY DEF ResumeNow
<1>3. \A u \in AllTasks : ~ InSection(u)
  BY DEF IInv, Control, SectionsOfCurrent, Resuming
<1>4. /\ IsList(xSuspendedTaskList', AllTasks)
      /\ ToSet(xSuspendedTaskList') = ToSet(xSuspendedTaskList) \ {t}
  BY RemoveFirstList DEF ResumeNow, IInv, ParkedOK
<1> DEFINE p == uxPriority[t]
           lists == WithReady(pxReadyTasksLists, t, p)
<1>5. p \in Level
  BY <1>1 DEF IInv, TcbType
<1>6. /\ ReadyOK(lists, Larger(p, uxTopReadyPriority))
      /\ ItemsOf(lists[p]) = ItemsOf(pxReadyTasksLists[p]) \cup {t}
      /\ \A q \in Level : q # p =>
            ItemsOf(lists[q]) = ItemsOf(pxReadyTasksLists[q])
  BY <1>1, <1>5, WithReadyOK DEF IInv, InReady
<1>7. SwitchIf(Preempts(t), lists, Larger(p, uxTopReadyPriority))
  BY DEF ResumeNow
<1> HIDE DEF p, lists
<1>8. /\ ReadyOK(pxReadyTasksLists, uxTopReadyPriority)'
      /\ \A q \in Level : ItemsOf(pxReadyTasksLists'[q]) = ItemsOf(lists[q])
      /\ pxCurrentTCB' \in AllTasks /\ xYieldPending' \in BOOLEAN
      /\ pxCurrentTCB' = pxCurrentTCB \/ InReady(pxCurrentTCB)'
  <2>1. Preempts(t) \in BOOLEAN
    BY DEF Preempts
  <2> QED BY <1>6, <1>7, <2>1, SwitchIfReady
          DEF IInv, TcbType, CountType, LoopType
<1>9. ASSUME NEW u \in AllTasks, u # t
      PROVE  TaskOK(u)' /\ (InReady(u)' <=> InReady(u))
  <2>1. Unmoved(u)
    BY <1>2, <1>4, <1>6, <1>8, <1>9
       DEF Unmoved, InDelayed, InOverflow, InSuspended, InTermination, InPending,
           tcb, delayed, events
  <2> QED BY <1>9, <2>1, UnmovedOK DEF IInv
<1>10. TaskOK(t)' /\ InReady(t)'
  <2>1. /\ t \in ItemsOf(pxReadyTasksLists'[p]) /\ uxPriority'[t] = p
        /\ \A q \in Level : q # p => t \notin ItemsOf(pxReadyTasksLists'[q])
    BY <1>1, <1>2, <1>5, <1>6, <1>8 DEF InReady, p, tcb
  <2>2. /\ ~ InDelayed(t)' /\ ~ InOverflow(t)' /\ ~ InSuspended(t)'
        /\ ~ InTermination(t)' /\ ~ InEvents(t)' /\ ~ InPending(t)'
        /\ pc'[t] \notin {"none", "deleted"}
    BY <1>1, <1>2, <1>4
       DEF InDelayed, InOverflow, InSuspended, InTermination, InEvents,
           InPending, delayed, events, tcb
  <2> QED BY <1>1, <1>5, <2>1, <2>2, NowReadyOK
<1>11. TcbType' /\ CountType' /\ LoopType'
  BY <1>2, <1>8
     DEF IInv, TcbType, CountType, LoopType, tcb, delayed, counts, clock,
         suspension, loop
<1>12. DelayedOK' /\ ParkedOK' /\ EventsOK'
  BY <1>2, <1>4 DEF IInv, DelayedOK, ParkedOK, EventsOK, delayed, events
<1>13. Control'
  BY <1>2, <1>3, <1>8, <1>9, <1>10
     DEF Control, RunningReady, SectionsOfCurrent, SuspendedPlaces, IdlePlaces,
         Loops, InSection, Resuming, loop, suspension, tcb, events, IInv, TcbType
<1>14. CountsAgree'
  BY <1>2 DEF CountsAgree, IInv, Exists, tcb, counts
<1> QED BY <1>8, <1>9, <1>10, <1>11, <1>12, <1>13, <1>14 DEF IInv

LEMMA vTaskResumeKeeps ==
    ASSUME IInv, NEW t \in Task, vTaskResume(t) PROVE IInv'
BY CallFacts, ResumeNowKeeps DEF vTaskResume

\* The interrupt's handler leaves the task where it is while the scheduler is
\* suspended, and notes it on xPendingReadyList.
LEMMA xTaskResumeFromISRKeeps ==
    ASSUME IInv, NEW t \in Task, xTaskResumeFromISR(t) PROVE IInv'
<1>1. mode = "task" /\ xTaskIsTaskSuspended(t)
  BY DEF xTaskResumeFromISR, Interrupt
<1>2. CASE uxSchedulerSuspended = 0 /\ ResumeNow(t)
  BY <1>1, <1>2, ResumeNowKeeps
<1>3. CASE /\ uxSchedulerSuspended # 0
           /\ xPendingReadyList' = Append(xPendingReadyList, t)
           /\ UNCHANGED <<tcb, ready, delayed, parked, xEventLists, counts,
                          clock, suspension, loop, pxCurrentTCB, xYieldPending>>
  <2>1. /\ t \in AllTasks /\ InSuspended(t) /\ ~ InPending(t) /\ ~ InEvents(t)
    <3>1. \A e \in EventList : xEventLists[e] \in Seq(AllTasks)
      BY DEF IInv, EventsOK
    <3> QED BY <1>1, <3>1, ConstantFacts, ContainsIsIn
            DEF xTaskIsTaskSuspended, WaitsForEvent, InSuspended, InPending,
                InEvents, IInv, ParkedOK, EventsOK, IsList
  <2>2. /\ IsList(xPendingReadyList', AllTasks)
        /\ ToSet(xPendingReadyList') = ToSet(xPendingReadyList) \cup {t}
    BY <1>3, <2>1, AppendList DEF IInv, EventsOK, InPending
  <2>3. ASSUME NEW u \in AllTasks
        PROVE  /\ InReady(u)' <=> InReady(u)
               /\ u # t => TaskOK(u)'
    <3>1. u # t => Unmoved(u)
      BY <1>3, <2>2
         DEF Unmoved, InDelayed, InOverflow, InSuspended, InTermination,
             InPending, tcb, ready, delayed, parked
    <3>2. InReady(u)' <=> InReady(u)
      BY <1>3 DEF InReady, ready
    <3> QED BY <3>1, <3>2, UnmovedOK DEF IInv
  <2>4. TaskOK(t)'
    <3>1. /\ InDelayed(t)' <=> InDelayed(t)
          /\ InOverflow(t)' <=> InOverflow(t)
          /\ InSuspended(t)' /\ (InTermination(t)' <=> InTermination(t))
          /\ InReady(t)' <=> InReady(t)
          /\ ~ InEvents(t)'
      BY <1>3, <2>1
         DEF InDelayed, InOverflow, InSuspended, InTermination, InReady,
             InEvents, ready, delayed, parked
    <3>2. pc' = pc /\ xEventLists' = xEventLists
      BY <1>3 DEF tcb
    <3>3. InOneList(t)
      BY <2>1 DEF IInv, TaskOK
    <3> QED BY <2>1, <3>1, <3>2, <3>3, WhereTasksAre, NowBlockedOK
            DEF InOneList, InEvents
  <2>5. TcbType' /\ CountType' /\ LoopType'
        /\ ReadyOK(pxReadyTasksLists, uxTopReadyPriority)'
    BY <1>3
       DEF IInv, TcbType, CountType, LoopType, tcb, ready, delayed, counts,
           clock, suspension, loop
  <2>6. DelayedOK' /\ ParkedOK' /\ EventsOK'
    BY <1>3, <2>2 DEF IInv, DelayedOK, ParkedOK, EventsOK, delayed, parked
  <2>7. Control'
    BY <1>1, <1>3, <2>3
       DEF Control, RunningReady, SectionsOfCurrent, SuspendedPlaces, IdlePlaces,
           Loops, InSection, Resuming, loop, suspension, tcb, IInv, TcbType,
           CountType
  <2>8. CountsAgree'
    BY <1>3 DEF CountsAgree, IInv, Exists, tcb, counts, parked
  <2> QED BY <2>3, <2>4, <2>5, <2>6, <2>7, <2>8 DEF IInv
<1> QED BY <1>2, <1>3 DEF xTaskResumeFromISR

\* The tasks that exist are finitely many.
LEMMA ExistingFinite ==
    \A S \in SUBSET AllTasks : IsFiniteSet(S) /\ Cardinality(S) \in Nat
<1>1. IsFiniteSet(AllTasks)
  BY TaskAssumption, FS_AddElement DEF AllTasks
<1> QED BY <1>1, FS_Subset, FS_CardinalityType

LEMMA xTaskGenericCreateKeeps ==
    ASSUME IInv, NEW t \in Task, NEW p \in Priority, xTaskGenericCreate(t, p)
    PROVE  IInv'
<1>1. /\ mode = "task" /\ pc[pxCurrentTCB] = "run" /\ uxSchedulerSuspended = 0
      /\ InReady(pxCurrentTCB) /\ pxCurrentTCB \in Task
      /\ \A u \in AllTasks : ~ InSection(u)
  BY CallFacts DEF xTaskGenericCreate
<1>2. /\ t \in AllTasks /\ pc[t] = "none" /\ t # pxCurrentTCB /\ p \in Level
      /\ ~ InReady(t) /\ ~ InDelayed(t) /\ ~ InOverflow(t)
      /\ ~ InSuspended(t) /\ ~ InTermination(t)
      /\ ~ InEvents(t) /\ ~ InPending(t)
  BY <1>1, ConstantFacts, ArgumentAssumption
     DEF xTaskGenericCreate, IInv, TaskOK, InOneList, WaitsBlocked
<1>3. UNCHANGED <<xItemValue, delayed, parked, events, uxTasksDeleted, ticks,
                  clock, suspension, loop, pxCurrentTCB, xYieldPending>>
  BY DEF xTaskGenericCreate
<1>4. /\ pc' \in [AllTasks -> Place] /\ pc'[t] = "run"
      /\ pc'[pxCurrentTCB] \in {"run", "yield"}
      /\ \A u \in AllTasks : u \notin {t, pxCurrentTCB} => pc'[u] = pc[u]
  <2> DEFINE next == IF uxPriority[pxCurrentTCB] < p THEN "yield" ELSE "run"
  <2>1. next \in {"run", "yield"}
    OBVIOUS
  <2>2. pc' = [pc EXCEPT ![t] = "run", ![pxCurrentTCB] = next]
    BY DEF xTaskGenericCreate
  <2> HIDE DEF next
  <2>3. pc \in [AllTasks -> Place] /\ pxCurrentTCB \in AllTasks
    BY DEF IInv, TcbType
  <2> QED BY <1>2, <2>1, <2>2, <2>3 DEF Place
<1>5. /\ uxPriority' = [uxPriority EXCEPT ![t] = p]
      /\ uxBasePriority' = [uxBasePriority EXCEPT ![t] = p]
      /\ xEventValue' = [xEventValue EXCEPT ![t] = EventItemValue(p)]
      /\ pxReadyTasksLists' = WithReady(pxReadyTasksLists, t, p)
      /\ uxTopReadyPriority' = Larger(p, uxTopReadyPriority)
      /\ uxCurrentNumberOfTasks' = uxCurrentNumberOfTasks + 1
  BY DEF xTaskGenericCreate
<1>6. /\ ReadyOK(pxReadyTasksLists, uxTopReadyPriority)'
      /\ ItemsOf(pxReadyTasksLists'[p]) = ItemsOf(pxReadyTasksLists[p]) \cup {t}
      /\ \A q \in Level : q # p =>
            ItemsOf(pxReadyTasksLists'[q]) = ItemsOf(pxReadyTasksLists[q])
  <2> DEFINE lists == WithReady(pxReadyTasksLists, t, p)
             top == Larger(p, uxTopReadyPriority)
  <2>1. t \notin ItemsOf(pxReadyTasksLists[p])
    BY <1>2 DEF InReady
  <2>2. /\ ReadyOK(lists, top)
        /\ ItemsOf(lists[p]) = ItemsOf(pxReadyTasksLists[p]) \cup {t}
        /\ \A q \in Level : q # p =>
              ItemsOf(lists[q]) = ItemsOf(pxReadyTasksLists[q])
    BY <1>2, <2>1, WithReadyOK DEF IInv
  <2>3. pxReadyTasksLists' = lists /\ uxTopReadyPriority' = top
    BY <1>5
  <2> HIDE DEF lists, top
  <2> QED BY <2>2, <2>3
<1>7. TcbType'
  <2>1. EventItemValue(p) \in 1..MAX_PRIORITIES
    BY <1>2, ConstantFacts
  <2> QED BY <1>2, <1>3, <1>4, <1>5, <2>1 DEF IInv, TcbType
<1>8. ASSUME NEW u \in AllTasks, u # t
      PROVE  TaskOK(u)' /\ (InReady(u)' <=> InReady(u))
  <2>1. uxPriority'[u] = uxPriority[u]
    BY <1>5, <1>8 DEF IInv, TcbType
  <2>2. Unmoved(u)
    BY <1>1, <1>3, <1>4, <1>6, <1>8, <2>1
       DEF Unmoved, InDelayed, InOverflow, InSuspended, InTermination, InPending,
           delayed, parked, events
  <2> QED BY <1>8, <2>2, UnmovedOK DEF IInv
<1>9. TaskOK(t)' /\ InReady(t)'
  <2>1. /\ t \in ItemsOf(pxReadyTasksLists'[p]) /\ uxPriority'[t] = p
        /\ \A q \in Level : q # p => t \notin ItemsOf(pxReadyTasksLists'[q])
    BY <1>2, <1>5, <1>6 DEF InReady, IInv, TcbType
  <2>2. /\ ~ InDelayed(t)' /\ ~ InOverflow(t)' /\ ~ InSuspended(t)'
        /\ ~ InTermination(t)' /\ ~ InEvents(t)' /\ ~ InPending(t)'
        /\ pc'[t] \notin {"none", "deleted"}
    BY <1>2, <1>3, <1>4
       DEF InDelayed, InOverflow, InSuspended, InTermination, InEvents,
           InPending, delayed, parked, events
  <2> QED BY <1>2, <2>1, <2>2, NowReadyOK
<1>10. CountType' /\ LoopType'
  BY <1>3, <1>5 DEF IInv, CountType, LoopType, delayed, clock, suspension, loop
<1>11. DelayedOK' /\ ParkedOK' /\ EventsOK'
  BY <1>3 DEF IInv, DelayedOK, ParkedOK, EventsOK, delayed, parked, events
<1>12. Control'
  <2>1. RunningReady'
    BY <1>1, <1>3, <1>4, <1>8, <1>9 DEF RunningReady, IInv, TcbType
  <2>2. SectionsOfCurrent' /\ SuspendedPlaces'
    BY <1>1, <1>3, <1>4
       DEF SectionsOfCurrent, SuspendedPlaces, InSection, Resuming, suspension, loop
  <2>3. IdlePlaces'
    BY <1>1, <1>3, <1>4, ConstantFacts
       DEF IdlePlaces, suspension, IInv, Control
  <2>4. Loops'
    BY <1>1, <1>3 DEF Loops, suspension, loop, events, IInv, Control
  <2> QED BY <2>1, <2>2, <2>3, <2>4 DEF Control
<1>13. CountsAgree'
  <2> DEFINE E == {u \in AllTasks : Exists(u)}
  <2>1. E' = E \cup {t} /\ t \notin E
    BY <1>1, <1>2, <1>4 DEF Exists
  <2>2. IsFiniteSet(E)
    BY ExistingFinite
  <2> HIDE DEF E
  <2>3. Cardinality(E') = Cardinality(E) + 1
    BY <2>1, <2>2, FS_AddElement
  <2>4. pc'[Idle] \in {"found", "reap"} => xTasksWaitingTermination # <<>>
    BY <1>1, <1>2, <1>4, ConstantFacts DEF IInv, CountsAgree
  <2> QED BY <1>3, <1>5, <2>3, <2>4 DEF CountsAgree, IInv, E, parked
<1> QED BY <1>6, <1>7, <1>8, <1>9, <1>10, <1>11, <1>12, <1>13 DEF IInv

LEMMA vTaskSuspendKeeps ==
    ASSUME IInv, NEW t \in Task, vTaskSuspend(t)
    PROVE  IInv'
<1>1. t \in AllTasks /\ t # Idle
  BY ConstantFacts
<1>2. /\ mode = "task" /\ pc[pxCurrentTCB] = "run" /\ uxSchedulerSuspended = 0
      /\ InReady(pxCurrentTCB) /\ \A u \in AllTasks : ~ InSection(u)
  BY CallFacts DEF vTaskSuspend
<1>3. InOneList(t) /\ pc[t] \notin {"none", "deleted"} /\ ~ InTermination(t)
  BY <1>1, Zenon DEF vTaskSuspend, IsHandle, IInv, TaskOK, InOneList
<1>4. /\ ReadyOK(pxReadyTasksLists, uxTopReadyPriority)'
      /\ \A p \in Level : ItemsOf(pxReadyTasksLists'[p]) =
                          ItemsOf(pxReadyTasksLists[p]) \ {t}
  BY <1>1, ReadyWithoutOK DEF IInv, vTaskSuspend
<1>5. /\ DelayedOK'
      /\ ToSet(pxDelayedTaskList)' = ToSet(pxDelayedTaskList) \ {t}
      /\ ToSet(pxOverflowDelayedTaskList)' =
            ToSet(pxOverflowDelayedTaskList) \ {t}
      /\ xItemValue' \in [AllTasks -> Tick]
      /\ xNextTaskUnblockTime' = xNextTaskUnblockTime
  BY <1>1, RemoveFromDelayedOK DEF IInv, TcbType, vTaskSuspend
<1>6. /\ EventsOK'
      /\ \A e \in EventList :
            ToSet(xEventLists[e])' = ToSet(xEventLists[e]) \ {t}
      /\ ToSet(xPendingReadyList)' = ToSet(xPendingReadyList) \ {t}
  BY <1>1, RemoveFromEventsOK DEF IInv, vTaskSuspend
<1>7. /\ xTasksWaitingTermination' = xTasksWaitingTermination
      /\ IsList(xSuspendedTaskList', AllTasks)
      /\ ToSet(xSuspendedTaskList') = ToSet(xSuspendedTaskList) \cup {t}
  <2> DEFINE out == RemoveFirst(xSuspendedTaskList, t)
  <2>1. IsList(out, AllTasks) /\ ToSet(out) = ToSet(xSuspendedTaskList) \ {t}
    BY RemoveFirstList DEF IInv, ParkedOK
  <2>2. /\ xSuspendedTaskList' = Append(out, t)
        /\ xTasksWaitingTermination' = xTasksWaitingTermination
    BY DEF vTaskSuspend
  <2> HIDE DEF out
  <2>3. /\ IsList(Append(out, t), AllTasks)
        /\ ToSet(Append(out, t)) = ToSet(out) \cup {t}
    BY <1>1, <2>1, AppendList
  <2> QED BY <2>1, <2>2, <2>3
<1>8. /\ pc' \in [AllTasks -> Place]
      /\ t = pxCurrentTCB => pc'[t] = "yield"
      /\ t # pxCurrentTCB => pc' = pc
      /\ \A u \in AllTasks : u # t => pc'[u] = pc[u]
  BY <1>1 DEF vTaskSuspend, IInv, TcbType, Place
<1>9. UNCHANGED <<uxPriority, uxBasePriority, xEventValue, uxTopReadyPriority,
                  counts, clock, suspension, loop, pxCurrentTCB, xYieldPending>>
  BY DEF vTaskSuspend
<1>10. ASSUME NEW u \in AllTasks, u # t
       PROVE  TaskOK(u)' /\ (InReady(u)' <=> InReady(u))
  <2>1. Unmoved(u)
    BY <1>4, <1>5, <1>6, <1>7, <1>8, <1>9, <1>10
       DEF Unmoved, InDelayed, InOverflow, InSuspended, InTermination, InPending
  <2> QED BY <1>10, <2>1, UnmovedOK DEF IInv
<1>11. TaskOK(t)'
  <2>1. /\ ~ InReady(t)' /\ ~ InDelayed(t)' /\ ~ InOverflow(t)'
        /\ InSuspended(t)' /\ ~ InTermination(t)' /\ ~ InPending(t)'
        /\ \A e \in EventList : t \notin ToSet(xEventLists'[e])
    BY <1>3, <1>4, <1>5, <1>6, <1>7
       DEF InReady, InDelayed, InOverflow, InSuspended, InTermination, InPending
  <2>2. pc'[t] \notin {"none", "deleted"}
    BY <1>3, <1>8
  <2> QED BY <1>1, <2>1, <2>2, NowBlockedOK DEF InEvents
<1>12. TcbType' /\ CountType' /\ LoopType'
  BY <1>5, <1>8, <1>9
     DEF IInv, TcbType, CountType, LoopType, counts, clock, suspension, loop
<1>13. Control'
  <2>1. (RunningReady /\ SectionsOfCurrent /\ SuspendedPlaces /\ IdlePlaces)'
    BY <1>1, <1>2, <1>8, <1>9, <1>10, ConstantFacts
       DEF RunningReady, SectionsOfCurrent, SuspendedPlaces, IdlePlaces,
           InSection, Resuming, suspension, loop, IInv, Control, TcbType
  <2>2. Loops'
    BY <1>2, <1>6, <1>9, EmptyByItems
       DEF IInv, Control, Loops, suspension, loop, EventsOK, IsList
  <2> QED BY <2>1, <2>2 DEF Control
<1>14. CountsAgree'
  <2>1. {u \in AllTasks : Exists(u)}' = {u \in AllTasks : Exists(u)}
    BY <1>3, <1>8 DEF Exists
  <2> QED BY <1>1, <1>7, <1>8, <1>9, <2>1, ConstantFacts DEF CountsAgree, IInv, counts
<1>15. ParkedOK'
  BY <1>7 DEF ParkedOK, IInv
<1> QED BY <1>4, <1>5, <1>6, <1>10, <1>11, <1>12, <1>13, <1>14, <1>15 DEF IInv

LEMMA vTaskPrioritySetKeeps ==
    ASSUME IInv, NEW t \in Task, NEW p \in Priority, vTaskPrioritySet(t, p)
    PROVE  IInv'
<1> DEFINE used == uxPriority[t]
           new == IF uxBasePriority[t] = used THEN p ELSE used
           listed == t \in ItemsOf(pxReadyTasksLists[used])
           yield == IF p > uxBasePriority[t]
                    THEN t # pxCurrentTCB /\ p >= uxPriority[pxCurrentTCB]
                    ELSE t = pxCurrentTCB
           lists == IF listed THEN WithReady(ReadyWithout(t), t, new)
                              ELSE pxReadyTasksLists
           top == IF listed THEN Larger(new, uxTopReadyPriority)
                            ELSE uxTopReadyPriority
<1>1. /\ mode = "task" /\ pc[pxCurrentTCB] = "run" /\ uxSchedulerSuspended = 0
      /\ InReady(pxCurrentTCB) /\ \A u \in AllTasks : ~ InSection(u)
  BY CallFacts DEF vTaskPrioritySet
<1>2. /\ t \in AllTasks /\ t # Idle /\ p \in Level
      /\ used \in Level /\ new \in Level
  BY ConstantFacts, ArgumentAssumption DEF IInv, TcbType
<1>3. /\ uxPriority' = [uxPriority EXCEPT ![t] = new]
      /\ uxBasePriority' = [uxBasePriority EXCEPT ![t] = p]
      /\ xEventValue' = [xEventValue EXCEPT ![t] = EventItemValue(p)]
      /\ SwitchIf(yield, lists, top)
  BY DEF vTaskPrioritySet
<1>4. UNCHANGED <<pc, xItemValue, delayed, parked, events, counts, clock,
                  suspension, loop>>
  BY DEF vTaskPrioritySet
<1>5. yield \in BOOLEAN
  OBVIOUS
<1> HIDE DEF yield, new, used
\* Every list keeps its other tasks, and t, if it is ready, is at its new level.
<1>6. /\ ReadyOK(lists, top)
      /\ \A q \in Level : \A u \in AllTasks : u # t =>
            (u \in ItemsOf(lists[q]) <=> u \in ItemsOf(pxReadyTasksLists[q]))
      /\ listed => /\ t \in ItemsOf(lists[new])
                   /\ \A q \in Level : q # new => t \notin ItemsOf(lists[q])
      /\ ~ listed => \A q \in Level : t \notin ItemsOf(lists[q])
  <2>1. AtItsLevel(t)
    BY <1>2 DEF IInv, TaskOK
  <2>2. CASE listed
    <3> DEFINE moved == WithReady(ReadyWithout(t), t, new)
    <3>1. /\ ReadyOK(moved, Larger(new, uxTopReadyPriority))
          /\ ItemsOf(moved[new]) = ItemsOf(pxReadyTasksLists[new]) \cup {t}
          /\ \A q \in Level : q # new =>
                ItemsOf(moved[q]) = ItemsOf(pxReadyTasksLists[q]) \ {t}
      BY <1>2, MovedReadyOK DEF IInv
    <3>2. lists = moved /\ top = Larger(new, uxTopReadyPriority)
      BY <2>2
    <3> HIDE DEF moved, lists, top
    <3> QED BY <1>2, <2>2, <3>1, <3>2
  <2>3. CASE ~ listed
    <3>1. lists = pxReadyTasksLists /\ top = uxTopReadyPriority
      BY <2>3
    <3>2. \A q \in Level : t \notin ItemsOf(pxReadyTasksLists[q])
      BY <2>1, <2>3 DEF AtItsLevel, used
    <3> HIDE DEF lists, top
    <3> QED BY <2>3, <3>1, <3>2 DEF IInv
  <2> QED BY <2>2, <2>3
<1>7. listed <=> InReady(t)
  BY <1>2 DEF used, InReady, IInv, TaskOK, AtItsLevel
<1> HIDE DEF lists, top, listed
<1>8. /\ ReadyOK(pxReadyTasksLists, uxTopReadyPriority)'
      /\ \A q \in Level : ItemsOf(pxReadyTasksLists'[q]) = ItemsOf(lists[q])
      /\ pxCurrentTCB' \in AllTasks /\ xYieldPending' \in BOOLEAN
      /\ pxCurrentTCB' = pxCurrentTCB \/ InReady(pxCurrentTCB)'
  BY <1>1, <1>3, <1>5, <1>6, SwitchIfReady DEF IInv, TcbType, CountType, LoopType
<1>9. ASSUME NEW u \in AllTasks, u # t
      PROVE  TaskOK(u)' /\ (InReady(u)' <=> InReady(u))
  <2>1. uxPriority'[u] = uxPriority[u]
    BY <1>3, <1>9 DEF IInv, TcbType
  <2>2. Unmoved(u)
    BY <1>4, <1>6, <1>8, <1>9, <2>1
       DEF Unmoved, InDelayed, InOverflow, InSuspended, InTermination, InPending,
           delayed, parked, events
  <2> QED BY <1>9, <2>2, UnmovedOK DEF IInv
<1>10. TaskOK(t)' /\ (InReady(t)' <=> InReady(t))
  <2>1. uxPriority'[t] = new
    BY <1>2, <1>3 DEF IInv, TcbType
  <2>2. InReady(t)' <=> InReady(t)
    BY <1>2, <1>6, <1>7, <1>8 DEF InReady
  <2>3. AtItsLevel(t)'
    BY <1>2, <1>6, <1>8, <2>1 DEF AtItsLevel
  <2>4. /\ InDelayed(t)' <=> InDelayed(t)
        /\ InOverflow(t)' <=> InOverflow(t)
        /\ InSuspended(t)' <=> InSuspended(t)
        /\ InTermination(t)' <=> InTermination(t)
        /\ InEvents(t)' <=> InEvents(t)
        /\ InPending(t)' <=> InPending(t)
        /\ pc' = pc /\ xEventLists' = xEventLists
    BY <1>4 DEF InDelayed, InOverflow, InSuspended, InTermination, InEvents,
                InPending, delayed, parked, events
  <2>5. TaskOK(t)
    BY <1>2 DEF IInv
  <2>6. InOneList(t)'
    BY <2>2, <2>4, <2>5, Zenon DEF TaskOK, InOneList
  <2>7. WaitsBlocked(t)'
    BY <2>4, <2>5 DEF TaskOK, WaitsBlocked
  <2> QED BY <2>2, <2>3, <2>6, <2>7 DEF TaskOK
<1>11. TcbType'
  <2>1. EventItemValue(p) \in 1..MAX_PRIORITIES
    BY <1>2, ConstantFacts
  <2> QED BY <1>2, <1>3, <1>4, <1>8, <2>1 DEF IInv, TcbType
<1>12. CountType' /\ LoopType'
  BY <1>4, <1>8
     DEF IInv, CountType, LoopType, delayed, counts, clock, suspension, loop
<1>13. DelayedOK' /\ ParkedOK' /\ EventsOK'
  BY <1>4 DEF IInv, DelayedOK, ParkedOK, EventsOK, delayed, parked, events
<1>14. Control'
  BY <1>1, <1>4, <1>8, <1>9, <1>10
     DEF Control, RunningReady, SectionsOfCurrent, SuspendedPlaces, IdlePlaces,
         Loops, InSection, Resuming, loop, suspension, events, IInv, TcbType
<1>15. CountsAgree'
  BY <1>4 DEF CountsAgree, IInv, Exists, counts, parked
<1> QED BY <1>8, <1>9, <1>10, <1>11, <1>12, <1>13, <1>14, <1>15 DEF IInv

-----------------------------------------------------------------------------
(***************************************************************************)
(* The running task blocks.  It is ready until then, so it is in no other  *)
(* list; afterwards it is in the one it was put in.                        *)
(***************************************************************************)
LEMMA DelayKeeps ==
    ASSUME IInv, NEW name, Call(name), NEW wake \in Tick,
           uxSchedulerSuspended' = uxSchedulerSuspended + 1,
           \/ /\ pxReadyTasksLists' = ReadyWithout(pxCurrentTCB)
              /\ AddCurrentToDelayed(wake)
           \/ UNCHANGED <<pxReadyTasksLists, delayed, xItemValue>>,
           GoTo("delay"),
           UNCHANGED <<uxPriority, uxBasePriority, xEventValue,
                       uxTopReadyPriority, parked, events, counts, clock,
                       uxPendedTicks, loop, pxCurrentTCB, xYieldPending>>
    PROVE  IInv'
<1>1. /\ mode = "task" /\ pc[pxCurrentTCB] = "run" /\ uxSchedulerSuspended = 0
      /\ pxCurrentTCB \in Task /\ InReady(pxCurrentTCB)
      /\ \A u \in AllTasks : ~ InSection(u)
  BY CallFacts
<1>2. pxCurrentTCB \in AllTasks /\ pxCurrentTCB # Idle
  BY <1>1, ConstantFacts
<1>3. /\ ~ InDelayed(pxCurrentTCB) /\ ~ InOverflow(pxCurrentTCB)
      /\ ~ InSuspended(pxCurrentTCB) /\ ~ InTermination(pxCurrentTCB)
      /\ ~ InEvents(pxCurrentTCB) /\ ~ InPending(pxCurrentTCB)
  BY <1>1, <1>2, WhereTasksAre
<1>4. /\ pc' \in [AllTasks -> Place] /\ pc'[pxCurrentTCB] = "delay"
      /\ \A u \in AllTasks : u # pxCurrentTCB => pc'[u] = pc[u]
  BY <1>2 DEF GoTo, IInv, TcbType, Place
<1>5. /\ ReadyOK(pxReadyTasksLists, uxTopReadyPriority)' /\ DelayedOK'
      /\ xItemValue' \in [AllTasks -> Tick] /\ xNextTaskUnblockTime' \in Tick
      /\ \A u \in AllTasks : TaskOK(u)'
  <2>1. CASE UNCHANGED <<pxReadyTasksLists, delayed, xItemValue>>
    <3>1. \A u \in AllTasks : Unmoved(u)
      BY <1>1, <1>4, <2>1
         DEF Unmoved, InDelayed, InOverflow, InSuspended, InTermination,
             InPending, delayed, parked, events
    <3>2. \A u \in AllTasks : TaskOK(u)'
      BY <3>1, UnmovedOK DEF IInv
    <3> QED BY <2>1, <3>2 DEF IInv, TcbType, CountType, DelayedOK, delayed
  <2>2. CASE /\ pxReadyTasksLists' = ReadyWithout(pxCurrentTCB)
             /\ AddCurrentToDelayed(wake)
    <3>1. /\ ReadyOK(pxReadyTasksLists, uxTopReadyPriority)'
          /\ \A p \in Level : ItemsOf(pxReadyTasksLists'[p]) =
                              ItemsOf(pxReadyTasksLists[p]) \ {pxCurrentTCB}
      BY <1>2, <2>2, ReadyWithoutOK DEF IInv
    <3>2. /\ DelayedOK'
          /\ \A u \in AllTasks \ {pxCurrentTCB} :
                /\ InDelayed(u)' <=> InDelayed(u)
                /\ InOverflow(u)' <=> InOverflow(u)
          /\ \/ /\ pxCurrentTCB \in ToSet(pxDelayedTaskList')
                /\ pxCurrentTCB \notin ToSet(pxOverflowDelayedTaskList')
             \/ /\ pxCurrentTCB \notin ToSet(pxDelayedTaskList')
                /\ pxCurrentTCB \in ToSet(pxOverflowDelayedTaskList')
          /\ xItemValue' \in [AllTasks -> Tick]
          /\ xNextTaskUnblockTime' \in Tick
      BY <1>2, <1>3, <2>2, AddCurrentOK DEF IInv, TcbType, CountType
    <3>3. ASSUME NEW u \in AllTasks, u # pxCurrentTCB PROVE TaskOK(u)'
      <4>1. Unmoved(u)
        BY <1>4, <3>1, <3>2, <3>3
           DEF Unmoved, InSuspended, InTermination, InPending, parked, events
      <4> QED BY <4>1, UnmovedOK DEF IInv
    <3>4. ASSUME NEW u \in AllTasks, u = pxCurrentTCB PROVE TaskOK(u)'
      <4>1. /\ ~ InReady(u)' /\ ~ InTermination(u)' /\ ~ InSuspended(u)'
            /\ ~ InEvents(u)'
            /\ \A e \in EventList : u \notin ToSet(xEventLists'[e])
        BY <1>3, <3>1, <3>4
           DEF InReady, InTermination, InSuspended, InEvents, parked, events
      <4>2. \/ InDelayed(u)' /\ ~ InOverflow(u)'
            \/ ~ InDelayed(u)' /\ InOverflow(u)'
        BY <3>2, <3>4 DEF InDelayed, InOverflow
      <4>3. pc'[u] \notin {"none", "deleted"}
        BY <1>4, <3>4
      <4> QED BY <4>1, <4>2, <4>3, NowBlockedOK
    <3>5. \A u \in AllTasks : TaskOK(u)'
      BY <3>3, <3>4
    <3> QED BY <3>1, <3>2, <3>5
  <2> QED BY <2>1, <2>2
<1>6. TcbType' /\ CountType' /\ LoopType'
  BY <1>1, <1>4, <1>5
     DEF IInv, TcbType, CountType, LoopType, counts, clock, loop
<1>7. ParkedOK' /\ EventsOK'
  BY DEF IInv, ParkedOK, EventsOK, parked, events
<1>8. Control'
  <2>1. RunningReady' /\ SectionsOfCurrent' /\ SuspendedPlaces'
    BY <1>1, <1>2, <1>4
       DEF RunningReady, SectionsOfCurrent, SuspendedPlaces, InSection, Resuming, loop
  <2>2. IdlePlaces'
    BY <1>1, <1>2, <1>4, ConstantFacts DEF IdlePlaces, IInv, Control
  <2>3. Loops'
    BY <1>1 DEF Loops, loop, events, IInv, Control
  <2> QED BY <2>1, <2>2, <2>3 DEF Control
<1>9. CountsAgree'
  <2>1. {u \in AllTasks : Exists(u)}' = {u \in AllTasks : Exists(u)}
    BY <1>1, <1>4 DEF Exists
  <2> QED BY <1>2, <1>4, <2>1, ConstantFacts DEF CountsAgree, IInv, counts, parked
<1> QED BY <1>5, <1>6, <1>7, <1>8, <1>9 DEF IInv

LEMMA vTaskDelayKeeps ==
    ASSUME IInv, NEW n \in Delay, vTaskDelay(n) PROVE IInv'
<1>1. TicksAfter(xTickCount, n) \in Tick
  BY ArgumentAssumption, TicksAfterType DEF IInv, CountType
<1> QED BY <1>1, DelayKeeps DEF vTaskDelay

LEMMA vTaskDelayUntilKeeps ==
    ASSUME IInv, NEW previous \in Tick, NEW n \in Delay,
           vTaskDelayUntil(previous, n)
    PROVE  IInv'
<1>1. TicksAfter(previous, n) \in Tick
  BY ArgumentAssumption, TicksAfterType
<1>2. Call("vTaskDelayUntil")
  BY DEF vTaskDelayUntil
<1>3. \/ /\ pxReadyTasksLists' = ReadyWithout(pxCurrentTCB)
         /\ AddCurrentToDelayed(TicksAfter(previous, n))
      \/ UNCHANGED <<pxReadyTasksLists, delayed, xItemValue>>
  BY DEF vTaskDelayUntil
<1> QED BY <1>1, <1>2, <1>3, DelayKeeps DEF vTaskDelayUntil

LEMMA WaitOnKeeps ==
    ASSUME IInv, NEW e \in EventList, NEW n \in Wait, WaitOn(e, n)
    PROVE  IInv'
<1>1. /\ mode = "task" /\ pc[pxCurrentTCB] = "run" /\ uxSchedulerSuspended = 0
      /\ pxCurrentTCB \in Task /\ InReady(pxCurrentTCB)
      /\ \A u \in AllTasks : ~ InSection(u)
  BY CallFacts DEF WaitOn
<1>2. pxCurrentTCB \in AllTasks /\ pxCurrentTCB # Idle
  BY <1>1, ConstantFacts
<1>3. /\ ~ InDelayed(pxCurrentTCB) /\ ~ InOverflow(pxCurrentTCB)
      /\ ~ InSuspended(pxCurrentTCB) /\ ~ InTermination(pxCurrentTCB)
      /\ ~ InEvents(pxCurrentTCB) /\ ~ InPending(pxCurrentTCB)
  BY <1>1, <1>2, WhereTasksAre
<1>4. UNCHANGED <<uxPriority, uxBasePriority, xEventValue, uxTopReadyPriority,
                  xTasksWaitingTermination, xPendingReadyList, counts, clock,
                  suspension, loop, pxCurrentTCB, xYieldPending>>
  BY DEF WaitOn
<1>5. /\ pc' \in [AllTasks -> Place] /\ pc'[pxCurrentTCB] = "yield"
      /\ \A u \in AllTasks : u # pxCurrentTCB => pc'[u] = pc[u]
  BY <1>2 DEF WaitOn, GoTo, IInv, TcbType, Place
<1>6. /\ ReadyOK(pxReadyTasksLists, uxTopReadyPriority)'
      /\ \A p \in Level : ItemsOf(pxReadyTasksLists'[p]) =
                          ItemsOf(pxReadyTasksLists[p]) \ {pxCurrentTCB}
  BY <1>2, <1>4, ReadyWithoutOK DEF WaitOn, IInv
<1>7. /\ EventsOK'
      /\ ToSet(xEventLists'[e]) = ToSet(xEventLists[e]) \cup {pxCurrentTCB}
      /\ \A f \in EventList : f # e => xEventLists'[f] = xEventLists[f]
  <2> DEFINE list == vListInsert(xEventLists[e], pxCurrentTCB, xEventValue)
  <2>1. xEventLists' = [xEventLists EXCEPT ![e] = list]
    BY DEF WaitOn
  <2>2. IsList(xEventLists[e], AllTasks) /\ pxCurrentTCB \notin ToSet(xEventLists[e])
    BY <1>3 DEF InEvents, IInv, EventsOK
  <2>3. /\ IsList(list, AllTasks)
        /\ ToSet(list) = ToSet(xEventLists[e]) \cup {pxCurrentTCB}
    BY <1>2, <2>2, vListInsertList
  <2> HIDE DEF list
  <2>4. list \in Seq(AllTasks) /\ xEventLists \in [EventList -> Seq(AllTasks)]
    BY <2>3 DEF IInv, EventsOK, IsList
  <2>5. /\ xEventLists' \in [EventList -> Seq(AllTasks)]
        /\ xEventLists'[e] = list
        /\ \A f \in EventList : f # e => xEventLists'[f] = xEventLists[f]
    BY <2>1, <2>4
  <2> QED BY <1>4, <2>3, <2>5 DEF IInv, EventsOK
\* The task goes to one of three lists, and to no other.
<1>8. /\ DelayedOK' /\ ParkedOK'
      /\ xItemValue' \in [AllTasks -> Tick] /\ xNextTaskUnblockTime' \in Tick
      /\ \A u \in AllTasks \ {pxCurrentTCB} :
            /\ InDelayed(u)' <=> InDelayed(u)
            /\ InOverflow(u)' <=> InOverflow(u)
            /\ InSuspended(u)' <=> InSuspended(u)
      /\ \A u \in AllTasks : u = pxCurrentTCB =>
            \/ InDelayed(u)' /\ ~ InOverflow(u)' /\ ~ InSuspended(u)'
            \/ ~ InDelayed(u)' /\ InOverflow(u)' /\ ~ InSuspended(u)'
            \/ ~ InDelayed(u)' /\ ~ InOverflow(u)' /\ InSuspended(u)'
  <2>1. CASE n = portMAX_DELAY
    <3>1. /\ xSuspendedTaskList' = Append(xSuspendedTaskList, pxCurrentTCB)
          /\ UNCHANGED <<delayed, xItemValue>>
      BY <2>1 DEF WaitOn
    <3>2. /\ IsList(xSuspendedTaskList', AllTasks)
          /\ ToSet(xSuspendedTaskList') =
                ToSet(xSuspendedTaskList) \cup {pxCurrentTCB}
      BY <1>2, <1>3, <3>1, AppendList DEF IInv, ParkedOK, InSuspended
    <3> QED BY <1>3, <1>4, <3>1, <3>2
            DEF IInv, DelayedOK, ParkedOK, TcbType, CountType, InDelayed,
                InOverflow, InSuspended, delayed
  <2>2. CASE n # portMAX_DELAY
    <3>1. /\ AddCurrentToDelayed(TicksAfter(xTickCount, n))
          /\ xSuspendedTaskList' = xSuspendedTaskList
      BY <2>2 DEF WaitOn
    <3>2. TicksAfter(xTickCount, n) \in Tick
      BY ArgumentAssumption, TicksAfterType DEF IInv, CountType
    <3>3. /\ DelayedOK'
          /\ \A u \in AllTasks \ {pxCurrentTCB} :
                /\ InDelayed(u)' <=> InDelayed(u)
                /\ InOverflow(u)' <=> InOverflow(u)
          /\ \/ /\ pxCurrentTCB \in ToSet(pxDelayedTaskList')
                /\ pxCurrentTCB \notin ToSet(pxOverflowDelayedTaskList')
             \/ /\ pxCurrentTCB \notin ToSet(pxDelayedTaskList')
                /\ pxCurrentTCB \in ToSet(pxOverflowDelayedTaskList')
          /\ xItemValue' \in [AllTasks -> Tick]
          /\ xNextTaskUnblockTime' \in Tick
      BY <1>2, <1>3, <3>1, <3>2, AddCurrentOK DEF IInv, TcbType, CountType
    <3>4. ParkedOK' /\ \A u \in AllTasks : InSuspended(u)' <=> InSuspended(u)
      BY <1>4, <3>1 DEF IInv, ParkedOK, InSuspended
    <3> QED BY <1>3, <3>3, <3>4 DEF InDelayed, InOverflow
  <2> QED BY <2>1, <2>2
<1>9. ASSUME NEW u \in AllTasks, u # pxCurrentTCB PROVE TaskOK(u)'
  <2>1. \A f \in EventList : u \in ToSet(xEventLists'[f]) <=> u \in ToSet(xEventLists[f])
    BY <1>7, <1>9
  <2>2. Unmoved(u)
    BY <1>4, <1>5, <1>6, <1>8, <1>9, <2>1
       DEF Unmoved, InTermination, InPending
  <2> QED BY <2>2, UnmovedOK DEF IInv
<1>10. ASSUME NEW u \in AllTasks, u = pxCurrentTCB PROVE TaskOK(u)'
  <2>1. /\ ~ InReady(u)' /\ ~ InTermination(u)' /\ ~ InPending(u)'
        /\ pc'[u] \notin {"none", "deleted"}
    BY <1>3, <1>4, <1>5, <1>6, <1>10 DEF InReady, InTermination, InPending
  <2>2. \A f \in EventList : u \in ToSet(xEventLists'[f]) => f = e
    BY <1>3, <1>7, <1>10 DEF InEvents
  <2> QED BY <1>8, <1>10, <2>1, <2>2, NowBlockedOK
<1>11. TcbType' /\ CountType' /\ LoopType'
  BY <1>4, <1>5, <1>8
     DEF IInv, TcbType, CountType, LoopType, counts, clock, suspension, loop
<1>12. Control'
  <2>1. RunningReady' /\ SectionsOfCurrent' /\ SuspendedPlaces'
    BY <1>1, <1>2, <1>4, <1>5
       DEF RunningReady, SectionsOfCurrent, SuspendedPlaces, InSection, Resuming,
           loop, suspension
  <2>2. IdlePlaces' /\ Loops'
    BY <1>1, <1>2, <1>4, <1>5, ConstantFacts
       DEF IdlePlaces, Loops, loop, suspension, IInv, Control
  <2> QED BY <2>1, <2>2 DEF Control
<1>13. CountsAgree'
  <2>1. {u \in AllTasks : Exists(u)}' = {u \in AllTasks : Exists(u)}
    BY <1>1, <1>5 DEF Exists
  <2> QED BY <1>2, <1>4, <1>5, <2>1, ConstantFacts DEF CountsAgree, IInv, counts
<1> QED BY <1>6, <1>7, <1>8, <1>9, <1>10, <1>11, <1>12, <1>13 DEF IInv

-----------------------------------------------------------------------------
(***************************************************************************)
(* The masked loops move a blocked task to the ready list of its priority. *)
(***************************************************************************)
LEMMA UnblockHeadKeeps == ASSUME IInv, UnblockHead PROVE IInv'
<1>1. /\ mode = "unblock" /\ pxDelayedTaskList # <<>>
      /\ pxDelayedTaskList' = Tail(pxDelayedTaskList)
      /\ IsList(pxDelayedTaskList, AllTasks)
  BY DEF UnblockHead, IInv, DelayedOK
<1>2. PICK t \in AllTasks : t = Head(pxDelayedTaskList)
  BY <1>1, TailList, ToSetByIndex DEF IsList
<1>3. PICK p \in Level : p = uxPriority[t]
  BY DEF IInv, TcbType
<1>4. /\ xItemValue' = [xItemValue EXCEPT ![t] = 0]
      /\ RemoveFromEvents(t)
      /\ pxReadyTasksLists' = WithReady(pxReadyTasksLists, t, p)
      /\ uxTopReadyPriority' = Larger(p, uxTopReadyPriority)
  BY <1>2, <1>3 DEF UnblockHead
<1>5. xSwitchRequired' \in BOOLEAN
  BY Zenon DEF UnblockHead, Preempts, IInv, LoopType
<1>6. UNCHANGED <<pc, uxPriority, uxBasePriority, xEventValue,
                  pxOverflowDelayedTaskList, xNextTaskUnblockTime, parked,
                  counts, clock, suspension, mode, caller, waking,
                  pxCurrentTCB, xYieldPending>>
  BY DEF UnblockHead
<1>7. /\ IsList(pxDelayedTaskList', AllTasks)
      /\ t \in ToSet(pxDelayedTaskList)
      /\ ToSet(pxDelayedTaskList') = ToSet(pxDelayedTaskList) \ {t}
  BY <1>1, <1>2, TailList
<1>8. /\ ~ InReady(t) /\ ~ InOverflow(t) /\ ~ InSuspended(t)
      /\ ~ InTermination(t) /\ pc[t] \notin {"none", "deleted"}
  BY <1>7, WhereTasksAre DEF InDelayed, InOneList, IInv, TaskOK
<1>9. /\ ReadyOK(pxReadyTasksLists, uxTopReadyPriority)'
      /\ ItemsOf(pxReadyTasksLists'[p]) = ItemsOf(pxReadyTasksLists[p]) \cup {t}
      /\ \A q \in Level : q # p =>
            ItemsOf(pxReadyTasksLists'[q]) = ItemsOf(pxReadyTasksLists[q])
  <2> DEFINE lists == WithReady(pxReadyTasksLists, t, p)
             top == Larger(p, uxTopReadyPriority)
  <2>1. t \notin ItemsOf(pxReadyTasksLists[p])
    BY <1>8 DEF InReady
  <2>2. /\ ReadyOK(lists, top)
        /\ ItemsOf(lists[p]) = ItemsOf(pxReadyTasksLists[p]) \cup {t}
        /\ \A q \in Level : q # p =>
              ItemsOf(lists[q]) = ItemsOf(pxReadyTasksLists[q])
    BY <2>1, WithReadyOK DEF IInv
  <2>3. pxReadyTasksLists' = lists /\ uxTopReadyPriority' = top
    BY <1>4
  <2> HIDE DEF lists, top
  <2> QED BY <2>2, <2>3
<1>10. /\ EventsOK'
       /\ \A e \in EventList :
             ToSet(xEventLists[e])' = ToSet(xEventLists[e]) \ {t}
       /\ ToSet(xPendingReadyList)' = ToSet(xPendingReadyList) \ {t}
  BY <1>4, RemoveFromEventsOK DEF IInv
<1>11. ASSUME NEW u \in AllTasks, u # t
       PROVE  TaskOK(u)' /\ (InReady(u)' <=> InReady(u))
  <2>1. Unmoved(u)
    BY <1>6, <1>7, <1>9, <1>10, <1>11
       DEF Unmoved, InDelayed, InOverflow, InSuspended, InTermination, InPending,
           parked
  <2> QED BY <1>11, <2>1, UnmovedOK DEF IInv
<1>12. TaskOK(t)' /\ InReady(t)'
  <2>1. /\ t \in ItemsOf(pxReadyTasksLists'[p]) /\ uxPriority'[t] = p
        /\ \A q \in Level : q # p => t \notin ItemsOf(pxReadyTasksLists'[q])
    BY <1>3, <1>6, <1>8, <1>9 DEF InReady
  <2>2. /\ ~ InDelayed(t)' /\ ~ InOverflow(t)' /\ ~ InSuspended(t)'
        /\ ~ InTermination(t)' /\ ~ InEvents(t)' /\ ~ InPending(t)'
        /\ pc'[t] \notin {"none", "deleted"}
    BY <1>6, <1>7, <1>8, <1>10
       DEF InDelayed, InOverflow, InSuspended, InTermination, InEvents,
           InPending, parked
  <2> QED BY <2>1, <2>2, NowReadyOK
<1>13. TcbType' /\ CountType' /\ LoopType'
  BY <1>4, <1>5, <1>6, ConstantFacts
     DEF IInv, TcbType, CountType, LoopType, counts, clock, suspension
<1>14. DelayedOK' /\ ParkedOK'
  BY <1>6, <1>7 DEF IInv, DelayedOK, ParkedOK, parked
<1>15. Control'
  <2>1. xPendingReadyList' = <<>>
    BY <1>1, <1>10, EmptyByItems
       DEF IInv, Control, Loops, EventsOK, IsList
  <2> QED BY <1>1, <1>6, <1>11, <1>12, <2>1
          DEF Control, RunningReady, SectionsOfCurrent, SuspendedPlaces, IdlePlaces,
              Loops, InSection, Resuming, suspension, IInv, TcbType
<1>16. CountsAgree'
  BY <1>6 DEF CountsAgree, IInv, Exists, counts, parked
<1> QED BY <1>9, <1>10, <1>11, <1>12, <1>13, <1>14, <1>15, <1>16 DEF IInv

\* What xTaskResumeAll and xTaskRemoveFromEventList do alike for a task that is
\* blocked: it leaves the lists its xGenericListItem may be in for a ready list.
LEMMA MadeReadyOK ==
    ASSUME IInv, NEW t \in AllTasks,
           InDelayed(t) \/ InOverflow(t) \/ InSuspended(t),
           RemoveFromDelayed(t),
           xSuspendedTaskList' = RemoveFirst(xSuspendedTaskList, t),
           xTasksWaitingTermination' = xTasksWaitingTermination,
           pxReadyTasksLists' = WithReady(ReadyWithout(t), t, uxPriority[t]),
           uxTopReadyPriority' = Larger(uxPriority[t], uxTopReadyPriority),
           UNCHANGED <<pc, uxPriority>>,
           EventsOK', ~ InEvents(t)', ~ InPending(t)',
           \A u \in AllTasks \ {t} :
              /\ InPending(u)' <=> InPending(u)
              /\ \A e \in EventList :
                    u \in ToSet(xEventLists'[e]) <=> u \in ToSet(xEventLists[e])
    PROVE  /\ ReadyOK(pxReadyTasksLists, uxTopReadyPriority)'
           /\ DelayedOK' /\ ParkedOK'
           /\ xItemValue' \in [AllTasks -> Tick]
           /\ xNextTaskUnblockTime' = xNextTaskUnblockTime
           /\ \A u \in AllTasks :
                 TaskOK(u)' /\ (u # t => (InReady(u)' <=> InReady(u)))
           /\ InReady(t)'
<1>1. /\ t # Idle /\ ~ InReady(t) /\ ~ InTermination(t)
      /\ pc[t] \notin {"none", "deleted"}
  BY WhereTasksAre
<1>2. PICK p \in Level : p = uxPriority[t]
  BY DEF IInv, TcbType
<1>3. /\ ReadyOK(pxReadyTasksLists, uxTopReadyPriority)'
      /\ ItemsOf(pxReadyTasksLists'[p]) = ItemsOf(pxReadyTasksLists[p]) \cup {t}
      /\ \A q \in Level : q # p =>
            ItemsOf(pxReadyTasksLists'[q]) = ItemsOf(pxReadyTasksLists[q]) \ {t}
  <2> DEFINE lists == WithReady(ReadyWithout(t), t, p)
             top == Larger(p, uxTopReadyPriority)
  <2>1. /\ ReadyOK(lists, top)
        /\ ItemsOf(lists[p]) = ItemsOf(pxReadyTasksLists[p]) \cup {t}
        /\ \A q \in Level : q # p =>
              ItemsOf(lists[q]) = ItemsOf(pxReadyTasksLists[q]) \ {t}
    BY <1>1, MovedReadyOK DEF IInv
  <2>2. pxReadyTasksLists' = lists /\ uxTopReadyPriority' = top
    BY <1>2
  <2> HIDE DEF lists, top
  <2> QED BY <2>1, <2>2
<1>4. /\ DelayedOK'
      /\ ToSet(pxDelayedTaskList)' = ToSet(pxDelayedTaskList) \ {t}
      /\ ToSet(pxOverflowDelayedTaskList)' =
            ToSet(pxOverflowDelayedTaskList) \ {t}
      /\ xItemValue' \in [AllTasks -> Tick]
      /\ xNextTaskUnblockTime' = xNextTaskUnblockTime
  BY RemoveFromDelayedOK DEF IInv, TcbType
<1>5. /\ ParkedOK'
      /\ ToSet(xSuspendedTaskList') = ToSet(xSuspendedTaskList) \ {t}
  BY RemoveFirstList DEF IInv, ParkedOK
<1>6. ASSUME NEW u \in AllTasks, u # t
      PROVE  TaskOK(u)' /\ (InReady(u)' <=> InReady(u))
  <2>1. Unmoved(u)
    BY <1>3, <1>4, <1>5, <1>6
       DEF Unmoved, InDelayed, InOverflow, InSuspended, InTermination
  <2> QED BY <1>6, <2>1, UnmovedOK DEF IInv
<1>7. TaskOK(t)' /\ InReady(t)'
  <2>1. /\ t \in ItemsOf(pxReadyTasksLists'[p]) /\ uxPriority'[t] = p
        /\ \A q \in Level : q # p => t \notin ItemsOf(pxReadyTasksLists'[q])
    BY <1>1, <1>2, <1>3 DEF InReady
  <2>2. /\ ~ InDelayed(t)' /\ ~ InOverflow(t)' /\ ~ InSuspended(t)'
        /\ ~ InTermination(t)' /\ pc'[t] \notin {"none", "deleted"}
    BY <1>1, <1>4, <1>5 DEF InDelayed, InOverflow, InSuspended, InTermination
  <2> QED BY <2>1, <2>2, NowReadyOK
<1> QED BY <1>3, <1>4, <1>5, <1>6, <1>7

LEMMA DrainPendingReadyKeeps == ASSUME IInv, DrainPendingReady PROVE IInv'
<1>1. /\ mode = "drain" /\ xPendingReadyList # <<>>
      /\ xPendingReadyList' = Tail(xPendingReadyList)
      /\ IsList(xPendingReadyList, AllTasks)
  BY DEF DrainPendingReady, IInv, EventsOK
<1>2. PICK t \in AllTasks : t = Head(xPendingReadyList)
  BY <1>1, TailList, ToSetByIndex DEF IsList
<1>3. /\ RemoveFromDelayed(t)
      /\ xSuspendedTaskList' = RemoveFirst(xSuspendedTaskList, t)
      /\ pxReadyTasksLists' = WithReady(ReadyWithout(t), t, uxPriority[t])
      /\ uxTopReadyPriority' = Larger(uxPriority[t], uxTopReadyPriority)
  BY <1>2 DEF DrainPendingReady
<1>4. xYieldPending' \in BOOLEAN
  BY Zenon DEF DrainPendingReady, Preempts, IInv, LoopType
<1>5. UNCHANGED <<pc, uxPriority, uxBasePriority, xEventValue, xEventLists,
                  xTasksWaitingTermination, counts, clock, suspension, loop,
                  pxCurrentTCB>>
  BY DEF DrainPendingReady
<1>6. /\ IsList(xPendingReadyList', AllTasks)
      /\ t \in ToSet(xPendingReadyList)
      /\ ToSet(xPendingReadyList') = ToSet(xPendingReadyList) \ {t}
  BY <1>1, <1>2, TailList
<1>7. /\ InDelayed(t) \/ InOverflow(t) \/ InSuspended(t)
      /\ ~ InEvents(t)
  BY <1>6 DEF InPending, IInv, TaskOK, WaitsBlocked
<1>8. /\ EventsOK' /\ ~ InEvents(t)' /\ ~ InPending(t)'
      /\ \A u \in AllTasks \ {t} :
            /\ InPending(u)' <=> InPending(u)
            /\ \A e \in EventList :
                  u \in ToSet(xEventLists'[e]) <=> u \in ToSet(xEventLists[e])
  BY <1>5, <1>6, <1>7 DEF IInv, EventsOK, InEvents, InPending
<1>9. /\ ReadyOK(pxReadyTasksLists, uxTopReadyPriority)'
      /\ DelayedOK' /\ ParkedOK'
      /\ xItemValue' \in [AllTasks -> Tick]
      /\ xNextTaskUnblockTime' = xNextTaskUnblockTime
      /\ \A u \in AllTasks :
            TaskOK(u)' /\ (u # t => (InReady(u)' <=> InReady(u)))
      /\ InReady(t)'
  BY <1>3, <1>5, <1>7, <1>8, MadeReadyOK
<1>10. TcbType' /\ CountType' /\ LoopType'
  BY <1>4, <1>5, <1>9
     DEF IInv, TcbType, CountType, LoopType, counts, clock, suspension, loop
<1>11. Control'
  BY <1>1, <1>5, <1>9
     DEF Control, RunningReady, SectionsOfCurrent, SuspendedPlaces, IdlePlaces,
         Loops, InSection, Resuming, suspension, loop, IInv, TcbType
<1>12. CountsAgree'
  BY <1>5 DEF CountsAgree, IInv, Exists, counts
<1> QED BY <1>8, <1>9, <1>10, <1>11, <1>12 DEF IInv

\* The head of an event list becomes ready at once, or is noted on
\* xPendingReadyList and stays blocked until the scheduler is resumed.
LEMMA WakeNextKeeps == ASSUME IInv, WakeNext PROVE IInv'
<1>1. PICK e \in EventList : e = waking
  BY DEF WakeNext, IInv, Control, Loops
<1>2. /\ mode = "wake" /\ xTaskRemoveFromEventList(e)
      /\ xEventLists[e] # <<>> /\ IsList(xEventLists[e], AllTasks)
  BY <1>1 DEF WakeNext, IInv, Control, Loops, EventsOK
<1>3. PICK t \in AllTasks : t = Head(xEventLists[e])
  BY <1>2, TailList, ToSetByIndex DEF IsList
<1>4. UNCHANGED <<pc, uxPriority, uxBasePriority, xEventValue,
                  xTasksWaitingTermination, counts, clock, suspension, caller,
                  xSwitchRequired, pxCurrentTCB>>
  BY DEF WakeNext
<1>5. xYieldPending' \in BOOLEAN
  BY <1>2, Zenon DEF xTaskRemoveFromEventList, Preempts, IInv, LoopType
<1>6. /\ IsList(xEventLists'[e], AllTasks)
      /\ t \in ToSet(xEventLists[e])
      /\ ToSet(xEventLists'[e]) = ToSet(xEventLists[e]) \ {t}
      /\ xEventLists' \in [EventList -> Seq(AllTasks)]
      /\ \A f \in EventList : f # e => xEventLists'[f] = xEventLists[f]
      /\ Len(xEventLists'[e]) = Len(xEventLists[e]) - 1
  <2> DEFINE rest == Tail(xEventLists[e])
  <2>1. xEventLists' = [xEventLists EXCEPT ![e] = rest]
    BY <1>2 DEF xTaskRemoveFromEventList
  <2>2. /\ IsList(rest, AllTasks) /\ t \in ToSet(xEventLists[e])
        /\ ToSet(rest) = ToSet(xEventLists[e]) \ {t}
    BY <1>2, <1>3, TailList
  <2>3. Len(rest) = Len(xEventLists[e]) - 1
    BY <1>2, HeadTailProperties DEF IsList
  <2> HIDE DEF rest
  <2>4. rest \in Seq(AllTasks) /\ xEventLists \in [EventList -> Seq(AllTasks)]
    BY <2>2 DEF IsList, IInv, EventsOK
  <2> QED BY <2>1, <2>2, <2>3, <2>4
<1>7. /\ InDelayed(t) \/ InOverflow(t) \/ InSuspended(t)
      /\ ~ InPending(t)
      /\ \A f \in EventList : f # e => t \notin ToSet(xEventLists[f])
  BY <1>6 DEF InEvents, IInv, TaskOK, WaitsBlocked
<1>8. \A f \in EventList : IsList(xEventLists'[f], AllTasks)
  BY <1>6 DEF IInv, EventsOK
<1>9. ~ InEvents(t)' /\ \A u \in AllTasks \ {t} : \A f \in EventList :
         u \in ToSet(xEventLists'[f]) <=> u \in ToSet(xEventLists[f])
  BY <1>6, <1>7 DEF InEvents
<1>10. /\ ReadyOK(pxReadyTasksLists, uxTopReadyPriority)'
       /\ DelayedOK' /\ ParkedOK' /\ EventsOK'
       /\ xItemValue' \in [AllTasks -> Tick]
       /\ xNextTaskUnblockTime' = xNextTaskUnblockTime
       /\ \A u \in AllTasks : TaskOK(u)' /\ (InReady(u) => InReady(u)')
       /\ uxSchedulerSuspended = 0 => xPendingReadyList' = <<>>
  <2>1. CASE uxSchedulerSuspended = 0
    <3>1. /\ RemoveFromDelayed(t)
          /\ xSuspendedTaskList' = RemoveFirst(xSuspendedTaskList, t)
          /\ pxReadyTasksLists' = WithReady(ReadyWithout(t), t, uxPriority[t])
          /\ uxTopReadyPriority' = Larger(uxPriority[t], uxTopReadyPriority)
          /\ xPendingReadyList' = xPendingReadyList
      BY <1>2, <1>3, <2>1 DEF xTaskRemoveFromEventList
    <3>2. /\ EventsOK' /\ ~ InPending(t)'
          /\ \A u \in AllTasks \ {t} : InPending(u)' <=> InPending(u)
      BY <1>6, <1>7, <1>8, <3>1 DEF EventsOK, IInv, InPending
    <3>3. /\ ReadyOK(pxReadyTasksLists, uxTopReadyPriority)'
          /\ DelayedOK' /\ ParkedOK'
          /\ xItemValue' \in [AllTasks -> Tick]
          /\ xNextTaskUnblockTime' = xNextTaskUnblockTime
          /\ \A u \in AllTasks :
                TaskOK(u)' /\ (u # t => (InReady(u)' <=> InReady(u)))
          /\ InReady(t)'
      BY <1>4, <1>7, <1>9, <3>1, <3>2, MadeReadyOK
    <3>4. xPendingReadyList = <<>>
      BY <1>2, <2>1 DEF IInv, Control, Loops
    <3> QED BY <3>1, <3>2, <3>3, <3>4
  <2>2. CASE uxSchedulerSuspended # 0
    <3>1. /\ xPendingReadyList' = Append(xPendingReadyList, t)
          /\ UNCHANGED <<ready, delayed, xItemValue, xSuspendedTaskList>>
      BY <1>2, <1>3, <2>2 DEF xTaskRemoveFromEventList
    <3>2. /\ IsList(xPendingReadyList', AllTasks)
          /\ ToSet(xPendingReadyList') = ToSet(xPendingReadyList) \cup {t}
      BY <1>7, <3>1, AppendList DEF IInv, EventsOK, InPending
    <3>3. \A u \in AllTasks : InReady(u)' <=> InReady(u)
      BY <3>1 DEF InReady, ready
    <3>4. ASSUME NEW u \in AllTasks, u # t PROVE TaskOK(u)'
      <4>1. Unmoved(u)
        BY <1>4, <1>9, <3>1, <3>2, <3>4
           DEF Unmoved, InDelayed, InOverflow, InSuspended, InTermination,
               InPending, ready, delayed
      <4> QED BY <4>1, UnmovedOK DEF IInv
    <3>5. TaskOK(t)'
      <4>1. /\ InDelayed(t)' <=> InDelayed(t)
            /\ InOverflow(t)' <=> InOverflow(t)
            /\ InSuspended(t)' <=> InSuspended(t)
            /\ InTermination(t)' <=> InTermination(t)
            /\ pc' = pc
        BY <1>4, <3>1
           DEF InDelayed, InOverflow, InSuspended, InTermination, delayed
      <4>2. InOneList(t)
        BY DEF IInv, TaskOK
      <4>3. \A f, g \in EventList :
               t \in ToSet(xEventLists'[f]) /\ t \in ToSet(xEventLists'[g]) => f = g
        BY <1>9 DEF InEvents
      <4> QED BY <1>7, <1>9, <3>3, <4>1, <4>2, <4>3, WhereTasksAre, NowBlockedOK
              DEF InOneList
    <3>6. DelayedOK' /\ ParkedOK' /\ EventsOK'
      BY <1>4, <1>6, <1>8, <3>1, <3>2
         DEF IInv, DelayedOK, ParkedOK, EventsOK, delayed
    <3> QED BY <2>2, <3>1, <3>3, <3>4, <3>5, <3>6
            DEF IInv, TcbType, ready, delayed
  <2> QED BY <2>1, <2>2
<1>11. \/ mode' = "task" /\ waking' = NoList
       \/ mode' = "wake" /\ waking' = e /\ xEventLists'[e] # <<>>
  <2>1. CASE Len(xEventLists[e]) = 1
    BY <1>1, <2>1 DEF WakeNext
  <2>2. CASE Len(xEventLists[e]) # 1
    <3>1. mode' = mode /\ waking' = waking
      BY <1>1, <2>2 DEF WakeNext
    <3>2. Len(xEventLists[e]) \in Nat
      BY <1>2, LenProperties DEF IsList
    <3>3. xEventLists'[e] # <<>>
      <4>1. xEventLists[e] \in Seq(AllTasks) /\ xEventLists'[e] \in Seq(AllTasks)
        BY <1>2, <1>6 DEF IsList
      <4>2. Len(xEventLists[e]) # 0
        BY <1>2, <4>1, EmptySeq
      <4>3. Len(xEventLists'[e]) # 0
        BY <1>6, <2>2, <3>2, <4>2
      <4> QED BY <4>1, <4>3, EmptySeq
    <3> QED BY <1>1, <1>2, <3>1, <3>3
  <2> QED BY <2>1, <2>2
<1>12. TcbType' /\ CountType' /\ LoopType'
  BY <1>4, <1>5, <1>10, <1>11
     DEF IInv, TcbType, CountType, LoopType, Mode, counts, clock, suspension
<1>13. Control'
  <2>1. RunningReady'
    BY <1>4, <1>10 DEF RunningReady, IInv, Control, TcbType
  <2>2. SectionsOfCurrent' /\ SuspendedPlaces' /\ IdlePlaces'
    BY <1>2, <1>4, <1>11
       DEF SectionsOfCurrent, SuspendedPlaces, IdlePlaces, InSection, Resuming,
           suspension, IInv, Control
  <2>3. Loops'
    BY <1>4, <1>10, <1>11 DEF Loops, suspension, IInv, CountType
  <2> QED BY <2>1, <2>2, <2>3 DEF Control
<1>14. CountsAgree'
  BY <1>4 DEF CountsAgree, IInv, Exists, counts
<1> QED BY <1>10, <1>12, <1>13, <1>14 DEF IInv

\* The idle task frees a deleted task, which is in no other list.
LEMMA IdleReapsKeeps == ASSUME IInv, IdleReaps PROVE IInv'
<1>1. /\ pxCurrentTCB = Idle /\ mode = "task" /\ pc[Idle] = "reap"
      /\ IsList(xTasksWaitingTermination, AllTasks)
      /\ xTasksWaitingTermination # <<>>
  BY DEF IdleReaps, InIdle, InTask, IInv, ParkedOK, CountsAgree
<1>2. PICK t \in AllTasks : t = Head(xTasksWaitingTermination)
  BY <1>1, TailList, ToSetByIndex DEF IsList
<1>3. /\ pc' = [pc EXCEPT ![t] = "none", ![Idle] = "run"]
      /\ uxPriority' = [uxPriority EXCEPT ![t] = 0]
      /\ uxBasePriority' = [uxBasePriority EXCEPT ![t] = 0]
      /\ xEventValue' = [xEventValue EXCEPT ![t] = EventItemValue(0)]
      /\ xTasksWaitingTermination' = Tail(xTasksWaitingTermination)
      /\ uxCurrentNumberOfTasks' = uxCurrentNumberOfTasks - 1
      /\ uxTasksDeleted' = uxTasksDeleted - 1
  BY <1>2 DEF IdleReaps
<1>4. UNCHANGED <<ticks, xItemValue, ready, delayed, xSuspendedTaskList, events,
                  clock, suspension, loop, pxCurrentTCB, xYieldPending>>
  BY DEF IdleReaps
<1>5. /\ IsList(xTasksWaitingTermination', AllTasks)
      /\ t \in ToSet(xTasksWaitingTermination)
      /\ ToSet(xTasksWaitingTermination') = ToSet(xTasksWaitingTermination) \ {t}
      /\ Len(xTasksWaitingTermination') = Len(xTasksWaitingTermination) - 1
      /\ Len(xTasksWaitingTermination) \in Nat \ {0}
  <2>1. Len(xTasksWaitingTermination) \in Nat \ {0}
    BY <1>1, LenProperties, EmptySeq DEF IsList
  <2> QED BY <1>1, <1>2, <1>3, <2>1, TailList, HeadTailProperties DEF IsList
<1>6. /\ ~ InReady(t) /\ t # Idle /\ pc[t] = "deleted"
      /\ ~ InDelayed(t) /\ ~ InOverflow(t) /\ ~ InSuspended(t)
      /\ ~ InEvents(t) /\ ~ InPending(t)
  BY <1>5, WhereTasksAre
     DEF InTermination, IInv, TaskOK, InOneList, WaitsBlocked
<1>7. /\ pc' \in [AllTasks -> Place] /\ pc'[t] = "none" /\ pc'[Idle] = "run"
      /\ \A u \in AllTasks : u \notin {t, Idle} => pc'[u] = pc[u]
  BY <1>3, <1>6, ConstantFacts DEF IInv, TcbType, Place
<1>8. TcbType'
  <2>1. EventItemValue(0) \in 1..MAX_PRIORITIES /\ 0 \in Level
    BY ConstantFacts
  <2> QED BY <1>3, <1>4, <1>7, <2>1 DEF IInv, TcbType
<1>9. ASSUME NEW u \in AllTasks, u # t
      PROVE  TaskOK(u)' /\ (InReady(u)' <=> InReady(u))
  <2>1. uxPriority'[u] = uxPriority[u]
    BY <1>3, <1>9 DEF IInv, TcbType
  <2>2. Unmoved(u)
    BY <1>1, <1>4, <1>5, <1>7, <1>9, <2>1
       DEF Unmoved, InDelayed, InOverflow, InSuspended, InTermination, InPending,
           ready, delayed, events
  <2> QED BY <1>9, <2>2, UnmovedOK DEF IInv
<1>10. TaskOK(t)'
  <2>1. /\ ~ InReady(t)' /\ ~ InDelayed(t)' /\ ~ InOverflow(t)'
        /\ ~ InSuspended(t)' /\ ~ InTermination(t)' /\ ~ InPending(t)'
        /\ ~ InEvents(t)'
    BY <1>4, <1>5, <1>6
       DEF InReady, InDelayed, InOverflow, InSuspended, InTermination, InPending,
           InEvents, ready, delayed, events
  <2>2. InOneList(t)' /\ AtItsLevel(t)' /\ WaitsBlocked(t)'
    BY <1>7, <2>1 DEF InOneList, AtItsLevel, WaitsBlocked, InReady, InEvents
  <2> QED BY <2>2 DEF TaskOK
<1>11. ReadyOK(pxReadyTasksLists, uxTopReadyPriority)' /\ DelayedOK' /\ ParkedOK'
       /\ EventsOK' /\ LoopType'
  BY <1>4, <1>5
     DEF IInv, ready, DelayedOK, delayed, ParkedOK, EventsOK, events, LoopType, loop
<1>12. CountsAgree' /\ uxCurrentNumberOfTasks' \in Nat
  <2> DEFINE E == {u \in AllTasks : Exists(u)}
  <2>1. E' = E \ {t} /\ t \in E
    BY <1>1, <1>6, <1>7 DEF Exists
  <2>2. IsFiniteSet(E) /\ Cardinality(E) \in Nat /\ Cardinality(E \ {t}) \in Nat
    BY ExistingFinite
  <2> HIDE DEF E
  <2>3. Cardinality(E') = Cardinality(E) - 1 /\ Cardinality(E') \in Nat
    BY <2>1, <2>2, FS_RemoveElement
  <2> QED BY <1>3, <1>5, <1>7, <2>3 DEF CountsAgree, IInv, E
<1>13. CountType'
  BY <1>3, <1>4, <1>5, <1>12
     DEF IInv, CountType, CountsAgree, delayed, clock, suspension
<1>14. Control'
  <2>1. RunningReady'
    BY <1>1, <1>4, <1>6, <1>9, ConstantFacts DEF RunningReady, IInv, Control
  <2>2. SectionsOfCurrent' /\ SuspendedPlaces'
    BY <1>1, <1>4, <1>7
       DEF SectionsOfCurrent, SuspendedPlaces, InSection, Resuming, suspension,
           loop, IInv, Control
  <2>3. IdlePlaces'
    BY <1>1, <1>4, <1>7, ConstantFacts DEF IdlePlaces, suspension, IInv, Control
  <2>4. Loops'
    BY <1>4 DEF Loops, suspension, loop, events, IInv, Control
  <2> QED BY <2>1, <2>2, <2>3, <2>4 DEF Control
<1> QED BY <1>8, <1>9, <1>10, <1>11, <1>12, <1>13, <1>14 DEF IInv

-----------------------------------------------------------------------------
(***************************************************************************)
(* The invariant.                                                          *)
(***************************************************************************)
LEMMA OneItemRing ==
    ASSUME NEW t \in AllTasks
    PROVE  /\ IsRing(<<t, ListEnd>>, AllTasks)
           /\ ItemsOf(<<t, ListEnd>>) = {t}
<1>1. t # ListEnd
  BY TaskAssumption
<1>2. <<t, ListEnd>> \in Seq(AllTasks \cup {ListEnd})
  OBVIOUS
<1>3. ToSet(<<t, ListEnd>>) = {t, ListEnd}
  <2> DEFINE s == <<t, ListEnd>>
  <2>1. s \in Seq(AllTasks \cup {ListEnd}) /\ 1..Len(s) = {1, 2}
    BY <1>2
  <2>2. s[1] = t /\ s[2] = ListEnd
    OBVIOUS
  <2> HIDE DEF s
  <2>3. \A x : x \in ToSet(s) <=> x = t \/ x = ListEnd
    BY <2>1, <2>2, ToSetByIndex
  <2>4. ToSet(s) = {t, ListEnd}
    BY <2>3
  <2> QED BY <2>4 DEF s
<1>4. NoRepeats(<<t, ListEnd>>)
  BY <1>1 DEF NoRepeats
<1> QED BY <1>1, <1>2, <1>3, <1>4 DEF IsRing, IsList, ItemsOf

\* What vTaskStartScheduler leaves satisfies the invariant.
LEMMA InitIInv == ASSUME Init PROVE IInv
<1>1. /\ pxCurrentTCB = Main
      /\ pc = [t \in AllTasks |-> IF t \in {Main, Idle} THEN "run" ELSE "none"]
      /\ uxBasePriority = uxPriority
      /\ xItemValue = [t \in AllTasks |-> 0]
      /\ xEventValue = [t \in AllTasks |-> EventItemValue(uxPriority[t])]
      /\ pxDelayedTaskList = <<>> /\ pxOverflowDelayedTaskList = <<>>
      /\ xPendingReadyList = <<>> /\ xTasksWaitingTermination = <<>>
      /\ xSuspendedTaskList = <<>>
      /\ xEventLists = [e \in EventList |-> <<>>]
      /\ uxCurrentNumberOfTasks = 2 /\ uxTasksDeleted = 0
      /\ xTickCount = 0 /\ xNumOfOverflows = 0
      /\ xNextTaskUnblockTime = portMAX_DELAY
      /\ uxSchedulerSuspended = 0 /\ uxPendedTicks = 0
      /\ xYieldPending = FALSE
      /\ mode = "task" /\ caller = "isr" /\ xSwitchRequired = FALSE
      /\ waking = NoList
      /\ ticks = 0
  BY DEF Init
<1>2. PICK p \in Priority \ {0} :
        /\ uxPriority = [t \in AllTasks |-> IF t = Main THEN p ELSE 0]
        /\ pxReadyTasksLists =
               [q \in Level |-> IF q = p THEN <<Main, ListEnd>>
                                ELSE IF q = 0 THEN <<Idle, ListEnd>>
                                ELSE vListInitialise]
        /\ uxTopReadyPriority = p
  BY DEF Init
<1>3. p \in Level /\ p # 0
  BY ArgumentAssumption
<1>4. TcbType
  <2>1. pc \in [AllTasks -> Place] /\ pxCurrentTCB \in AllTasks
    BY <1>1, ConstantFacts DEF Place
  <2>2. uxPriority \in [AllTasks -> Level]
    BY <1>2, <1>3, ConstantFacts
  <2>3. xEventValue \in [AllTasks -> 1..MAX_PRIORITIES]
    BY <1>1, <2>2, ConstantFacts
  <2>4. xItemValue \in [AllTasks -> Tick]
    BY <1>1, ConstantFacts
  <2> QED BY <1>1, <2>1, <2>2, <2>3, <2>4 DEF TcbType
<1>5. /\ pxReadyTasksLists[p] = <<Main, ListEnd>>
      /\ pxReadyTasksLists[0] = <<Idle, ListEnd>>
      /\ \A q \in Level : q # p /\ q # 0 =>
            pxReadyTasksLists[q] = vListInitialise
  BY <1>2, <1>3, ConstantFacts
<1>6. /\ ItemsOf(pxReadyTasksLists[p]) = {Main}
      /\ ItemsOf(pxReadyTasksLists[0]) = {Idle}
      /\ \A q \in Level : q # p /\ q # 0 => ItemsOf(pxReadyTasksLists[q]) = {}
      /\ \A q \in Level : IsRing(pxReadyTasksLists[q], AllTasks)
  BY <1>5, ConstantFacts, OneItemRing, EmptyRing
<1>7. ReadyOK(pxReadyTasksLists, uxTopReadyPriority)
  <2>1. pxReadyTasksLists \in [Level -> Seq(AllTasks \cup {ListEnd})]
    <3>1. \A q \in Level : pxReadyTasksLists[q] \in Seq(AllTasks \cup {ListEnd})
      BY <1>6 DEF IsRing, IsList
    <3>2. pxReadyTasksLists = [q \in Level |-> pxReadyTasksLists[q]]
      BY <1>2, Zenon
    <3> QED BY <3>1, <3>2
  <2>2. \A q \in Level : ItemsOf(pxReadyTasksLists[q]) # {} => q <= p
    BY <1>3, <1>6 DEF Level
  <2> QED BY <1>2, <1>3, <1>6, <2>1, <2>2 DEF ReadyOK
<1>8. DelayedOK /\ ParkedOK /\ EventsOK
  BY <1>1, EmptyList DEF DelayedOK, ParkedOK, EventsOK, IsList
<1>9. /\ \A t \in AllTasks : InReady(t) <=> t \in {Main, Idle}
      /\ \A t \in AllTasks : \A q \in Level :
            t \in ItemsOf(pxReadyTasksLists[q]) => uxPriority[t] = q
  BY <1>2, <1>3, <1>6, ConstantFacts DEF InReady
<1>10. ASSUME NEW t \in AllTasks PROVE TaskOK(t)
  <2>1. /\ ~ InDelayed(t) /\ ~ InOverflow(t) /\ ~ InSuspended(t)
        /\ ~ InTermination(t) /\ ~ InEvents(t) /\ ~ InPending(t)
        /\ \A e \in EventList : t \notin ToSet(xEventLists[e])
    BY <1>1, EmptyList
       DEF InDelayed, InOverflow, InSuspended, InTermination, InEvents, InPending
  <2>2. (pc[t] # "none" <=> t \in {Main, Idle}) /\ pc[t] # "deleted"
    BY <1>1
  <2> QED BY <1>9, <2>1, <2>2 DEF TaskOK, InOneList, AtItsLevel, WaitsBlocked
<1>11. CountType /\ LoopType
  <2>1. 0 \in 0..OVERFLOWS - 1
    BY SizeAssumption
  <2>2. CountType
    BY <1>1, <2>1, ConstantFacts DEF CountType
  <2>3. LoopType
    BY <1>1, Zenon DEF LoopType, Mode
  <2> QED BY <2>2, <2>3
<1>12. Control
  <2>1. \A t \in AllTasks : pc[t] \in {"run", "none"}
    BY <1>1
  <2>2. pc[pxCurrentTCB] = "run" /\ InReady(pxCurrentTCB)
    BY <1>1, <1>9, ConstantFacts
  <2>3. RunningReady /\ Loops
    BY <1>1, <2>2 DEF RunningReady, Loops
  <2>4. SectionsOfCurrent /\ SuspendedPlaces /\ IdlePlaces
    BY <1>1, <2>1, <2>2, ConstantFacts
       DEF SectionsOfCurrent, SuspendedPlaces, IdlePlaces, InSection
  <2> QED BY <2>3, <2>4 DEF Control
<1>13. CountsAgree
  <2>1. {t \in AllTasks : Exists(t)} = {Main, Idle}
    BY <1>1, ConstantFacts DEF Exists
  <2>2. Cardinality({Main, Idle}) = 2
    <3>1. Cardinality({Idle}) = 1 /\ IsFiniteSet({Idle})
      BY FS_Singleton
    <3>2. Main \notin {Idle}
      BY ConstantFacts
    <3>3. Cardinality({Idle} \cup {Main}) = Cardinality({Idle}) + 1
      BY <3>1, <3>2, FS_AddElement
    <3>4. {Idle} \cup {Main} = {Main, Idle}
      OBVIOUS
    <3> QED BY <3>1, <3>3, <3>4
  <2>3. Len(xTasksWaitingTermination) = 0 /\ pc[Idle] = "run"
    BY <1>1, EmptySeq, ConstantFacts
  <2> QED BY <1>1, <2>1, <2>2, <2>3 DEF CountsAgree
<1> QED BY <1>4, <1>7, <1>8, <1>10, <1>11, <1>12, <1>13 DEF IInv

\* A step that changes nothing keeps it.
LEMMA StutterKeeps == ASSUME IInv, UNCHANGED vars PROVE IInv'
<1>1. UNCHANGED <<tcb, ready, delayed, parked, events, counts, clock, suspension,
                  loop, pxCurrentTCB, xYieldPending>>
  BY DEF vars
<1>2. /\ TcbType' /\ CountType' /\ LoopType' /\ DelayedOK' /\ ParkedOK'
      /\ EventsOK' /\ ReadyOK(pxReadyTasksLists, uxTopReadyPriority)'
  BY <1>1 DEF IInv, TcbType, CountType, LoopType, DelayedOK, ParkedOK, EventsOK,
              tcb, ready, delayed, parked, events, counts, clock, suspension, loop
<1>3. \A t \in AllTasks : TaskOK(t)' /\ (InReady(t)' <=> InReady(t))
  BY <1>1 DEF IInv, TaskOK, InOneList, AtItsLevel, WaitsBlocked, InReady,
              InDelayed, InOverflow, InSuspended, InTermination, InEvents,
              InPending, tcb, ready, delayed, parked, events
<1>4. Control'
  <2>1. RunningReady'
    BY <1>1, <1>3 DEF RunningReady, IInv, Control, tcb, TcbType
  <2> QED BY <1>1, <2>1
          DEF IInv, Control, SectionsOfCurrent, SuspendedPlaces,
              IdlePlaces, Loops, InSection, Resuming, tcb, suspension, loop, events
<1>5. CountsAgree'
  BY <1>1 DEF IInv, CountsAgree, Exists, tcb, counts, parked
<1> QED BY <1>2, <1>3, <1>4, <1>5 DEF IInv

\* Every step keeps the invariant.
LEMMA NextIInv == ASSUME IInv, [Next]_vars PROVE IInv'
<1>1. CASE CallNext
  <2>1. ASSUME NEW t \in Task, vTaskDelete(t) \/ vTaskSuspend(t) \/ vTaskResume(t)
        PROVE  IInv'
    BY <2>1, vTaskDeleteKeeps, vTaskSuspendKeeps, vTaskResumeKeeps
  <2>2. ASSUME NEW t \in Task, NEW p \in Priority,
               xTaskGenericCreate(t, p) \/ vTaskPrioritySet(t, p)
        PROVE  IInv'
    BY <2>2, xTaskGenericCreateKeeps, vTaskPrioritySetKeeps
  <2>3. ASSUME NEW n \in Delay, vTaskDelay(n) PROVE IInv'
    BY <2>3, vTaskDelayKeeps
  <2>4. ASSUME NEW previous \in Tick, NEW n \in Delay, vTaskDelayUntil(previous, n)
        PROVE  IInv'
    BY <2>4, vTaskDelayUntilKeeps
  <2>5. ASSUME NEW e \in EventList, NEW n \in Wait, WaitOn(e, n) PROVE IInv'
    BY <2>5, WaitOnKeeps
  <2>6. ASSUME NEW e \in EventList, wake_up(e) PROVE IInv'
    BY <2>6, CallFacts, StartWakingKeeps DEF wake_up
  <2>7. CASE taskYIELD \/ vTaskSuspendAll \/ uxTaskGetSystemState
    BY <2>7, taskYIELDKeeps, vTaskSuspendAllKeeps, uxTaskGetSystemStateKeeps
  <2> QED BY <1>1, <2>1, <2>2, <2>3, <2>4, <2>5, <2>6, <2>7 DEF CallNext
<1>2. CASE TaskNext
  BY <1>2, xTaskResumeAllKeeps, portYIELDKeeps, IdleLooksKeeps, IdleReapsKeeps,
     IdleReapedKeeps, IdleYieldsKeeps DEF TaskNext
<1>3. CASE KernelNext
  BY <1>3, DrainPendingReadyKeeps, DrainDoneKeeps, PendedTickKeeps,
     ResumeAllDoneKeeps, UnblockHeadKeeps, UnblockDoneKeeps, TickISRReturnKeeps,
     PendedTickReturnKeeps, WakeNextKeeps DEF KernelNext
<1>4. CASE InterruptNext
  <2>1. ASSUME NEW e \in EventList, wake_up_from_isr(e) PROVE IInv'
    BY <2>1, StartWakingKeeps DEF wake_up_from_isr, Interrupt
  <2>2. ASSUME NEW t \in Task, xTaskResumeFromISR(t) PROVE IInv'
    BY <2>2, xTaskResumeFromISRKeeps
  <2> QED BY <1>4, <2>1, <2>2, TickISRKeeps DEF InterruptNext
<1>5. CASE UNCHANGED vars
  BY <1>5, StutterKeeps
<1> QED BY <1>1, <1>2, <1>3, <1>4, <1>5 DEF Next

\* The scheduler's lists, its tasks, its running task and its counters fit
\* together in every state, between any two calls, loop steps and interrupts.
THEOREM Inductive == Spec => []IInv
<1>1. Init => IInv
  BY InitIInv
<1>2. IInv /\ [Next]_vars => IInv'
  BY NextIInv
<1> QED BY <1>1, <1>2, PTL DEF Spec

-----------------------------------------------------------------------------
(***************************************************************************)
(* The properties that follow.                                             *)
(***************************************************************************)
\* The invariant speaks of the sets of the lists, the properties of members.
LEMMA ListMembers ==
    ASSUME IInv, NEW t \in AllTasks
    PROVE  /\ Contains(pxDelayedTaskList, t) <=> InDelayed(t)
           /\ Contains(pxOverflowDelayedTaskList, t) <=> InOverflow(t)
           /\ Contains(xSuspendedTaskList, t) <=> InSuspended(t)
           /\ Contains(xTasksWaitingTermination, t) <=> InTermination(t)
           /\ Contains(xPendingReadyList, t) <=> InPending(t)
           /\ \A e \in EventList :
                 Contains(xEventLists[e], t) <=> t \in ToSet(xEventLists[e])
           /\ \A p \in Level : Contains(pxReadyTasksLists[p], t) <=>
                               t \in ItemsOf(pxReadyTasksLists[p])
<1>1. /\ pxDelayedTaskList \in Seq(AllTasks)
      /\ pxOverflowDelayedTaskList \in Seq(AllTasks)
      /\ xSuspendedTaskList \in Seq(AllTasks)
      /\ xTasksWaitingTermination \in Seq(AllTasks)
      /\ xPendingReadyList \in Seq(AllTasks)
      /\ \A e \in EventList : xEventLists[e] \in Seq(AllTasks)
  BY DEF IInv, DelayedOK, ParkedOK, EventsOK, IsList
<1>2. /\ Contains(pxDelayedTaskList, t) <=> InDelayed(t)
      /\ Contains(pxOverflowDelayedTaskList, t) <=> InOverflow(t)
      /\ Contains(xSuspendedTaskList, t) <=> InSuspended(t)
      /\ Contains(xTasksWaitingTermination, t) <=> InTermination(t)
      /\ Contains(xPendingReadyList, t) <=> InPending(t)
  BY <1>1, ContainsIsIn
     DEF InDelayed, InOverflow, InSuspended, InTermination, InPending
<1>3. ASSUME NEW p \in Level
      PROVE  Contains(pxReadyTasksLists[p], t) <=>
             t \in ItemsOf(pxReadyTasksLists[p])
  <2>1. IsRing(pxReadyTasksLists[p], AllTasks)
    BY DEF IInv, ReadyOK
  <2>2. pxReadyTasksLists[p] \in Seq(AllTasks \cup {ListEnd})
    BY <2>1 DEF IsRing, IsList
  <2> QED BY <2>1, <2>2, ContainsIsIn, RingItems, ConstantFacts
<1>4. \A e \in EventList :
         Contains(xEventLists[e], t) <=> t \in ToSet(xEventLists[e])
  BY <1>1, ContainsIsIn
<1> QED BY <1>2, <1>3, <1>4

LEMMA IInvType == ASSUME IInv PROVE TypeOK
BY DEF IInv, TypeOK, ListType, ReadyOK, DelayedOK, ParkedOK, EventsOK, IsList

LEMMA IInvOneList == ASSUME IInv PROVE EachTaskInOneList
<1>1. DOMAIN GenericList = -4..MAX_PRIORITIES - 1
  BY DEF GenericList
<1>2. /\ GenericList[-1] = pxDelayedTaskList
      /\ GenericList[-2] = pxOverflowDelayedTaskList
      /\ GenericList[-3] = xSuspendedTaskList
      /\ GenericList[-4] = xTasksWaitingTermination
      /\ \A p \in Level : GenericList[p] = pxReadyTasksLists[p]
  BY SizeAssumption DEF GenericList, Level
<1>3. DOMAIN GenericList = Level \cup {-1, -2, -3, -4}
  BY <1>1, SizeAssumption DEF Level
<1>4. \A l \in DOMAIN GenericList : NoRepeats(GenericList[l])
  BY <1>2, <1>3
     DEF IInv, ReadyOK, DelayedOK, ParkedOK, IsRing, IsList
<1>5. ASSUME NEW t \in AllTasks
      PROVE  LET lists == {l \in DOMAIN GenericList : Contains(GenericList[l], t)}
             IN  IF Exists(t)
                 THEN \E l \in lists : lists = {l}
                 ELSE lists = {}
  <2> DEFINE lists == {l \in DOMAIN GenericList : Contains(GenericList[l], t)}
  <2>1. /\ -1 \in lists <=> InDelayed(t)
        /\ -2 \in lists <=> InOverflow(t)
        /\ -3 \in lists <=> InSuspended(t)
        /\ -4 \in lists <=> InTermination(t)
        /\ \A p \in Level : p \in lists <=> t \in ItemsOf(pxReadyTasksLists[p])
    BY <1>2, <1>3, ListMembers
  <2>2. lists \subseteq Level \cup {-1, -2, -3, -4}
    BY <1>3
  <2> HIDE DEF lists
  <2>3. InOneList(t) /\ AtItsLevel(t)
    BY DEF IInv, TaskOK
  <2>4. Level \cap {-1, -2, -3, -4} = {}
    BY DEF Level
  <2> SUFFICES IF Exists(t) THEN \E l \in lists : lists = {l} ELSE lists = {}
    BY DEF lists
  <2>5. CASE ~ Exists(t)
    <3>1. lists = {}
      BY <2>1, <2>2, <2>3, <2>5 DEF InOneList, InReady, Exists
    <3> QED BY <2>5, <3>1
  <2>6. CASE InReady(t)
    <3>1. PICK p \in Level : t \in ItemsOf(pxReadyTasksLists[p])
      BY <2>6 DEF InReady
    <3>2. \A q \in Level : q \in lists => q = p
      BY <2>1, <2>3, <3>1 DEF AtItsLevel
    <3>3. -1 \notin lists /\ -2 \notin lists /\ -3 \notin lists /\ -4 \notin lists
      BY <2>1, <2>3, <2>6 DEF InOneList
    <3>4. lists = {p}
      BY <2>1, <2>2, <3>1, <3>2, <3>3
    <3>5. Exists(t)
      BY <2>3, <2>6 DEF InOneList, Exists
    <3> QED BY <3>4, <3>5
  <2>7. CASE Exists(t) /\ ~ InReady(t)
    <3>1. \A p \in Level : p \notin lists
      BY <2>1, <2>7 DEF InReady
    <3>2. InDelayed(t) \/ InOverflow(t) \/ InSuspended(t) \/ InTermination(t)
      BY <2>3, <2>7 DEF InOneList, Exists
    <3>3. \E l \in {-1, -2, -3, -4} : lists = {l}
      BY <2>1, <2>2, <2>3, <3>1, <3>2 DEF InOneList
    <3> QED BY <2>7, <3>3
  <2> QED BY <2>5, <2>6, <2>7
<1> QED BY <1>4, <1>5 DEF EachTaskInOneList

LEMMA IInvWaiters == ASSUME IInv PROVE WaitersAreBlocked
<1>1. NoRepeats(xPendingReadyList) /\ \A e \in EventList : NoRepeats(xEventLists[e])
  BY DEF IInv, EventsOK, IsList
<1>2. ASSUME NEW t \in AllTasks
      PROVE  /\ WaitsForEvent(t) => Blocked(t) /\ ~ Contains(xPendingReadyList, t)
             /\ Contains(xPendingReadyList, t) => Blocked(t)
             /\ \A e, f \in EventList :
                   Contains(xEventLists[e], t) /\ Contains(xEventLists[f], t)
                   => e = f
  <2>1. WaitsBlocked(t)
    BY DEF IInv, TaskOK
  <2>2. /\ WaitsForEvent(t) <=> InEvents(t)
        /\ Contains(xPendingReadyList, t) <=> InPending(t)
        /\ Blocked(t) <=> InDelayed(t) \/ InOverflow(t) \/ InSuspended(t)
        /\ \A e \in EventList :
              Contains(xEventLists[e], t) <=> t \in ToSet(xEventLists[e])
    BY ListMembers DEF WaitsForEvent, InEvents, Blocked, Sleeping
  <2> QED BY <2>1, <2>2 DEF WaitsBlocked
<1> QED BY <1>1, <1>2 DEF WaitersAreBlocked

LEMMA IInvReady == ASSUME IInv PROVE ReadyByPriority
<1>1. ASSUME NEW p \in Level, NEW t \in ItemsOf(pxReadyTasksLists[p])
      PROVE  uxPriority[t] = p /\ p <= uxTopReadyPriority
  <2>1. t \in AllTasks
    BY <1>1, RingItems, ConstantFacts DEF IInv, ReadyOK
  <2>2. p <= uxTopReadyPriority
    BY <1>1 DEF IInv, ReadyOK
  <2>3. uxPriority[t] = p
    BY <1>1, <2>1 DEF IInv, TaskOK, AtItsLevel
  <2> QED BY <2>2, <2>3
<1> QED BY <1>1 DEF ReadyByPriority

\* Every variable keeps its type.
THEOREM TypeCorrect == Spec => []TypeOK
<1>1. IInv => TypeOK
  BY IInvType
<1> QED BY <1>1, Inductive, PTL

\* Every task that exists is in exactly one of the scheduler's lists, once.
THEOREM OneList == Spec => []EachTaskInOneList
<1>1. IInv => EachTaskInOneList
  BY IInvOneList
<1> QED BY <1>1, Inductive, PTL

\* A task in an event list, or about to be made ready, is blocked, and it is
\* in one of these lists only.
THEOREM Waiters == Spec => []WaitersAreBlocked
<1>1. IInv => WaitersAreBlocked
  BY IInvWaiters
<1> QED BY <1>1, Inductive, PTL

\* No task is left on xPendingReadyList once the scheduler has been resumed.
THEOREM Pending == Spec => []PendingOnlyWhenSuspended
<1>1. IInv => PendingOnlyWhenSuspended
  BY DEF IInv, Control, Loops, PendingOnlyWhenSuspended
<1> QED BY <1>1, Inductive, PTL

\* A ready task is in the list of its priority, which the selection reaches.
THEOREM ReadyLevels == Spec => []ReadyByPriority
<1>1. IInv => ReadyByPriority
  BY IInvReady
<1> QED BY <1>1, Inductive, PTL

\* The numbers of tasks and of deleted tasks are what the lists say, and the
\* idle task's look at the termination list is still true when it acts on it.
THEOREM Counted == Spec => []CountsAgree
<1>1. IInv => CountsAgree
  BY DEF IInv
<1> QED BY <1>1, Inductive, PTL

-----------------------------------------------------------------------------
(***************************************************************************)
(* Suspending the scheduler.                                               *)
(***************************************************************************)
LEMMA ReadyMembers ==
    ASSUME NEW lists, NEW top, ReadyOK(lists, top), NEW t \in AllTasks,
           NEW p \in Level
    PROVE  Contains(lists[p], t) <=> t \in ItemsOf(lists[p])
<1>1. IsRing(lists[p], AllTasks)
  BY DEF ReadyOK
<1>2. lists[p] \in Seq(AllTasks \cup {ListEnd})
  BY <1>1 DEF IsRing, IsList
<1> QED BY <1>1, <1>2, ContainsIsIn, RingItems, ConstantFacts

\* A step that leaves the running task and the sets of the ready lists alone.
LEMMA SameReadyKeeps ==
    ASSUME IInv, ReadyOK(pxReadyTasksLists, uxTopReadyPriority)',
           pxCurrentTCB' = pxCurrentTCB,
           \A p \in Level :
              ItemsOf(pxReadyTasksLists'[p]) = ItemsOf(pxReadyTasksLists[p])
    PROVE  KeepsProcessor
<1>1. ASSUME NEW t \in AllTasks, Blocked(t) PROVE ~ Ready(t)'
  <2>1. ~ InReady(t)
    BY <1>1, ListMembers DEF IInv, TaskOK, InOneList, Blocked, Sleeping
  <2>2. \A p \in Level : t \notin ItemsOf(pxReadyTasksLists'[p])
    BY <2>1 DEF InReady
  <2>3. \A p \in Level : ~ Contains(pxReadyTasksLists'[p], t)
    BY <2>2, ReadyMembers
  <2> QED BY <2>3 DEF Ready
<1> QED BY <1>1 DEF KeepsProcessor

\* A step that leaves the ready lists alone.
LEMMA UntouchedKeeps ==
    ASSUME IInv, UNCHANGED ready, pxCurrentTCB' = pxCurrentTCB
    PROVE  KeepsProcessor
<1>1. /\ pxReadyTasksLists' = pxReadyTasksLists
      /\ uxTopReadyPriority' = uxTopReadyPriority
  BY DEF ready
<1>2. ReadyOK(pxReadyTasksLists, uxTopReadyPriority)'
  BY <1>1 DEF IInv
<1> QED BY <1>1, <1>2, SameReadyKeeps

LEMMA SuspendedStep ==
    ASSUME IInv, [Next]_vars, uxSchedulerSuspended > 0 PROVE KeepsProcessor
<1>1. /\ mode \in {"task", "wake"} /\ uxSchedulerSuspended # 0
      /\ pc[pxCurrentTCB] \notin {"yield", "deleted", "reap", "reaped"}
  BY DEF IInv, CountType, Control, Loops, SuspendedPlaces, InSection
<1>2. CASE CallNext
  <2>1. CASE vTaskSuspendAll
    BY <2>1, UntouchedKeeps DEF vTaskSuspendAll
  <2>2. CASE uxTaskGetSystemState
    BY <2>2, SystemStateReady, SameReadyKeeps DEF uxTaskGetSystemState
  <2>3. \A name : ~ Call(name)
    BY <1>1 DEF Call
  <2> QED BY <1>2, <2>1, <2>2, <2>3, Zenon
          DEF CallNext, vTaskDelete, vTaskSuspend, vTaskResume,
              xTaskGenericCreate, vTaskPrioritySet, vTaskDelay, vTaskDelayUntil,
              WaitOn, wake_up, taskYIELD
<1>3. CASE TaskNext
  <2>1. CASE xTaskResumeAll
    BY <2>1, UntouchedKeeps DEF xTaskResumeAll
  <2>2. CASE IdleLooks
    BY <2>2, UntouchedKeeps DEF IdleLooks
  <2>3. CASE IdleReaped
    BY <2>3, UntouchedKeeps DEF IdleReaped
  <2>4. ~ portYIELD_WITHIN_API /\ ~ IdleReaps /\ ~ IdleYields
    BY <1>1 DEF portYIELD_WITHIN_API, IdleReaps, IdleYields, InIdle, InTask
  <2> QED BY <1>3, <2>1, <2>2, <2>3, <2>4 DEF TaskNext
<1>4. CASE KernelNext
  <2>1. CASE WakeNext
    BY <1>1, <2>1, UntouchedKeeps DEF WakeNext, xTaskRemoveFromEventList
  <2> QED BY <1>1, <1>4, <2>1
          DEF KernelNext, DrainPendingReady, DrainDone, PendedTick,
              ResumeAllDone, UnblockHead, UnblockDone, TickISRReturn,
              PendedTickReturn
<1>5. CASE InterruptNext
  <2>1. CASE TickISR
    BY <2>1, UntouchedKeeps DEF TickISR
  <2>2. ASSUME NEW e \in EventList, wake_up_from_isr(e) PROVE KeepsProcessor
    BY <2>2, UntouchedKeeps DEF wake_up_from_isr, StartWaking
  <2>3. ASSUME NEW t \in Task, xTaskResumeFromISR(t) PROVE KeepsProcessor
    BY <1>1, <2>3, UntouchedKeeps DEF xTaskResumeFromISR
  <2> QED BY <1>5, <2>1, <2>2, <2>3 DEF InterruptNext
<1>6. CASE UNCHANGED vars
  BY <1>6, UntouchedKeeps DEF vars
<1> QED BY <1>2, <1>3, <1>4, <1>5, <1>6 DEF Next

\* While the scheduler stays suspended the running task keeps the processor
\* and no blocked task becomes ready, whatever interrupts and calls there are.
THEOREM Suspension == Spec => SuspensionHolds
<1>1. IInv /\ [Next]_vars =>
         [uxSchedulerSuspended > 0 /\ uxSchedulerSuspended' > 0 =>
             KeepsProcessor]_vars
  BY SuspendedStep
<1> QED BY <1>1, Inductive, PTL DEF Spec, SuspensionHolds

-----------------------------------------------------------------------------
(***************************************************************************)
(* The count of ticks.                                                     *)
(***************************************************************************)
LEMMA Multiples ==
    ASSUME NEW T \in Nat \ {0}, NEW d \in Int
    PROVE  /\ T * d \in Int
           /\ d >= 1 => T * d >= T
           /\ d <= -1 => T * d <= -T
OBVIOUS

LEMMA QuotientRemainder ==
    ASSUME NEW T \in Nat \ {0}, NEW a \in Int
    PROVE  a = T * (a \div T) + (a % T) /\ a % T \in 0..T - 1 /\ a \div T \in Int
OBVIOUS

LEMMA SameRemainder ==
    ASSUME NEW T \in Nat \ {0}, NEW q \in Int, NEW r \in 0..T - 1,
           NEW k \in Int, NEW s \in 0..T - 1, T * q + r = T * k + s
    PROVE  r = s
<1>1. T * (q - k) = s - r
  OBVIOUS
<1>2. q - k \in Int
  OBVIOUS
<1> QED BY <1>1, <1>2, Multiples

LEMMA RemainderOfSum ==
    ASSUME NEW T \in Nat \ {0}, NEW a \in Int, NEW b \in Int
    PROVE  ((a % T) + b) % T = (a + b) % T
<1> DEFINE c == (a % T) + b
<1>1. a = T * (a \div T) + (a % T) /\ a % T \in 0..T - 1 /\ a \div T \in Int
  BY QuotientRemainder
<1>2. c \in Int
  BY <1>1
<1>3. c = T * (c \div T) + (c % T) /\ c % T \in 0..T - 1 /\ c \div T \in Int
  BY <1>2, QuotientRemainder
<1>4. /\ a + b = T * ((a + b) \div T) + ((a + b) % T)
      /\ (a + b) % T \in 0..T - 1 /\ (a + b) \div T \in Int
  BY QuotientRemainder
<1>5. PICK u, v, w, x, y :
         /\ u = a \div T /\ v = c \div T /\ w = (a + b) \div T
         /\ x = c % T /\ y = (a + b) % T
  OBVIOUS
<1>6. /\ a + b = T * u + c /\ c = T * v + x /\ a + b = T * w + y
      /\ u \in Int /\ v \in Int /\ w \in Int /\ x \in 0..T - 1 /\ y \in 0..T - 1
  BY <1>1, <1>3, <1>4, <1>5
<1>7. T * (u + v) + x = T * w + y
  BY <1>6
<1>8. u + v \in Int
  BY <1>6
<1>9. x = y
  BY <1>6, <1>7, <1>8, SameRemainder
<1> QED BY <1>5, <1>9

\* Ticks add up, whichever of them come first.
LEMMA TicksAdd ==
    ASSUME NEW time \in Tick, NEW m \in Nat, NEW n \in Nat
    PROVE  TicksAfter(TicksAfter(time, m), n) = TicksAfter(time, m + n)
<1>1. TICKS \in Nat \ {0} /\ time \in Int /\ time + m \in Int /\ n \in Int
  BY SizeAssumption DEF Tick
<1>2. (((time + m) % TICKS) + n) % TICKS = ((time + m) + n) % TICKS
  BY <1>1, RemainderOfSum
<1>3. (time + m) + n = time + (m + n)
  BY <1>1
<1> QED BY <1>2, <1>3 DEF TicksAfter

LEMMA IncrementTickCounts ==
    ASSUME NEW from, xTaskIncrementTick(from)
    PROVE  /\ xTickCount' = TicksAfter(xTickCount, 1)
           /\ mode' \in {"unblock", "slice", "assert"}
           /\ caller' = from
BY DEF xTaskIncrementTick

\* The steps that count or take off no tick.
LEMMA UncountedKeeps ==
    ASSUME TickInv, xTickCount' = xTickCount, ticks' = ticks,
           uxPendedTicks' = uxPendedTicks, Catching' <=> Catching
    PROVE  TickInv'
<1>1. CASE Catching
  BY <1>1 DEF TickInv
<1>2. CASE ~ Catching
  BY <1>2 DEF TickInv
<1> QED BY <1>1, <1>2

LEMMA NextTickInv == ASSUME IInv, TickInv, [Next]_vars PROVE TickInv'
<1>1. /\ xTickCount \in Tick /\ uxPendedTicks \in Nat
      /\ Catching => uxPendedTicks > 0
      /\ ticks = TicksAfter(xTickCount, IF Catching THEN uxPendedTicks - 1
                                                    ELSE uxPendedTicks)
  BY DEF IInv, CountType, TickInv
<1>2. CASE TickISR /\ uxSchedulerSuspended = 0
  <2>1. /\ xTickCount' = TicksAfter(xTickCount, 1)
        /\ mode' \in {"unblock", "slice", "assert"} /\ caller' = "isr"
        /\ mode = "task" /\ uxPendedTicks' = uxPendedTicks
        /\ ticks' = TicksAfter(ticks, 1)
    BY <1>2, IncrementTickCounts DEF TickISR
  <2>2. ~ Catching /\ ~ Catching'
    BY <2>1 DEF Catching
  <2>3. /\ ticks' = TicksAfter(TicksAfter(xTickCount, uxPendedTicks), 1)
        /\ TicksAfter(xTickCount', uxPendedTicks') =
              TicksAfter(TicksAfter(xTickCount, 1), uxPendedTicks)
    BY <1>1, <2>1, <2>2
  <2>4. ticks' = TicksAfter(xTickCount', uxPendedTicks')
    BY <1>1, <2>3, TicksAdd
  <2> QED BY <2>2, <2>4 DEF TickInv
<1>3. CASE TickISR /\ uxSchedulerSuspended # 0
  <2>1. /\ xTickCount' = xTickCount /\ mode' = mode /\ mode = "task"
        /\ uxPendedTicks' = uxPendedTicks + 1
        /\ ticks' = TicksAfter(ticks, 1)
    BY <1>3 DEF TickISR, clock
  <2>2. ~ Catching /\ ~ Catching'
    BY <2>1 DEF Catching
  <2>3. ticks' = TicksAfter(TicksAfter(xTickCount, uxPendedTicks), 1)
    BY <1>1, <2>1, <2>2
  <2>4. ticks' = TicksAfter(xTickCount', uxPendedTicks')
    BY <1>1, <2>1, <2>3, TicksAdd
  <2> QED BY <2>2, <2>4 DEF TickInv
<1>4. CASE PendedTick
  <2>1. /\ xTickCount' = TicksAfter(xTickCount, 1)
        /\ mode' \in {"unblock", "slice", "assert"} /\ caller' = "resume"
        /\ mode = "pended" /\ uxPendedTicks > 0
        /\ uxPendedTicks' = uxPendedTicks /\ ticks' = ticks
    BY <1>4, IncrementTickCounts DEF PendedTick, suspension, counts
  <2>2. ~ Catching /\ Catching'
    BY <2>1 DEF Catching
  <2>3. TicksAfter(xTickCount', uxPendedTicks' - 1) =
           TicksAfter(xTickCount, uxPendedTicks)
    <3>1. uxPendedTicks - 1 \in Nat /\ 1 + (uxPendedTicks - 1) = uxPendedTicks
      BY <1>1, <2>1
    <3>2. TicksAfter(TicksAfter(xTickCount, 1), uxPendedTicks - 1) =
             TicksAfter(xTickCount, 1 + (uxPendedTicks - 1))
      BY <1>1, <3>1, TicksAdd
    <3> QED BY <2>1, <3>1, <3>2
  <2> QED BY <1>1, <2>1, <2>2, <2>3 DEF TickInv
<1>5. CASE PendedTickReturn
  <2>1. /\ mode = "slice" /\ caller = "resume" /\ mode' = "pended"
        /\ uxPendedTicks' = uxPendedTicks - 1
        /\ xTickCount' = xTickCount /\ ticks' = ticks
    BY <1>5 DEF PendedTickReturn, clock, counts
  <2>2. Catching /\ ~ Catching'
    BY <2>1 DEF Catching
  <2> QED BY <1>1, <2>1, <2>2 DEF TickInv
<1>6. CASE TickISRReturn
  <2>1. /\ caller = "isr" /\ caller' = caller /\ xTickCount' = xTickCount
        /\ ticks' = ticks /\ uxPendedTicks' = uxPendedTicks
    BY <1>6 DEF TickISRReturn, clock, counts, suspension
  <2>2. ~ Catching /\ ~ Catching'
    BY <2>1 DEF Catching
  <2> QED BY <2>1, <2>2, UncountedKeeps
<1>7. CASE UnblockDone
  <2>1. /\ mode = "unblock" /\ mode' = "slice" /\ caller' = caller
        /\ xTickCount' = xTickCount /\ ticks' = ticks
        /\ uxPendedTicks' = uxPendedTicks
    BY <1>7 DEF UnblockDone, clock, counts, suspension
  <2>2. Catching' <=> Catching
    BY <2>1 DEF Catching
  <2> QED BY <2>1, <2>2, UncountedKeeps
<1>8. ASSUME mode \in {"task", "drain", "pended", "wake"},
             mode' \in {"task", "drain", "pended", "wake"},
             UNCHANGED <<xTickCount, ticks, uxPendedTicks>>
      PROVE  TickInv'
  <2>1. Catching' <=> Catching
    BY <1>8 DEF Catching
  <2> QED BY <1>8, <2>1, UncountedKeeps
<1>9. CASE xTaskResumeAll
  BY <1>8, <1>9 DEF xTaskResumeAll, clock, counts, InTask
<1>10. CASE DrainDone \/ ResumeAllDone
  BY <1>8, <1>10 DEF DrainDone, ResumeAllDone, clock, counts, suspension
<1>11. CASE WakeNext
  BY <1>8, <1>11 DEF WakeNext, clock, counts, suspension
<1>12. ASSUME NEW e \in EventList, StartWaking(e), mode = "task" PROVE TickInv'
  BY <1>8, <1>12 DEF StartWaking, clock, counts, suspension
<1>13. ASSUME UNCHANGED <<xTickCount, ticks, uxPendedTicks, mode, caller>>
       PROVE  TickInv'
  <2>1. Catching' <=> Catching
    BY <1>13 DEF Catching
  <2> QED BY <1>13, <2>1, UncountedKeeps
<1>14. CASE CallNext
  <2>1. ASSUME NEW t \in Task, NEW p \in Priority,
               \/ vTaskDelete(t) \/ vTaskSuspend(t) \/ vTaskResume(t)
               \/ xTaskGenericCreate(t, p) \/ vTaskPrioritySet(t, p)
        PROVE  TickInv'
    BY <1>13, <2>1
       DEF vTaskDelete, vTaskSuspend, vTaskResume, ResumeNow,
           xTaskGenericCreate, vTaskPrioritySet, clock, counts, suspension, loop
  <2>2. ASSUME NEW n, NEW e, NEW previous,
               vTaskDelay(n) \/ vTaskDelayUntil(previous, n) \/ WaitOn(e, n)
        PROVE  TickInv'
    BY <1>13, <2>2
       DEF vTaskDelay, vTaskDelayUntil, WaitOn, clock, counts, suspension, loop
  <2>3. ASSUME NEW e \in EventList, wake_up(e) PROVE TickInv'
    BY <1>12, <2>3 DEF wake_up, Call, InTask
  <2>4. CASE taskYIELD \/ vTaskSuspendAll \/ uxTaskGetSystemState
    BY <1>13, <2>4
       DEF taskYIELD, vTaskSuspendAll, uxTaskGetSystemState, clock, counts,
           suspension, loop
  <2>5. PICK p : p \in Priority
    BY ArgumentAssumption
  <2> QED BY <1>14, <2>1, <2>2, <2>3, <2>4, <2>5 DEF CallNext
<1>15. CASE TaskNext
  <2>1. CASE portYIELD_WITHIN_API \/ IdleLooks \/ IdleReaps \/ IdleReaped
             \/ IdleYields
    BY <1>13, <2>1
       DEF portYIELD_WITHIN_API, IdleLooks, IdleReaps, IdleReaped, IdleYields,
           clock, counts, suspension, loop
  <2> QED BY <1>9, <1>15, <2>1 DEF TaskNext
<1>16. CASE KernelNext
  <2>1. CASE DrainPendingReady \/ UnblockHead
    BY <1>13, <2>1
       DEF DrainPendingReady, UnblockHead, clock, counts, suspension, loop
  <2> QED BY <1>4, <1>5, <1>6, <1>7, <1>10, <1>11, <1>16, <2>1 DEF KernelNext
<1>17. CASE InterruptNext
  <2>1. ASSUME NEW e \in EventList, wake_up_from_isr(e) PROVE TickInv'
    BY <1>12, <2>1 DEF wake_up_from_isr, Interrupt
  <2>2. ASSUME NEW t \in Task, xTaskResumeFromISR(t) PROVE TickInv'
    BY <1>13, <2>2
       DEF xTaskResumeFromISR, ResumeNow, clock, counts, suspension, loop
  <2> QED BY <1>2, <1>3, <1>17, <2>1, <2>2 DEF InterruptNext
<1>18. CASE UNCHANGED vars
  BY <1>13, <1>18 DEF vars, clock, counts, suspension, loop
<1> QED BY <1>14, <1>15, <1>16, <1>17, <1>18 DEF Next

\* Every interrupt of the timer is counted once, in xTickCount or in
\* uxPendedTicks, whenever it comes, also across the overflow of the count.
THEOREM Ticks == Spec => []TicksAreCounted
<1>1. Init => TickInv
  <2> SUFFICES ASSUME Init PROVE TickInv
    OBVIOUS
  <2>1. /\ mode = "task" /\ ticks = 0 /\ xTickCount = 0 /\ uxPendedTicks = 0
    BY DEF Init
  <2>2. TicksAfter(0, 0) = 0
    BY SizeAssumption DEF TicksAfter
  <2> QED BY <2>1, <2>2 DEF TickInv, Catching
<1>2. IInv /\ TickInv /\ [Next]_vars => TickInv'
  BY NextTickInv
<1>3. TickInv => TicksAreCounted
  BY DEF TickInv, Catching, TicksAreCounted
<1> QED BY <1>1, <1>2, <1>3, Inductive, PTL DEF Spec

-----------------------------------------------------------------------------
(***************************************************************************)
(* The highest priority runs.                                              *)
(***************************************************************************)
\* A switch takes a task of the highest level with a ready one, or is pending.
LEMMA SwitchHighest ==
    ASSUME NEW lists, NEW top, ReadyOK(lists, top),
           vTaskSwitchContext(lists, top), IInv, IInv'
    PROVE  HighInv'
<1>1. CASE uxSchedulerSuspended # 0
  <2>1. xYieldPending' = TRUE
    BY <1>1 DEF vTaskSwitchContext
  <2>2. xYieldPending'
    BY <2>1
  <2> QED BY <2>2, Zenon DEF HighInv, SwitchDue
<1>2. CASE uxSchedulerSuspended = 0
  <2> DEFINE p == HighestReady(lists, top)
             ring == listGET_OWNER_OF_NEXT_ENTRY(lists[p])
  <2>1. p \in Level /\ ItemsOf(lists[p]) # {}
    BY HighestReadyIs
  <2>2. /\ pxReadyTasksLists' = [lists EXCEPT ![p] = ring]
        /\ uxTopReadyPriority' = p
        /\ pxCurrentTCB' = Index(ring)
    BY <1>2 DEF vTaskSwitchContext
  <2>3. Index(ring) \in ItemsOf(lists[p]) /\ ItemsOf(ring) = ItemsOf(lists[p])
    <3>1. IsRing(lists[p], AllTasks)
      BY <2>1 DEF ReadyOK
    <3> QED BY <2>1, <3>1, ConstantFacts, NextEntryRing
  <2> HIDE DEF p, ring
  <2>4. pxReadyTasksLists'[p] = ring
    BY <2>1, <2>2 DEF ReadyOK
  <2>5. pxCurrentTCB' \in ItemsOf(pxReadyTasksLists'[p])
    BY <2>2, <2>3, <2>4
  <2>6. uxPriority'[pxCurrentTCB'] = p
    BY <2>1, <2>5 DEF IInv, TaskOK, AtItsLevel, TcbType
  <2>7. ASSUME NEW u \in AllTasks, InReady(u)'
        PROVE  uxPriority'[u] <= p
    <3>1. PICK q \in Level : u \in ItemsOf(pxReadyTasksLists'[q])
      BY <2>7 DEF InReady
    <3>2. uxPriority'[u] = q
      BY <3>1 DEF IInv, TaskOK, AtItsLevel
    <3>3. q <= uxTopReadyPriority'
      BY <3>1 DEF IInv, ReadyOK
    <3> QED BY <2>2, <3>2, <3>3
  <2> QED BY <2>6, <2>7 DEF HighInv, RunsHighest
<1> QED BY <1>1, <1>2

LEMMA Priorities ==
    ASSUME IInv
    PROVE  /\ pxCurrentTCB \in AllTasks
           /\ \A t \in AllTasks : uxPriority[t] \in Level /\ uxPriority[t] \in Int
<1>1. Level \subseteq Int
  BY DEF Level
<1> QED BY <1>1 DEF IInv, TcbType

\* A step without a switch: one that was due still is, and no task becomes
\* ready above the running one.
LEMMA StaysHighest ==
    ASSUME IInv, IInv', HighInv, pxCurrentTCB' = pxCurrentTCB,
           SwitchDue => SwitchDue',
           uxPriority'[pxCurrentTCB] >= uxPriority[pxCurrentTCB],
           \A u \in AllTasks : InReady(u)' =>
              \/ InReady(u) /\ uxPriority'[u] = uxPriority[u]
              \/ SwitchDue'
              \/ uxPriority'[u] <= uxPriority'[pxCurrentTCB]
    PROVE  HighInv'
<1>1. CASE SwitchDue'
  BY <1>1 DEF HighInv
<1>2. CASE ~ SwitchDue'
  <2>1. RunsHighest
    BY <1>2 DEF HighInv
  <2>2. \A u \in AllTasks : uxPriority[u] \in Int
    BY Priorities
  <2>4. uxPriority[pxCurrentTCB] \in Int
    BY Priorities
  <2>5. \A u \in AllTasks : uxPriority'[u] \in Int
    <3>1. uxPriority' \in [AllTasks -> Level] /\ Level \subseteq Int
      BY DEF IInv, TcbType, Level
    <3> QED BY <3>1
  <2>6. uxPriority'[pxCurrentTCB] \in Int
    BY <2>5, Priorities
  <2>3. RunsHighest'
    BY <1>2, <2>1, <2>2, <2>4, <2>5, <2>6 DEF RunsHighest
  <2> QED BY <2>3 DEF HighInv
<1> QED BY <1>1, <1>2

\* A step that leaves the ready lists and the priorities alone.
LEMMA IdleHighest ==
    ASSUME IInv, IInv', HighInv, pxCurrentTCB' = pxCurrentTCB,
           UNCHANGED <<pxReadyTasksLists, uxPriority>>, SwitchDue => SwitchDue'
    PROVE  HighInv'
<1>1. \A u \in AllTasks : InReady(u)' <=> InReady(u)
  BY DEF InReady
<1>2. uxPriority[pxCurrentTCB] \in Int
  BY Priorities
<1> QED BY <1>1, <1>2, StaysHighest

LEMMA WithReadyTasks ==
    ASSUME IInv, NEW t \in AllTasks, ~ InReady(t), NEW p \in Level,
           pxReadyTasksLists' = WithReady(pxReadyTasksLists, t, p)
    PROVE  \A u \in AllTasks : InReady(u)' <=> InReady(u) \/ u = t
<1> DEFINE lists == WithReady(pxReadyTasksLists, t, p)
<1>1. t \notin ItemsOf(pxReadyTasksLists[p])
  BY DEF InReady
<1>2. /\ ItemsOf(lists[p]) = ItemsOf(pxReadyTasksLists[p]) \cup {t}
      /\ \A q \in Level : q # p =>
            ItemsOf(lists[q]) = ItemsOf(pxReadyTasksLists[q])
  BY <1>1, WithReadyOK DEF IInv
<1>3. pxReadyTasksLists' = lists
  OBVIOUS
<1> HIDE DEF lists
<1> QED BY <1>2, <1>3 DEF InReady

LEMMA MovedReadyTasks ==
    ASSUME IInv, NEW t \in Task, NEW p \in Level,
           pxReadyTasksLists' = WithReady(ReadyWithout(t), t, p)
    PROVE  \A u \in AllTasks : InReady(u)' <=> InReady(u) \/ u = t
<1> DEFINE lists == WithReady(ReadyWithout(t), t, p)
<1>1. t \in AllTasks /\ t # Idle
  BY ConstantFacts
<1>2. /\ ItemsOf(lists[p]) = ItemsOf(pxReadyTasksLists[p]) \cup {t}
      /\ \A q \in Level : q # p =>
            ItemsOf(lists[q]) = ItemsOf(pxReadyTasksLists[q]) \ {t}
  BY <1>1, MovedReadyOK DEF IInv
<1>3. pxReadyTasksLists' = lists
  OBVIOUS
<1> HIDE DEF lists
<1> QED BY <1>2, <1>3 DEF InReady

LEMMA WithoutReadyTasks ==
    ASSUME IInv, NEW t \in AllTasks, pxReadyTasksLists' = ReadyWithout(t)
    PROVE  \A u \in AllTasks : InReady(u)' <=> InReady(u) /\ u # t
<1> DEFINE lists == ReadyWithout(t)
<1>1. \A q \in Level :
         ItemsOf(lists[q]) = ItemsOf(pxReadyTasksLists[q]) \ {t}
  BY ReadyWithoutOK DEF IInv
<1>2. pxReadyTasksLists' = lists
  OBVIOUS
<1> HIDE DEF lists
<1> QED BY <1>1, <1>2 DEF InReady

\* Where a call starts, a switch is due only when one is pending.
LEMMA CallDue ==
    ASSUME NEW name, Call(name), IInv PROVE SwitchDue <=> xYieldPending
BY CallFacts DEF SwitchDue

-----------------------------------------------------------------------------
LEMMA CreateHighest ==
    ASSUME IInv, IInv', HighInv, NEW t \in Task, NEW p \in Priority,
           xTaskGenericCreate(t, p)
    PROVE  HighInv'
<1>1. /\ t \in AllTasks /\ pc[t] = "none" /\ pc[pxCurrentTCB] = "run"
      /\ p \in Level /\ pxCurrentTCB \in AllTasks /\ mode = "task"
      /\ pxReadyTasksLists' = WithReady(pxReadyTasksLists, t, p)
      /\ uxPriority' = [uxPriority EXCEPT ![t] = p]
      /\ pc' = [pc EXCEPT ![t] = "run",
                          ![pxCurrentTCB] = IF uxPriority[pxCurrentTCB] < p
                                            THEN "yield" ELSE "run"]
      /\ UNCHANGED <<pxCurrentTCB, xYieldPending>>
  BY ConstantFacts, ArgumentAssumption, CallFacts
     DEF xTaskGenericCreate, IInv, TcbType
<1>2. ~ InReady(t)
  BY <1>1 DEF IInv, TaskOK, InOneList
<1>3. \A u \in AllTasks : InReady(u)' <=> InReady(u) \/ u = t
  BY <1>1, <1>2, WithReadyTasks
<1>4. SwitchDue => SwitchDue'
  <2>1. SwitchDue <=> xYieldPending
    BY CallDue DEF xTaskGenericCreate
  <2> QED BY <1>1, <2>1, Zenon DEF SwitchDue
<1>5. /\ uxPriority'[t] = p
      /\ \A u \in AllTasks : u # t => uxPriority'[u] = uxPriority[u]
      /\ uxPriority[pxCurrentTCB] \in Int /\ p \in Int
  BY <1>1, ConstantFacts DEF IInv, TcbType
<1>6. CASE uxPriority[pxCurrentTCB] < p
  <2>1. pc'[pxCurrentTCB'] = "yield"
    BY <1>1, <1>6 DEF IInv, TcbType
  <2> QED BY <2>1 DEF HighInv, SwitchDue
<1>7. CASE ~ (uxPriority[pxCurrentTCB] < p)
  <2>1. p <= uxPriority[pxCurrentTCB] /\ pxCurrentTCB # t
    BY <1>1, <1>5, <1>7
  <2> QED BY <1>1, <1>3, <1>4, <1>5, <2>1, StaysHighest
<1> QED BY <1>6, <1>7

LEMMA RemovalHighest ==
    ASSUME IInv, IInv', HighInv, NEW t \in AllTasks,
           NEW name, Call(name), pxReadyTasksLists' = ReadyWithout(t),
           UNCHANGED <<uxPriority, pxCurrentTCB, xYieldPending, mode,
                       xSwitchRequired>>,
           \/ t = pxCurrentTCB /\ pc'[t] \in {"yield", "deleted", "delay"}
           \/ t # pxCurrentTCB
    PROVE  HighInv'
<1>1. CASE t = pxCurrentTCB
  <2>1. pc'[pxCurrentTCB'] \in {"yield", "deleted", "delay"}
    BY <1>1
  <2> QED BY <2>1 DEF HighInv, SwitchDue
<1>2. CASE t # pxCurrentTCB
  <2>1. \A u \in AllTasks : InReady(u)' => InReady(u)
    BY WithoutReadyTasks
  <2>2. SwitchDue => SwitchDue'
    <3>1. SwitchDue <=> xYieldPending
      BY CallDue
    <3> QED BY <3>1, Zenon DEF SwitchDue
  <2>3. uxPriority[pxCurrentTCB] \in Int
    BY Priorities
  <2> QED BY <2>1, <2>2, <2>3, StaysHighest
<1> QED BY <1>1, <1>2

LEMMA ResumeHighest ==
    ASSUME IInv, IInv', HighInv, NEW t \in Task, mode = "task",
           uxSchedulerSuspended = 0, xTaskIsTaskSuspended(t), ResumeNow(t)
    PROVE  HighInv'
<1>1. t \in AllTasks /\ uxPriority[t] \in Level /\ ~ InReady(t)
      /\ pxCurrentTCB \in AllTasks
  <2>1. t \in AllTasks
    BY ConstantFacts
  <2>2. InSuspended(t)
    BY <2>1, ListMembers DEF xTaskIsTaskSuspended
  <2> QED BY <2>1, <2>2, WhereTasksAre DEF IInv, TcbType
<1> DEFINE p == uxPriority[t]
           lists == WithReady(pxReadyTasksLists, t, p)
           top == Larger(p, uxTopReadyPriority)
<1>2. CASE Preempts(t)
  <2>1. vTaskSwitchContext(lists, top)
    BY <1>2 DEF ResumeNow, SwitchIf
  <2>2. t \notin ItemsOf(pxReadyTasksLists[p])
    BY <1>1 DEF InReady
  <2>3. ReadyOK(lists, top)
    BY <1>1, <2>2, WithReadyOK DEF IInv
  <2> QED BY <2>1, <2>3, SwitchHighest
<1>3. CASE ~ Preempts(t)
  <2>1. /\ pxReadyTasksLists' = lists
        /\ UNCHANGED <<pxCurrentTCB, xYieldPending>>
    BY <1>3 DEF ResumeNow, SwitchIf
  <2>2. UNCHANGED <<tcb, loop>>
    BY DEF ResumeNow
  <2>3. \A u \in AllTasks : InReady(u)' <=> InReady(u) \/ u = t
    BY <1>1, <2>1, WithReadyTasks
  <2>4. SwitchDue => SwitchDue'
    BY <2>1, <2>2, Zenon DEF SwitchDue, tcb, loop
  <2>5. /\ uxPriority[t] <= uxPriority[pxCurrentTCB]
        /\ uxPriority[pxCurrentTCB] \in Int /\ uxPriority' = uxPriority
    <3>1. uxPriority[t] \in Int /\ uxPriority[pxCurrentTCB] \in Int
      BY <1>1, Priorities
    <3> QED BY <1>3, <2>2, <3>1 DEF Preempts, tcb
  <2> QED BY <2>1, <2>3, <2>4, <2>5, StaysHighest
<1> QED BY <1>2, <1>3

LEMMA PrioritySetHighest ==
    ASSUME IInv, IInv', HighInv, NEW t \in Task, NEW p \in Priority,
           vTaskPrioritySet(t, p)
    PROVE  HighInv'
<1> DEFINE used == uxPriority[t]
           new == IF uxBasePriority[t] = used THEN p ELSE used
           listed == t \in ItemsOf(pxReadyTasksLists[used])
           yield == IF p > uxBasePriority[t]
                    THEN t # pxCurrentTCB /\ p >= uxPriority[pxCurrentTCB]
                    ELSE t = pxCurrentTCB
           lists == IF listed THEN WithReady(ReadyWithout(t), t, new)
                              ELSE pxReadyTasksLists
           top == IF listed THEN Larger(new, uxTopReadyPriority)
                            ELSE uxTopReadyPriority
<1>1. /\ mode = "task" /\ pc[pxCurrentTCB] = "run" /\ uxSchedulerSuspended = 0
      /\ InReady(pxCurrentTCB) /\ (SwitchDue <=> xYieldPending)
  BY CallFacts, CallDue DEF vTaskPrioritySet
<1>2. /\ t \in AllTasks /\ t # Idle /\ p \in Level /\ p \in Int
      /\ used \in Level /\ used \in Int /\ new \in Level
      /\ uxBasePriority[t] \in Int /\ uxPriority[pxCurrentTCB] \in Int
  <2>1. /\ t \in AllTasks /\ t # Idle /\ p \in Level /\ Level \subseteq Int
    BY ConstantFacts, ArgumentAssumption DEF Level
  <2>2. uxBasePriority[t] \in Level
    BY <2>1 DEF IInv, TcbType
  <2> QED BY <2>1, <2>2, Priorities
<1>3. /\ uxPriority' = [uxPriority EXCEPT ![t] = new]
      /\ p # uxBasePriority[t]
      /\ SwitchIf(yield, lists, top)
  BY DEF vTaskPrioritySet
<1>4. UNCHANGED <<pc, loop>>
  BY DEF vTaskPrioritySet
<1>5. /\ uxPriority'[t] = new
      /\ \A u \in AllTasks : u # t => uxPriority'[u] = uxPriority[u]
  BY <1>2, <1>3 DEF IInv, TcbType
<1>6. CASE yield
  <2>1. vTaskSwitchContext(lists, top)
    BY <1>3, <1>6 DEF SwitchIf
  <2>2. ReadyOK(lists, top)
    BY <1>2, MovedReadyOK DEF IInv
  <2> QED BY <2>1, <2>2, SwitchHighest
<1>7. CASE ~ yield
  <2>1. /\ pxReadyTasksLists' = lists
        /\ UNCHANGED <<pxCurrentTCB, xYieldPending>>
    BY <1>3, <1>7 DEF SwitchIf
  <2>2. SwitchDue => SwitchDue'
    BY <1>1, <2>1, Zenon DEF SwitchDue
  <2>3. \A u \in AllTasks : InReady(u)' <=> InReady(u)
    <3>1. CASE listed
      <4>1. pxReadyTasksLists' = WithReady(ReadyWithout(t), t, new)
        BY <2>1, <3>1
      <4>2. InReady(t)
        BY <1>2, <3>1 DEF InReady
      <4> QED BY <1>2, <4>1, <4>2, MovedReadyTasks
    <3>2. CASE ~ listed
      BY <2>1, <3>2 DEF InReady
    <3> QED BY <3>1, <3>2
  <2>4. CASE SwitchDue
    BY <2>2, <2>4 DEF HighInv
  <2>5. CASE RunsHighest
    <3>1. uxPriority'[pxCurrentTCB] >= uxPriority[pxCurrentTCB]
      BY <1>2, <1>3, <1>5, <1>7, Priorities
    <3>2. \A u \in AllTasks : u # t /\ InReady(u)' =>
             InReady(u) /\ uxPriority'[u] = uxPriority[u]
      BY <1>5, <2>3
    <3>3. InReady(t)' => uxPriority'[t] <= uxPriority'[pxCurrentTCB]
      <4>1. CASE t = pxCurrentTCB
        BY <1>2, <1>5, <4>1, ConstantFacts
      <4>2. CASE t # pxCurrentTCB
        <5>1. InReady(t)' => used <= uxPriority[pxCurrentTCB]
          BY <1>2, <2>3, <2>5 DEF RunsHighest
        <5> QED BY <1>2, <1>3, <1>5, <1>7, <4>2, <5>1, Priorities
      <4> QED BY <4>1, <4>2
    <3> QED BY <2>1, <2>2, <3>1, <3>2, <3>3, StaysHighest
  <2> QED BY <2>4, <2>5 DEF HighInv
<1> QED BY <1>6, <1>7

\* A task made ready at its level preempts the running one, or is below it.
LEMMA MadeReadyHighest ==
    ASSUME IInv, IInv', HighInv, NEW t \in AllTasks,
           \A u \in AllTasks : InReady(u)' => InReady(u) \/ u = t,
           UNCHANGED <<uxPriority, pxCurrentTCB>>,
           SwitchDue \/ Preempts(t) => SwitchDue'
    PROVE  HighInv'
<1>1. uxPriority[t] \in Int /\ uxPriority[pxCurrentTCB] \in Int
  BY Priorities
<1>2. ~ Preempts(t) => uxPriority[t] <= uxPriority[pxCurrentTCB]
  BY <1>1 DEF Preempts
<1> QED BY <1>1, <1>2, StaysHighest

LEMMA UnblockHighest ==
    ASSUME IInv, IInv', HighInv, UnblockHead PROVE HighInv'
<1>1. /\ mode = "unblock" /\ pxDelayedTaskList # <<>>
      /\ IsList(pxDelayedTaskList, AllTasks)
  BY DEF UnblockHead, IInv, DelayedOK
<1>2. PICK t \in AllTasks : t = Head(pxDelayedTaskList) /\ InDelayed(t)
  BY <1>1, TailList, ToSetByIndex DEF IsList, InDelayed
<1>3. pxReadyTasksLists' = WithReady(pxReadyTasksLists, t, uxPriority[t])
  BY <1>2 DEF UnblockHead
<1>4. xSwitchRequired' = (xSwitchRequired \/ Preempts(t))
  BY <1>2 DEF UnblockHead
<1>5. UNCHANGED <<pc, mode, uxPriority, pxCurrentTCB, xYieldPending>>
  BY DEF UnblockHead
<1>6. \A u \in AllTasks : InReady(u)' => InReady(u) \/ u = t
  BY <1>2, <1>3, Priorities, WhereTasksAre, WithReadyTasks
<1>7. SwitchDue \/ Preempts(t) => SwitchDue'
  BY <1>1, <1>4, <1>5, Zenon DEF SwitchDue
<1> QED BY <1>5, <1>6, <1>7, MadeReadyHighest

LEMMA DrainHighest ==
    ASSUME IInv, IInv', HighInv, DrainPendingReady PROVE HighInv'
<1>1. /\ mode = "drain" /\ xPendingReadyList # <<>>
      /\ IsList(xPendingReadyList, AllTasks)
  BY DEF DrainPendingReady, IInv, EventsOK
<1>2. PICK t \in AllTasks : t = Head(xPendingReadyList) /\ InPending(t)
  BY <1>1, TailList, ToSetByIndex DEF IsList, InPending
<1>3. pxReadyTasksLists' = WithReady(ReadyWithout(t), t, uxPriority[t])
  BY <1>2 DEF DrainPendingReady
<1>4. xYieldPending' = (xYieldPending \/ Preempts(t))
  BY <1>2 DEF DrainPendingReady
<1>5. UNCHANGED <<pc, loop, uxPriority, pxCurrentTCB>>
  BY DEF DrainPendingReady
<1>6. \A u \in AllTasks : InReady(u)' => InReady(u) \/ u = t
  <2>1. t \in Task
    BY <1>2, WhereTasksAre DEF AllTasks
  <2> QED BY <1>3, <2>1, Priorities, MovedReadyTasks
<1>7. SwitchDue \/ Preempts(t) => SwitchDue'
  BY <1>1, <1>4, <1>5, Zenon DEF SwitchDue
<1> QED BY <1>5, <1>6, <1>7, MadeReadyHighest

LEMMA WakeHighest ==
    ASSUME IInv, IInv', HighInv, WakeNext PROVE HighInv'
<1>1. PICK e \in EventList : e = waking
  BY DEF WakeNext, IInv, Control, Loops
<1>2. /\ mode = "wake" /\ xTaskRemoveFromEventList(e)
      /\ xEventLists[e] # <<>> /\ IsList(xEventLists[e], AllTasks)
  BY <1>1 DEF WakeNext, IInv, Control, Loops, EventsOK
<1>3. PICK t \in AllTasks : t = Head(xEventLists[e]) /\ InEvents(t)
  BY <1>2, TailList, ToSetByIndex DEF IsList, InEvents
<1>4. UNCHANGED <<pc, uxPriority, pxCurrentTCB>>
  BY DEF WakeNext
<1>5. xYieldPending' = (xYieldPending \/ Preempts(t))
  BY <1>2, <1>3 DEF xTaskRemoveFromEventList
<1>6. \A u \in AllTasks : InReady(u)' => InReady(u) \/ u = t
  <2>1. CASE uxSchedulerSuspended = 0
    <3>1. pxReadyTasksLists' = WithReady(ReadyWithout(t), t, uxPriority[t])
      BY <1>2, <1>3, <2>1 DEF xTaskRemoveFromEventList
    <3>2. t \in Task
      BY <1>3, WhereTasksAre DEF AllTasks
    <3> QED BY <3>1, <3>2, Priorities, MovedReadyTasks
  <2>2. CASE uxSchedulerSuspended # 0
    <3>1. pxReadyTasksLists' = pxReadyTasksLists
      BY <1>2, <2>2 DEF xTaskRemoveFromEventList, ready
    <3> QED BY <3>1 DEF InReady
  <2> QED BY <2>1, <2>2
<1>7. SwitchDue \/ Preempts(t) => SwitchDue'
  BY <1>2, <1>4, <1>5, Zenon DEF SwitchDue
<1> QED BY <1>4, <1>6, <1>7, MadeReadyHighest

LEMMA CallHighest ==
    ASSUME IInv, IInv', HighInv, CallNext PROVE HighInv'
<1>1. ASSUME NEW t \in Task, vTaskDelete(t) PROVE HighInv'
  <2>1. /\ Call("vTaskDelete") /\ pxReadyTasksLists' = ReadyWithout(t)
        /\ pc' = [pc EXCEPT ![t] = "deleted"]
        /\ UNCHANGED <<uxPriority, pxCurrentTCB, xYieldPending, loop>>
    BY <1>1 DEF vTaskDelete
  <2>2. t \in AllTasks /\ pc'[t] = "deleted"
    BY <2>1, ConstantFacts DEF IInv, TcbType
  <2> QED BY <2>1, <2>2, RemovalHighest DEF loop
<1>2. ASSUME NEW t \in Task, vTaskSuspend(t) PROVE HighInv'
  <2>1. /\ Call("vTaskSuspend") /\ pxReadyTasksLists' = ReadyWithout(t)
        /\ pc' = IF t = pxCurrentTCB THEN [pc EXCEPT ![t] = "yield"] ELSE pc
        /\ UNCHANGED <<uxPriority, pxCurrentTCB, xYieldPending, loop>>
    BY <1>2 DEF vTaskSuspend
  <2>2. t \in AllTasks /\ (t = pxCurrentTCB => pc'[t] = "yield")
    BY <2>1, ConstantFacts DEF IInv, TcbType
  <2> QED BY <2>1, <2>2, RemovalHighest DEF loop
<1>3. ASSUME NEW t \in Task, vTaskResume(t) PROVE HighInv'
  BY <1>3, CallFacts, ResumeHighest DEF vTaskResume
<1>4. ASSUME NEW t \in Task, NEW p \in Priority,
             xTaskGenericCreate(t, p) \/ vTaskPrioritySet(t, p)
      PROVE  HighInv'
  BY <1>4, CreateHighest, PrioritySetHighest
<1>5. ASSUME NEW place \in {"yield", "delay"},
             GoTo(place), UNCHANGED pxCurrentTCB
      PROVE  HighInv'
  <2>1. pc'[pxCurrentTCB'] = place
    BY <1>5 DEF GoTo, IInv, TcbType
  <2> QED BY <2>1 DEF HighInv, SwitchDue
<1>6. ASSUME NEW n, NEW e, NEW previous,
             vTaskDelay(n) \/ vTaskDelayUntil(previous, n) \/ WaitOn(e, n)
      PROVE  HighInv'
  BY <1>5, <1>6 DEF vTaskDelay, vTaskDelayUntil, WaitOn
<1>7. ASSUME NEW e \in EventList, wake_up(e) PROVE HighInv'
  <2>1. /\ UNCHANGED <<pxReadyTasksLists, uxPriority, pc, pxCurrentTCB,
                       xYieldPending>>
        /\ SwitchDue <=> xYieldPending
    BY <1>7, CallDue DEF wake_up, StartWaking, tcb, ready
  <2>2. SwitchDue => SwitchDue'
    BY <2>1, Zenon DEF SwitchDue
  <2> QED BY <2>1, <2>2, IdleHighest
<1>8. CASE taskYIELD
  BY <1>8, SwitchHighest DEF taskYIELD, IInv
<1>9. CASE vTaskSuspendAll
  <2>1. UNCHANGED <<tcb, ready, loop, pxCurrentTCB, xYieldPending>>
    BY <1>9 DEF vTaskSuspendAll
  <2>2. SwitchDue => SwitchDue'
    BY <2>1, Zenon DEF SwitchDue, tcb, loop
  <2> QED BY <2>1, <2>2, IdleHighest DEF tcb, ready
<1>10. CASE uxTaskGetSystemState
  <2>1. /\ UNCHANGED <<uxPriority, loop, pxCurrentTCB, xYieldPending>>
        /\ pc[pxCurrentTCB] = "run" /\ mode = "task"
    BY <1>10 DEF uxTaskGetSystemState, InTask
  <2>2. SwitchDue => SwitchDue'
    BY <2>1, Zenon DEF SwitchDue, loop
  <2>3. \A p \in Level :
           ItemsOf(pxReadyTasksLists'[p]) = ItemsOf(pxReadyTasksLists[p])
    BY <1>10, SystemStateReady DEF uxTaskGetSystemState
  <2>4. \A u \in AllTasks : InReady(u)' => InReady(u)
    BY <2>3 DEF InReady
  <2>5. uxPriority[pxCurrentTCB] \in Int
    BY Priorities
  <2> QED BY <2>1, <2>2, <2>4, <2>5, StaysHighest
<1> QED BY <1>1, <1>2, <1>3, <1>4, <1>6, <1>7, <1>8, <1>9, <1>10 DEF CallNext

LEMMA TaskHighest ==
    ASSUME IInv, IInv', HighInv, TaskNext PROVE HighInv'
<1>1. CASE xTaskResumeAll
  <2>1. UNCHANGED <<uxPriority, pxReadyTasksLists, xSwitchRequired,
                    pxCurrentTCB, xYieldPending>>
    BY <1>1 DEF xTaskResumeAll, ready
  <2>2. /\ mode = "task"
        /\ pc[pxCurrentTCB] \in {"run", "delay", "state", "looked", "found"}
    BY <1>1 DEF xTaskResumeAll, InTask
  <2>3. pc[pxCurrentTCB] = "delay" => pc'[pxCurrentTCB] \in {"delay", "yield"}
    <3>1. CASE uxSchedulerSuspended = 1
      BY <1>1, <3>1 DEF xTaskResumeAll
    <3>2. CASE uxSchedulerSuspended # 1 /\ pc[pxCurrentTCB] = "delay"
      <4>1. AfterResume("delay", FALSE) = "yield"
        BY DEF AfterResume
      <4>2. pc' = [pc EXCEPT ![pxCurrentTCB] = "yield"]
        BY <1>1, <3>2, <4>1 DEF xTaskResumeAll, GoTo
      <4> QED BY <4>2 DEF IInv, TcbType
    <3> QED BY <3>1, <3>2
  <2>4. SwitchDue => SwitchDue'
    BY <2>1, <2>2, <2>3, Zenon DEF SwitchDue
  <2> QED BY <2>1, <2>4, IdleHighest
<1>2. CASE portYIELD_WITHIN_API
  BY <1>2, SwitchHighest DEF portYIELD_WITHIN_API, IInv
<1>3. CASE IdleLooks \/ IdleReaped
  <2>1. /\ UNCHANGED <<uxPriority, ready, loop, pxCurrentTCB, xYieldPending>>
        /\ pc[pxCurrentTCB] = "run"
    BY <1>3 DEF IdleLooks, IdleReaped, InIdle, InTask
  <2>2. SwitchDue => SwitchDue'
    BY <2>1, Zenon DEF SwitchDue, loop
  <2> QED BY <2>1, <2>2, IdleHighest DEF ready
<1>4. CASE IdleReaps
  <2>1. /\ UNCHANGED <<ready, loop, pxCurrentTCB, xYieldPending>>
        /\ pc[pxCurrentTCB] = "reap" /\ pxCurrentTCB = Idle
    BY <1>4 DEF IdleReaps, InIdle, InTask
  <2>2. PICK t : t = Head(xTasksWaitingTermination)
    OBVIOUS
  <2>3. uxPriority' = [uxPriority EXCEPT ![t] = 0]
    BY <1>4, <2>2 DEF IdleReaps
  <2>4. t \in AllTasks /\ InTermination(t)
    <3>1. xTasksWaitingTermination # <<>>
      BY <2>1 DEF IInv, CountsAgree
    <3> QED BY <2>2, <3>1, TailList, ToSetByIndex
            DEF IInv, ParkedOK, IsList, InTermination
  <2>5. ~ InReady(t) /\ t # Idle
    BY <2>4, WhereTasksAre
  <2>6. \A u \in AllTasks : u # t => uxPriority'[u] = uxPriority[u]
    BY <2>3, <2>4 DEF IInv, TcbType
  <2>7. \A u \in AllTasks : InReady(u)' <=> InReady(u)
    BY <2>1 DEF InReady, ready
  <2>8. SwitchDue => SwitchDue'
    BY <2>1, Zenon DEF SwitchDue, loop
  <2>9. /\ uxPriority[pxCurrentTCB] \in Int
        /\ uxPriority'[pxCurrentTCB] = uxPriority[pxCurrentTCB]
    BY <2>1, <2>5, <2>6, Priorities
  <2> QED BY <2>1, <2>5, <2>6, <2>7, <2>8, <2>9, StaysHighest
<1>5. CASE IdleYields
  <2> DEFINE many == listCURRENT_LIST_LENGTH(pxReadyTasksLists[0]) > 1
  <2>1. /\ UNCHANGED <<uxPriority, loop>> /\ pc[pxCurrentTCB] = "reaped"
        /\ SwitchIf(many, pxReadyTasksLists, uxTopReadyPriority)
    BY <1>5 DEF IdleYields, InIdle, InTask
  <2> HIDE DEF many
  <2>2. CASE many
    <3>1. vTaskSwitchContext(pxReadyTasksLists, uxTopReadyPriority)
      BY <2>1, <2>2 DEF SwitchIf
    <3> QED BY <3>1, SwitchHighest DEF IInv
  <2>3. CASE ~ many
    <3>1. UNCHANGED <<pxReadyTasksLists, pxCurrentTCB, xYieldPending>>
      BY <2>1, <2>3 DEF SwitchIf
    <3>2. SwitchDue => SwitchDue'
      BY <2>1, <3>1, Zenon DEF SwitchDue, loop
    <3> QED BY <2>1, <3>1, <3>2, IdleHighest
  <2> QED BY <2>2, <2>3
<1> QED BY <1>1, <1>2, <1>3, <1>4, <1>5 DEF TaskNext

LEMMA KernelHighest ==
    ASSUME IInv, IInv', HighInv, KernelNext PROVE HighInv'
<1>1. CASE DrainDone \/ UnblockDone
  <2>1. /\ UNCHANGED <<tcb, ready, xSwitchRequired, pxCurrentTCB, xYieldPending>>
        /\ mode \in {"unblock", "slice"} => mode' \in {"unblock", "slice"}
    BY <1>1 DEF DrainDone, UnblockDone
  <2>2. SwitchDue => SwitchDue'
    BY <2>1, Zenon DEF SwitchDue, tcb
  <2> QED BY <2>1, <2>2, IdleHighest DEF tcb, ready
<1>2. CASE PendedTick
  <2>1. UNCHANGED <<tcb, ready, pxCurrentTCB, xYieldPending>> /\ mode = "pended"
    BY <1>2 DEF PendedTick
  <2>2. SwitchDue => SwitchDue'
    BY <2>1, Zenon DEF SwitchDue, tcb
  <2> QED BY <2>1, <2>2, IdleHighest DEF tcb, ready
<1>3. CASE ResumeAllDone
  <2>1. /\ mode = "pended" /\ UNCHANGED uxPriority
        /\ SwitchIf(xYieldPending, pxReadyTasksLists, uxTopReadyPriority)
        /\ pc' = [pc EXCEPT ![pxCurrentTCB] =
                             AfterResume(pc[pxCurrentTCB], xYieldPending)]
    BY <1>3 DEF ResumeAllDone, GoTo
  <2>2. CASE xYieldPending
    <3>1. vTaskSwitchContext(pxReadyTasksLists, uxTopReadyPriority)
      BY <2>1, <2>2 DEF SwitchIf
    <3> QED BY <3>1, SwitchHighest DEF IInv
  <2>3. CASE ~ xYieldPending
    <3>1. UNCHANGED <<pxReadyTasksLists, pxCurrentTCB, xYieldPending>>
      BY <2>1, <2>3 DEF SwitchIf
    <3>2. CASE pc[pxCurrentTCB] = "delay"
      <4>1. AfterResume(pc[pxCurrentTCB], xYieldPending) = "yield"
        BY <2>3, <3>2 DEF AfterResume
      <4>2. pc'[pxCurrentTCB'] = "yield"
        BY <2>1, <3>1, <4>1 DEF IInv, TcbType
      <4> QED BY <4>2 DEF HighInv, SwitchDue
    <3>3. CASE pc[pxCurrentTCB] # "delay"
      <4>1. pc[pxCurrentTCB] \notin {"yield", "deleted"}
        BY <2>1 DEF IInv, Control, SuspendedPlaces, Resuming, InSection
      <4>2. ~ SwitchDue
        BY <2>1, <2>3, <3>3, <4>1, Zenon DEF SwitchDue
      <4> QED BY <2>1, <3>1, <4>2, IdleHighest
    <3> QED BY <3>2, <3>3
  <2> QED BY <2>2, <2>3
<1>4. CASE TickISRReturn
  <2>1. /\ mode = "slice" /\ UNCHANGED tcb
        /\ SwitchIf(SwitchWanted, pxReadyTasksLists, uxTopReadyPriority)
    BY <1>4 DEF TickISRReturn
  <2>2. CASE SwitchWanted
    <3>1. vTaskSwitchContext(pxReadyTasksLists, uxTopReadyPriority)
      BY <2>1, <2>2 DEF SwitchIf
    <3> QED BY <3>1, SwitchHighest DEF IInv
  <2>3. CASE ~ SwitchWanted
    <3>1. UNCHANGED <<pxReadyTasksLists, pxCurrentTCB, xYieldPending>>
      BY <2>1, <2>3 DEF SwitchIf
    <3>2. ~ xSwitchRequired /\ ~ xYieldPending
      BY <2>3, Zenon DEF SwitchWanted
    <3>3. SwitchDue => SwitchDue'
      BY <2>1, <3>1, <3>2, Zenon DEF SwitchDue, tcb
    <3> QED BY <2>1, <3>1, <3>3, IdleHighest DEF tcb
  <2> QED BY <2>2, <2>3
<1>5. CASE PendedTickReturn
  <2>1. /\ UNCHANGED <<tcb, ready, pxCurrentTCB>>
        /\ xYieldPending' = SwitchWanted
    BY <1>5 DEF PendedTickReturn
  <2>2. SwitchDue => SwitchDue'
    BY <2>1, Zenon DEF SwitchDue, SwitchWanted, tcb
  <2> QED BY <2>1, <2>2, IdleHighest DEF tcb, ready
<1> QED BY <1>1, <1>2, <1>3, <1>4, <1>5, UnblockHighest, DrainHighest,
           WakeHighest DEF KernelNext

LEMMA InterruptHighest ==
    ASSUME IInv, IInv', HighInv, InterruptNext PROVE HighInv'
<1>1. ASSUME mode = "task", UNCHANGED <<tcb, ready, pxCurrentTCB, xYieldPending>>
      PROVE  HighInv'
  <2>1. SwitchDue => SwitchDue'
    BY <1>1, Zenon DEF SwitchDue, tcb
  <2> QED BY <1>1, <2>1, IdleHighest DEF tcb, ready
<1>2. CASE TickISR
  BY <1>1, <1>2 DEF TickISR
<1>3. ASSUME NEW e \in EventList, wake_up_from_isr(e) PROVE HighInv'
  BY <1>1, <1>3 DEF wake_up_from_isr, Interrupt, StartWaking
<1>4. ASSUME NEW t \in Task, xTaskResumeFromISR(t) PROVE HighInv'
  BY <1>1, <1>4, ResumeHighest DEF xTaskResumeFromISR, Interrupt
<1> QED BY <1>2, <1>3, <1>4 DEF InterruptNext

LEMMA NextHighInv == ASSUME IInv, IInv', HighInv, [Next]_vars PROVE HighInv'
<1>1. CASE UNCHANGED vars
  <2>1. UNCHANGED <<tcb, ready, loop, pxCurrentTCB, xYieldPending>>
    BY <1>1 DEF vars
  <2>2. SwitchDue => SwitchDue'
    BY <2>1, Zenon DEF SwitchDue, tcb, loop
  <2> QED BY <2>1, <2>2, IdleHighest DEF tcb, ready
<1> QED BY <1>1, CallHighest, TaskHighest, KernelHighest, InterruptHighest
        DEF Next

LEMMA InitHighInv == ASSUME Init PROVE HighInv
<1>1. PICK p \in Priority \ {0} :
         /\ uxPriority = [t \in AllTasks |-> IF t = Main THEN p ELSE 0]
         /\ pxCurrentTCB = Main
  BY DEF Init
<1>2. \A t \in AllTasks : uxPriority[t] <= uxPriority[Main]
  <2>1. p \in Nat /\ Main \in AllTasks
    BY ConstantFacts, ArgumentAssumption
  <2> QED BY <1>1, <2>1
<1> QED BY <1>1, <1>2 DEF HighInv, RunsHighest

LEMMA HighestFollows == ASSUME IInv, HighInv PROVE HighestPriorityRuns
<1> SUFFICES ASSUME mode = "task",
                    pc[pxCurrentTCB] \in {"run", "looked", "found", "reap", "reaped"}
             PROVE  /\ Contains(pxReadyTasksLists[uxPriority[pxCurrentTCB]],
                                pxCurrentTCB)
                    /\ \/ xYieldPending
                       \/ uxSchedulerSuspended > 0
                       \/ \A p \in Level : NonEmpty(pxReadyTasksLists, p) =>
                             p <= uxPriority[pxCurrentTCB]
  BY DEF HighestPriorityRuns
<1>1. Contains(pxReadyTasksLists[uxPriority[pxCurrentTCB]], pxCurrentTCB)
  <2>1. InReady(pxCurrentTCB) /\ AtItsLevel(pxCurrentTCB)
    BY Priorities DEF IInv, TaskOK, Control, RunningReady
  <2>2. pxCurrentTCB \in ItemsOf(pxReadyTasksLists[uxPriority[pxCurrentTCB]])
    BY <2>1 DEF InReady, AtItsLevel
  <2> QED BY <2>2, Priorities, ListMembers
<1>2. CASE SwitchDue
  <2>1. xYieldPending
    BY <1>2, Zenon DEF SwitchDue
  <2> QED BY <1>1, <2>1, Zenon
<1>3. CASE RunsHighest
  <2>1. ASSUME NEW p \in Level, NonEmpty(pxReadyTasksLists, p)
        PROVE  p <= uxPriority[pxCurrentTCB]
    <3>1. ItemsOf(pxReadyTasksLists[p]) # {}
      BY <2>1, NonEmptyItems DEF IInv
    <3>2. PICK u \in ItemsOf(pxReadyTasksLists[p]) : TRUE
      BY <3>1
    <3>3. u \in AllTasks
      BY <3>2, RingItems, ConstantFacts DEF IInv, ReadyOK
    <3>4. uxPriority[u] = p /\ InReady(u)
      BY <3>2, <3>3 DEF IInv, TaskOK, AtItsLevel, InReady
    <3> QED BY <1>3, <3>3, <3>4 DEF RunsHighest
  <2> QED BY <1>1, <2>1, Zenon
<1> QED BY <1>2, <1>3 DEF HighInv

\* The running task is ready and no ready task is above it, unless a switch is
\* pending or the scheduler is suspended: whatever makes a task ready, changes a
\* priority or ends a section leads to the switch that it calls for.
THEOREM HighestRuns == Spec => []HighestPriorityRuns
<1>1. Init => HighInv
  BY InitHighInv
<1>2. IInv /\ IInv' /\ HighInv /\ [Next]_vars => HighInv'
  BY NextHighInv
<1>3. IInv /\ HighInv => HighestPriorityRuns
  BY HighestFollows
<1> QED BY <1>1, <1>2, <1>3, Inductive, PTL DEF Spec

-----------------------------------------------------------------------------
(***************************************************************************)
(* The sleepers.                                                           *)
(***************************************************************************)
LEMMA SleeperTypes ==
    ASSUME IInv
    PROVE  /\ IsList(pxDelayedTaskList, AllTasks)
           /\ IsList(pxOverflowDelayedTaskList, AllTasks)
           /\ pxDelayedTaskList \in Seq(AllTasks)
           /\ pxOverflowDelayedTaskList \in Seq(AllTasks)
           /\ ToSet(pxDelayedTaskList) \subseteq AllTasks
           /\ ToSet(pxOverflowDelayedTaskList) \subseteq AllTasks
           /\ xItemValue \in [AllTasks -> Tick]
           /\ \A t \in AllTasks : xItemValue[t] \in Tick /\ xItemValue[t] \in Int
           /\ xTickCount \in Tick /\ xTickCount \in Int
           /\ xNextTaskUnblockTime \in Tick /\ xNextTaskUnblockTime \in Int
<1>1. Tick \subseteq Int
  BY DEF Tick
<1>2. /\ IsList(pxDelayedTaskList, AllTasks)
      /\ IsList(pxOverflowDelayedTaskList, AllTasks)
      /\ xItemValue \in [AllTasks -> Tick]
      /\ xTickCount \in Tick /\ xNextTaskUnblockTime \in Tick
  BY DEF IInv, DelayedOK, TcbType, CountType
<1> QED BY <1>1, <1>2, ToSetByIndex DEF IsList

\* A step that touches neither the delayed lists nor the time.
LEMMA SleepersStay ==
    ASSUME SleepInv, UNCHANGED <<delayed, xItemValue, xTickCount>>,
           mode' = mode \/ (mode # "unblock" /\ mode' \notin {"unblock", "assert"})
    PROVE  SleepInv'
BY DEF SleepInv, delayed

\* A task is taken out of the list it sleeps in before its time.
LEMMA SleeperLeaves ==
    ASSUME IInv, SleepInv, NEW t \in AllTasks, RemoveFromDelayed(t),
           UNCHANGED xTickCount,
           mode' = mode \/ (mode # "unblock" /\ mode' \notin {"unblock", "assert"})
    PROVE  SleepInv'
<1>1. /\ pxDelayedTaskList' = RemoveFirst(pxDelayedTaskList, t)
      /\ pxOverflowDelayedTaskList' = RemoveFirst(pxOverflowDelayedTaskList, t)
      /\ xItemValue' = [xItemValue EXCEPT ![t] = 0]
      /\ xNextTaskUnblockTime' = xNextTaskUnblockTime
  BY DEF RemoveFromDelayed
<1>2. /\ IsList(pxDelayedTaskList', AllTasks)
      /\ ToSet(pxDelayedTaskList') = ToSet(pxDelayedTaskList) \ {t}
      /\ IsList(pxOverflowDelayedTaskList', AllTasks)
      /\ ToSet(pxOverflowDelayedTaskList') =
            ToSet(pxOverflowDelayedTaskList) \ {t}
  BY <1>1, SleeperTypes, RemoveFirstList
<1>3. \A u \in AllTasks : u # t => xItemValue'[u] = xItemValue[u]
  BY <1>1, SleeperTypes
<1>4. /\ \A u \in ToSet(pxDelayedTaskList') : xItemValue'[u] = xItemValue[u]
      /\ \A u \in ToSet(pxOverflowDelayedTaskList') :
            xItemValue'[u] = xItemValue[u]
  BY <1>2, <1>3, SleeperTypes
<1>5. /\ Sorted(pxDelayedTaskList', xItemValue)
      /\ Sorted(pxOverflowDelayedTaskList', xItemValue)
  BY <1>1, SleeperTypes, RemoveFirstSorted DEF SleepInv
<1>6. /\ Sorted(pxDelayedTaskList', xItemValue')
      /\ Sorted(pxOverflowDelayedTaskList', xItemValue')
  BY <1>2, <1>4, <1>5, SameSorted DEF IsList
<1> QED BY <1>1, <1>2, <1>4, <1>6 DEF SleepInv

\* The running task goes to sleep until another time than now.
LEMMA SleeperComes ==
    ASSUME IInv, SleepInv, mode = "task", mode' = mode,
           InReady(pxCurrentTCB), NEW wake \in Tick, wake # xTickCount,
           AddCurrentToDelayed(wake), UNCHANGED xTickCount
    PROVE  SleepInv'
<1> DEFINE value == [xItemValue EXCEPT ![pxCurrentTCB] = wake]
<1>1. /\ pxCurrentTCB \in AllTasks /\ wake \in Int
      /\ ~ InDelayed(pxCurrentTCB) /\ ~ InOverflow(pxCurrentTCB)
  BY Priorities, WhereTasksAre DEF Tick
<1>2. /\ xItemValue' = value
      /\ value[pxCurrentTCB] = wake
      /\ \A u \in AllTasks : u # pxCurrentTCB => value[u] = xItemValue[u]
      /\ \A u \in AllTasks : value[u] \in Int
  BY <1>1, SleeperTypes DEF AddCurrentToDelayed
<1> DEFINE early == vListInsert(pxDelayedTaskList, pxCurrentTCB, value)
           late == vListInsert(pxOverflowDelayedTaskList, pxCurrentTCB, value)
<1>3. /\ wake < xTickCount =>
            /\ pxOverflowDelayedTaskList' = late
            /\ UNCHANGED <<pxDelayedTaskList, xNextTaskUnblockTime>>
      /\ ~ (wake < xTickCount) =>
            /\ pxDelayedTaskList' = early
            /\ xNextTaskUnblockTime' = IF wake < xNextTaskUnblockTime
                                       THEN wake ELSE xNextTaskUnblockTime
            /\ UNCHANGED pxOverflowDelayedTaskList
  BY DEF AddCurrentToDelayed
<1> HIDE DEF value
<1>4. /\ \A u \in ToSet(pxDelayedTaskList) : value[u] = xItemValue[u]
      /\ \A u \in ToSet(pxOverflowDelayedTaskList) : value[u] = xItemValue[u]
  BY <1>1, <1>2, SleeperTypes DEF InDelayed, InOverflow
<1>5. /\ Sorted(pxDelayedTaskList, value)
      /\ Sorted(pxOverflowDelayedTaskList, value)
  BY <1>4, SleeperTypes, SameSorted DEF SleepInv
<1>6. /\ Sorted(early, value)
      /\ ToSet(early) = ToSet(pxDelayedTaskList) \cup {pxCurrentTCB}
      /\ Sorted(late, value)
      /\ ToSet(late) = ToSet(pxOverflowDelayedTaskList) \cup {pxCurrentTCB}
  BY <1>1, <1>2, <1>5, SleeperTypes, vListInsertSorted, vListInsertList
     DEF InDelayed, InOverflow
<1> HIDE DEF early, late
<1>7. CASE wake < xTickCount
  <2>1. /\ pxOverflowDelayedTaskList' = late
        /\ UNCHANGED <<pxDelayedTaskList, xNextTaskUnblockTime>>
    BY <1>3, <1>7
  <2> QED BY <1>2, <1>4, <1>5, <1>6, <1>7, <2>1 DEF SleepInv
<1>8. CASE ~ (wake < xTickCount)
  <2>1. /\ pxDelayedTaskList' = early
        /\ xNextTaskUnblockTime' \in Int
        /\ xNextTaskUnblockTime' <= wake
        /\ xNextTaskUnblockTime' <= xNextTaskUnblockTime
        /\ UNCHANGED pxOverflowDelayedTaskList
    BY <1>1, <1>3, <1>8, SleeperTypes
  <2>2. wake > xTickCount
    BY <1>1, <1>8, SleeperTypes
  <2>3. \A u \in ToSet(pxDelayedTaskList') :
           value[u] > xTickCount /\ value[u] >= xNextTaskUnblockTime'
    <3>1. \A u \in ToSet(pxDelayedTaskList) :
             /\ value[u] \in Int /\ value[u] > xTickCount
             /\ value[u] >= xNextTaskUnblockTime
      BY <1>2, <1>4, SleeperTypes DEF SleepInv
    <3> QED BY <1>1, <1>2, <1>6, <2>1, <2>2, <3>1, SleeperTypes
  <2>4. \A u \in ToSet(pxDelayedTaskList') : value[u] >= xTickCount
    BY <1>1, <1>2, <1>6, <2>1, <2>3, SleeperTypes
  <2> QED BY <1>2, <1>4, <1>5, <1>6, <2>1, <2>3, <2>4 DEF SleepInv
<1> QED BY <1>7, <1>8

\* A tick: the lists are exchanged when the count overflows, and then no task is
\* left to wake before it.
LEMMA SleepersTick ==
    ASSUME IInv, SleepInv, mode # "unblock", NEW from, xTaskIncrementTick(from),
           UNCHANGED xItemValue
    PROVE  SleepInv'
<1> DEFINE now == TicksAfter(xTickCount, 1)
<1>1. /\ now \in Tick /\ now \in Int /\ xTickCount' = now
      /\ now # 0 => now = xTickCount + 1
      /\ now = 0 => xTickCount = TICKS - 1
  <2>1. TICKS \in Nat \ {0} /\ xTickCount \in 0..TICKS - 1
    BY SizeAssumption, SleeperTypes DEF Tick
  <2>2. now = IF xTickCount = TICKS - 1 THEN 0 ELSE xTickCount + 1
    BY <2>1 DEF TicksAfter
  <2> QED BY <2>1, <2>2 DEF Tick, xTaskIncrementTick
<1>2. /\ mode' = IF ~ AssertionHolds(now) THEN "assert"
                 ELSE IF now >= xNextTaskUnblockTime' THEN "unblock" ELSE "slice"
      /\ IF now = 0 /\ pxDelayedTaskList = <<>>
         THEN SwitchDelayedLists
         ELSE UNCHANGED <<delayed, xNumOfOverflows>>
  BY DEF xTaskIncrementTick
<1> HIDE DEF now
<1>3. CASE now # 0
  <2>1. /\ UNCHANGED delayed
        /\ mode' = IF now >= xNextTaskUnblockTime THEN "unblock" ELSE "slice"
    BY <1>2, <1>3 DEF AssertionHolds, delayed
  <2>2. \A t \in ToSet(pxDelayedTaskList) :
           /\ xItemValue[t] >= now
           /\ mode' # "unblock" => /\ xItemValue[t] > now
                                   /\ xItemValue[t] >= xNextTaskUnblockTime
    <3>1. \A t \in ToSet(pxDelayedTaskList) :
             /\ xItemValue[t] \in Int /\ xItemValue[t] > xTickCount
             /\ xItemValue[t] >= xNextTaskUnblockTime
      BY SleeperTypes DEF SleepInv
    <3> QED BY <1>1, <1>3, <2>1, <3>1, SleeperTypes
  <2>3. \A t \in ToSet(pxOverflowDelayedTaskList) : xItemValue[t] < now
    <3>1. \A t \in ToSet(pxOverflowDelayedTaskList) :
             xItemValue[t] \in Int /\ xItemValue[t] < xTickCount
      BY SleeperTypes DEF SleepInv
    <3> QED BY <1>1, <1>3, <3>1, SleeperTypes
  <2> QED BY <1>1, <2>1, <2>2, <2>3 DEF SleepInv, delayed
<1>4. CASE now = 0
  <2>1. pxDelayedTaskList = <<>>
    <3>1. \A t \in ToSet(pxDelayedTaskList) :
             xItemValue[t] \in 0..TICKS - 1 /\ xItemValue[t] > TICKS - 1
      BY <1>1, <1>4, SleeperTypes DEF SleepInv, Tick
    <3>2. ToSet(pxDelayedTaskList) = {}
      BY <3>1, SizeAssumption
    <3> QED BY <3>2, SleeperTypes, EmptyByItems
  <2>2. /\ pxDelayedTaskList' = pxOverflowDelayedTaskList
        /\ pxOverflowDelayedTaskList' = <<>>
        /\ xNextTaskUnblockTime' = IF pxOverflowDelayedTaskList = <<>>
                                   THEN portMAX_DELAY
                                   ELSE xItemValue[Head(pxOverflowDelayedTaskList)]
        /\ mode' = IF now >= xNextTaskUnblockTime' THEN "unblock" ELSE "slice"
    BY <1>2, <1>4, <2>1 DEF SwitchDelayedLists, AssertionHolds
  <2>3. /\ ToSet(pxOverflowDelayedTaskList') = {}
        /\ Sorted(pxOverflowDelayedTaskList', xItemValue)
    <3>1. ToSet(<<>>) = {}
      BY EmptyList
    <3>2. Sorted(<<>>, xItemValue)
      BY DEF Sorted
    <3> QED BY <2>2, <3>1, <3>2
  <2>4. \A t \in ToSet(pxDelayedTaskList') :
           xItemValue[t] \in Int /\ xItemValue[t] >= now
    BY <1>4, <2>2, SleeperTypes DEF Tick
  <2>5. ASSUME NEW t \in ToSet(pxDelayedTaskList'), mode' # "unblock"
        PROVE  xItemValue[t] > now /\ xItemValue[t] >= xNextTaskUnblockTime'
    <3>1. pxOverflowDelayedTaskList # <<>>
      BY <2>2, <2>5, SleeperTypes, EmptyByItems
    <3>2. xItemValue[Head(pxOverflowDelayedTaskList)] <= xItemValue[t]
      BY <2>2, <2>5, <3>1, SleeperTypes, HeadIsLeast DEF SleepInv
    <3>3. xNextTaskUnblockTime' = xItemValue[Head(pxOverflowDelayedTaskList)]
      BY <2>2, <3>1
    <3>4. Head(pxOverflowDelayedTaskList) \in AllTasks
      BY <3>1, SleeperTypes, TailList
    <3>5. ~ (now >= xNextTaskUnblockTime')
      BY <2>2, <2>5
    <3> QED BY <1>1, <2>4, <2>5, <3>2, <3>3, <3>4, <3>5, SleeperTypes
  <2> QED BY <1>1, <2>2, <2>3, <2>4, <2>5 DEF SleepInv
<1> QED BY <1>3, <1>4

\* The tick unblocks the first sleeper, whose time it is.
LEMMA HeadIsDue ==
    ASSUME IInv, SleepInv, UnblockHead
    PROVE  /\ Head(pxDelayedTaskList) \in ToSet(pxDelayedTaskList)
           /\ xItemValue[Head(pxDelayedTaskList)] = xTickCount
<1>1. /\ pxDelayedTaskList # <<>>
      /\ xTickCount >= xItemValue[Head(pxDelayedTaskList)]
  BY DEF UnblockHead
<1>2. Head(pxDelayedTaskList) \in ToSet(pxDelayedTaskList)
  BY <1>1, SleeperTypes, TailList
<1>3. xItemValue[Head(pxDelayedTaskList)] >= xTickCount
  BY <1>2 DEF SleepInv
<1>4. xItemValue[Head(pxDelayedTaskList)] \in Int
  BY <1>2, SleeperTypes
<1> QED BY <1>1, <1>2, <1>3, <1>4, SleeperTypes

LEMMA UnblockHeadSleepers ==
    ASSUME IInv, SleepInv, UnblockHead PROVE SleepInv'
<1>1. PICK t \in AllTasks : t = Head(pxDelayedTaskList)
  BY HeadIsDue, SleeperTypes
<1>2. /\ mode = "unblock" /\ pxDelayedTaskList # <<>>
      /\ pxDelayedTaskList' = Tail(pxDelayedTaskList)
      /\ xItemValue' = [xItemValue EXCEPT ![t] = 0]
      /\ UNCHANGED <<pxOverflowDelayedTaskList, xNextTaskUnblockTime,
                     xTickCount, mode>>
  BY <1>1 DEF UnblockHead, clock
<1>3. ToSet(pxDelayedTaskList') = ToSet(pxDelayedTaskList) \ {t}
  BY <1>1, <1>2, SleeperTypes, TailList
<1>4. /\ pxDelayedTaskList' \in Seq(AllTasks)
      /\ Sorted(pxDelayedTaskList', xItemValue)
  BY <1>2, SleeperTypes, HeadTailProperties, TailSorted DEF SleepInv
<1>5. /\ \A u \in ToSet(pxDelayedTaskList') : xItemValue'[u] = xItemValue[u]
      /\ \A u \in ToSet(pxOverflowDelayedTaskList) : xItemValue'[u] = xItemValue[u]
  <2>1. t \notin ToSet(pxOverflowDelayedTaskList)
    BY <1>1, HeadIsDue DEF IInv, TaskOK, InOneList, InDelayed, InOverflow
  <2> QED BY <1>2, <1>3, <2>1, SleeperTypes
<1>6. /\ Sorted(pxDelayedTaskList', xItemValue')
      /\ Sorted(pxOverflowDelayedTaskList', xItemValue')
  BY <1>2, <1>4, <1>5, SleeperTypes, SameSorted DEF SleepInv
<1> QED BY <1>2, <1>3, <1>5, <1>6 DEF SleepInv

LEMMA UnblockDoneSleepers ==
    ASSUME IInv, SleepInv, UnblockDone PROVE SleepInv'
<1>1. /\ mode' = "slice"
      /\ UNCHANGED <<xItemValue, pxDelayedTaskList, pxOverflowDelayedTaskList,
                     xTickCount>>
  BY DEF UnblockDone, tcb, clock
<1>2. CASE pxDelayedTaskList = <<>>
  <2>1. ToSet(pxDelayedTaskList) = {}
    BY <1>2, EmptyList
  <2> QED BY <1>1, <2>1 DEF SleepInv
<1>3. CASE pxDelayedTaskList # <<>>
  <2>1. /\ xTickCount < xItemValue[Head(pxDelayedTaskList)]
        /\ xNextTaskUnblockTime' = xItemValue[Head(pxDelayedTaskList)]
    BY <1>3 DEF UnblockDone
  <2>2. \A t \in ToSet(pxDelayedTaskList) :
           xItemValue[Head(pxDelayedTaskList)] <= xItemValue[t]
    BY <1>3, SleeperTypes, HeadIsLeast DEF SleepInv
  <2>3. xItemValue[Head(pxDelayedTaskList)] \in Int
    BY <1>3, SleeperTypes, TailList
  <2>4. \A t \in ToSet(pxDelayedTaskList) :
           /\ xItemValue[t] > xTickCount
           /\ xItemValue[t] >= xNextTaskUnblockTime'
    BY <2>1, <2>2, <2>3, SleeperTypes
  <2> QED BY <1>1, <2>4 DEF SleepInv
<1> QED BY <1>2, <1>3

-----------------------------------------------------------------------------
\* A call never asks to wake now.
LEMMA WakesLater ==
    ASSUME NEW now \in Tick, NEW n \in Tick, n # 0
    PROVE  TicksAfter(now, n) \in Tick /\ TicksAfter(now, n) # now
<1>1. TICKS \in Nat \ {0} /\ now \in 0..TICKS - 1 /\ n \in 1..TICKS - 1
  BY SizeAssumption DEF Tick
<1>2. (now + n) % TICKS = IF now + n < TICKS THEN now + n ELSE now + n - TICKS
  <2>1. /\ now + n = TICKS * ((now + n) \div TICKS) + ((now + n) % TICKS)
        /\ (now + n) % TICKS \in 0..TICKS - 1 /\ (now + n) \div TICKS \in Int
    <3>1. now + n \in Int
      BY <1>1
    <3> QED BY <1>1, <3>1, QuotientRemainder
  <2>2. PICK q, r : q = (now + n) \div TICKS /\ r = (now + n) % TICKS
    OBVIOUS
  <2>3. /\ q \in Int /\ r \in 0..TICKS - 1 /\ now + n = TICKS * q + r
    BY <2>1, <2>2
  <2>4. CASE now + n < TICKS
    <3>1. TICKS * q + r = TICKS * 0 + (now + n)
      BY <1>1, <2>3
    <3>2. now + n \in 0..TICKS - 1
      BY <1>1, <2>4
    <3>3. r = now + n
      BY <1>1, <2>3, <3>1, <3>2, SameRemainder
    <3> QED BY <2>2, <2>4, <3>3
  <2>5. CASE ~ (now + n < TICKS)
    <3>1. TICKS * q + r = TICKS * 1 + (now + n - TICKS)
      BY <1>1, <2>3
    <3>2. now + n - TICKS \in 0..TICKS - 1
      BY <1>1, <2>5
    <3>3. r = now + n - TICKS
      BY <1>1, <2>3, <3>1, <3>2, SameRemainder
    <3> QED BY <2>2, <2>5, <3>3
  <2> QED BY <2>4, <2>5
<1>3. TicksAfter(now, n) = IF now + n < TICKS THEN now + n ELSE now + n - TICKS
  BY <1>2 DEF TicksAfter
<1> QED BY <1>1, <1>3 DEF Tick

LEMMA CallSleepers ==
    ASSUME IInv, SleepInv, CallNext, 0 \notin Wait PROVE SleepInv'
<1>1. ASSUME NEW t \in Task, vTaskDelete(t) \/ vTaskSuspend(t) PROVE SleepInv'
  <2>1. /\ RemoveFromDelayed(t) /\ UNCHANGED <<clock, loop>>
        /\ t \in AllTasks
    BY <1>1, ConstantFacts DEF vTaskDelete, vTaskSuspend
  <2> QED BY <2>1, SleeperLeaves DEF clock, loop
<1>2. ASSUME NEW t \in Task, NEW p \in Priority,
             vTaskResume(t) \/ xTaskGenericCreate(t, p) \/ vTaskPrioritySet(t, p)
      PROVE  SleepInv'
  BY <1>2, SleepersStay
     DEF vTaskResume, ResumeNow, xTaskGenericCreate, vTaskPrioritySet, tcb,
         clock, loop
<1>3. ASSUME NEW name, Call(name), NEW wake \in Tick, wake # xTickCount,
             AddCurrentToDelayed(wake), UNCHANGED <<clock, loop>>
      PROVE  SleepInv'
  BY <1>3, CallFacts, SleeperComes DEF clock, loop
<1>4. ASSUME NEW n \in Delay, vTaskDelay(n) PROVE SleepInv'
  <2>1. n \in Tick /\ n # 0
    BY ArgumentAssumption
  <2>2. /\ TicksAfter(xTickCount, n) \in Tick
        /\ TicksAfter(xTickCount, n) # xTickCount
    BY <2>1, WakesLater, SleeperTypes
  <2> QED BY <1>3, <1>4, <2>2 DEF vTaskDelay
<1>5. ASSUME NEW previous \in Tick, NEW n \in Delay, vTaskDelayUntil(previous, n)
      PROVE  SleepInv'
  <2> DEFINE wake == TicksAfter(previous, n)
  <2>1. wake \in Tick /\ wake \in Int /\ previous \in Int
    BY ArgumentAssumption, TicksAfterType DEF Tick
  <2>2. CASE ShouldDelay(previous, n, xTickCount)
    <3>1. (wake < previous /\ previous <= xTickCount) \/ wake > xTickCount
      BY <2>1, <2>2, SleeperTypes DEF ShouldDelay
    <3>2. wake # xTickCount
      BY <2>1, <3>1, SleeperTypes
    <3>3. /\ Call("vTaskDelayUntil") /\ AddCurrentToDelayed(wake)
          /\ UNCHANGED <<clock, loop>>
      BY <1>5, <2>2 DEF vTaskDelayUntil
    <3> QED BY <1>3, <2>1, <3>2, <3>3
  <2>3. CASE ~ ShouldDelay(previous, n, xTickCount)
    BY <1>5, <2>3, SleepersStay DEF vTaskDelayUntil, clock, loop
  <2> QED BY <2>2, <2>3
<1>6. ASSUME NEW e \in EventList, NEW n \in Wait, WaitOn(e, n) PROVE SleepInv'
  <2>1. CASE n = portMAX_DELAY
    BY <1>6, <2>1, SleepersStay DEF WaitOn, clock, loop
  <2>2. CASE n # portMAX_DELAY
    <3>1. n \in Tick /\ n # 0
      BY <1>6, ArgumentAssumption
    <3>2. /\ TicksAfter(xTickCount, n) \in Tick
          /\ TicksAfter(xTickCount, n) # xTickCount
      BY <3>1, WakesLater, SleeperTypes
    <3>3. /\ Call("vTaskPlaceOnEventList")
          /\ AddCurrentToDelayed(TicksAfter(xTickCount, n))
          /\ UNCHANGED <<clock, loop>>
      BY <1>6, <2>2 DEF WaitOn
    <3> QED BY <1>3, <3>2, <3>3
  <2> QED BY <2>1, <2>2
<1>7. ASSUME NEW e \in EventList, wake_up(e) PROVE SleepInv'
  <2>1. mode = "task"
    BY <1>7, CallFacts DEF wake_up
  <2> QED BY <1>7, <2>1, SleepersStay DEF wake_up, StartWaking, tcb, clock
<1>8. CASE taskYIELD \/ vTaskSuspendAll \/ uxTaskGetSystemState
  BY <1>8, SleepersStay
     DEF taskYIELD, vTaskSuspendAll, uxTaskGetSystemState, tcb, clock, loop
<1>9. PICK p : p \in Priority
  BY ArgumentAssumption
<1> QED BY <1>1, <1>2, <1>4, <1>5, <1>6, <1>7, <1>8, <1>9 DEF CallNext

LEMMA NextSleepInv ==
    ASSUME IInv, SleepInv, [Next]_vars, 0 \notin Wait PROVE SleepInv'
<1>1. CASE TaskNext
  <2>1. CASE xTaskResumeAll
    BY <2>1, SleepersStay DEF xTaskResumeAll, InTask, clock
  <2>2. CASE portYIELD_WITHIN_API \/ IdleLooks \/ IdleReaps \/ IdleReaped
             \/ IdleYields
    BY <2>2, SleepersStay
       DEF portYIELD_WITHIN_API, IdleLooks, IdleReaps, IdleReaped, IdleYields,
           clock, loop
  <2> QED BY <1>1, <2>1, <2>2 DEF TaskNext
<1>2. CASE KernelNext
  <2>1. CASE DrainPendingReady
    <3>1. xPendingReadyList # <<>> /\ IsList(xPendingReadyList, AllTasks)
      BY <2>1 DEF DrainPendingReady, IInv, EventsOK
    <3>2. PICK t \in AllTasks : t = Head(xPendingReadyList)
      BY <3>1, TailList, ToSetByIndex DEF IsList
    <3>3. RemoveFromDelayed(t) /\ UNCHANGED <<clock, loop>>
      BY <2>1, <3>2 DEF DrainPendingReady
    <3> QED BY <3>3, SleeperLeaves DEF clock, loop
  <2>2. CASE DrainDone \/ ResumeAllDone \/ TickISRReturn \/ PendedTickReturn
    BY <2>2, SleepersStay
       DEF DrainDone, ResumeAllDone, TickISRReturn, PendedTickReturn, tcb, clock
  <2>3. CASE PendedTick
    BY <2>3, SleepersTick DEF PendedTick, tcb
  <2>4. CASE WakeNext
    <3>1. PICK e \in EventList : e = waking
      BY <2>4 DEF WakeNext, IInv, Control, Loops
    <3>2. /\ xTaskRemoveFromEventList(e) /\ UNCHANGED clock
          /\ mode = "wake" /\ mode' \in {"task", "wake"}
          /\ xEventLists[e] # <<>> /\ IsList(xEventLists[e], AllTasks)
      BY <2>4, <3>1 DEF WakeNext, IInv, Control, Loops, EventsOK
    <3>3. PICK t \in AllTasks : t = Head(xEventLists[e])
      BY <3>2, TailList, ToSetByIndex DEF IsList
    <3>4. \/ RemoveFromDelayed(t)
          \/ UNCHANGED <<delayed, xItemValue>>
      BY <3>2, <3>3 DEF xTaskRemoveFromEventList
    <3> QED BY <3>2, <3>4, SleeperLeaves, SleepersStay DEF clock
  <2> QED BY <1>2, <2>1, <2>2, <2>3, <2>4, UnblockHeadSleepers,
             UnblockDoneSleepers DEF KernelNext
<1>3. CASE InterruptNext
  <2>1. CASE TickISR /\ uxSchedulerSuspended = 0
    BY <2>1, SleepersTick DEF TickISR, tcb
  <2>2. CASE TickISR /\ uxSchedulerSuspended # 0
    BY <2>2, SleepersStay DEF TickISR, tcb, clock
  <2>3. ASSUME NEW e \in EventList, wake_up_from_isr(e) PROVE SleepInv'
    BY <2>3, SleepersStay
       DEF wake_up_from_isr, Interrupt, StartWaking, tcb, clock
  <2>4. ASSUME NEW t \in Task, xTaskResumeFromISR(t) PROVE SleepInv'
    BY <2>4, SleepersStay DEF xTaskResumeFromISR, ResumeNow, tcb, clock, loop
  <2> QED BY <1>3, <2>1, <2>2, <2>3, <2>4 DEF InterruptNext
<1>4. CASE UNCHANGED vars
  BY <1>4, SleepersStay DEF vars, tcb, clock, loop
<1> QED BY <1>1, <1>2, <1>3, <1>4, CallSleepers DEF Next

LEMMA InitSleepInv == ASSUME Init PROVE SleepInv
<1>1. /\ pxDelayedTaskList = <<>> /\ pxOverflowDelayedTaskList = <<>>
      /\ mode = "task"
  BY DEF Init
<1>2. ToSet(<<>>) = {}
  BY EmptyList
<1> QED BY <1>1, <1>2 DEF SleepInv, Sorted

\* The application gives every wait a time that is not 0: with 0 the list the
\* task sleeps in can be the one that must be empty when the count overflows.
LEMMA SleepInductive ==
    ASSUME 0 \notin Wait PROVE Spec => [](IInv /\ SleepInv)
<1>1. Init => SleepInv
  BY InitSleepInv
<1>2. IInv /\ SleepInv /\ [Next]_vars => SleepInv'
  BY NextSleepInv
<1> QED BY <1>1, <1>2, Inductive, PTL DEF Spec

\* Every sleeper wakes at a time still to come, in the order of the times, also
\* across the overflow of the count, when no call waits for no time.
THEOREM Ahead == ASSUME 0 \notin Wait PROVE Spec => []SleepersAreAhead
<1>1. SleepInv => SleepersAreAhead
  BY DEF SleepInv, SleepersAreAhead
<1> QED BY <1>1, SleepInductive, PTL

\* The assertion of taskSWITCH_DELAYED_LISTS holds: when the count overflows,
\* every task of the delayed list has been woken.
THEOREM EmptySwitch ==
    ASSUME 0 \notin Wait PROVE Spec => []DelayedListsSwitchEmpty
<1>1. SleepInv => DelayedListsSwitchEmpty
  BY DEF SleepInv, DelayedListsSwitchEmpty
<1> QED BY <1>1, SleepInductive, PTL

LEMMA WokenStep ==
    ASSUME IInv, IInv', SleepInv, [Next]_vars, NEW t \in AllTasks,
           mode = "unblock", Sleeping(t), ~ Sleeping(t)'
    PROVE  xItemValue[t] = xTickCount
<1>1. InDelayed(t) \/ InOverflow(t)
  BY ListMembers DEF Sleeping
<1>2. ~ InDelayed(t)' /\ ~ InOverflow(t)'
  BY SleeperTypes, ContainsIsIn
     DEF Sleeping, InDelayed, InOverflow, IInv, DelayedOK, IsList
<1>3. CASE UnblockHead
  <2>1. /\ pxDelayedTaskList # <<>>
        /\ pxDelayedTaskList' = Tail(pxDelayedTaskList)
        /\ pxOverflowDelayedTaskList' = pxOverflowDelayedTaskList
    BY <1>3 DEF UnblockHead
  <2>2. ToSet(pxDelayedTaskList') =
           ToSet(pxDelayedTaskList) \ {Head(pxDelayedTaskList)}
    BY <2>1, SleeperTypes, TailList
  <2>3. t = Head(pxDelayedTaskList)
    BY <1>1, <1>2, <2>1, <2>2 DEF InDelayed, InOverflow
  <2> QED BY <1>3, <2>3, HeadIsDue
<1>4. CASE UNCHANGED <<pxDelayedTaskList, pxOverflowDelayedTaskList>>
  BY <1>1, <1>2, <1>4 DEF InDelayed, InOverflow
<1>5. UnblockHead \/ UNCHANGED <<pxDelayedTaskList, pxOverflowDelayedTaskList>>
  <2>1. ~ CallNext
    <3>1. \A name : ~ Call(name)
      BY DEF Call, InTask
    <3> QED BY <3>1, Zenon
            DEF CallNext, vTaskDelete, vTaskSuspend, vTaskResume,
                xTaskGenericCreate, vTaskPrioritySet, vTaskDelay,
                vTaskDelayUntil, WaitOn, wake_up, taskYIELD, vTaskSuspendAll,
                uxTaskGetSystemState, InTask
  <2>2. ~ TaskNext
    BY DEF TaskNext, xTaskResumeAll, portYIELD_WITHIN_API, IdleLooks, IdleReaps,
           IdleReaped, IdleYields, InIdle, InTask
  <2>3. ~ InterruptNext
    BY DEF InterruptNext, TickISR, wake_up_from_isr, xTaskResumeFromISR,
           Interrupt
  <2>4. CASE KernelNext
    BY <2>4 DEF KernelNext, DrainPendingReady, DrainDone, PendedTick,
                ResumeAllDone, UnblockDone, TickISRReturn, PendedTickReturn,
                WakeNext
  <2> QED BY <2>1, <2>2, <2>3, <2>4 DEF Next, vars, delayed
<1> QED BY <1>3, <1>4, <1>5

\* A tick unblocks a task at the time it asked for and at no other.
THEOREM OnTime == ASSUME 0 \notin Wait PROVE Spec => WokenOnTime
<1>1. IInv /\ IInv' /\ SleepInv /\ [Next]_vars =>
         [\A t \in AllTasks :
             mode = "unblock" /\ Sleeping(t) /\ ~ Sleeping(t)' =>
                xItemValue[t] = xTickCount]_vars
  BY WokenStep
<1> QED BY <1>1, SleepInductive, PTL DEF Spec, WokenOnTime
=============================================================================
