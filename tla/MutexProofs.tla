----------------------------- MODULE MutexProofs -----------------------------
(***************************************************************************)
(* The safety properties of Mutex, for every number of tasks, mutexes and  *)
(* priorities.  The inductive invariant has three layers, each proved with *)
(* the ones before it: Places says where the tasks of a call are and who   *)
(* holds what; Inheritance what priorities are while nothing is held; Calm *)
(* what inheritance achieves while mutexes are used one at a time.         *)
(***************************************************************************)
EXTENDS Mutex, ListLemmas, FiniteSetTheorems

(***************************************************************************)
(* Places.                                                                 *)
(***************************************************************************)
TypeOK ==
    /\ pxCurrentTCB \in AllTasks
    /\ pc \in [AllTasks -> Place]
    /\ status \in [AllTasks -> {"ready", "delayed", "blocked"}]
    /\ uxPriority \in [AllTasks -> Level]
    /\ uxBasePriority \in [AllTasks -> Level]
    /\ xEventValue \in [AllTasks -> Nat]
    /\ wanted \in [AllTasks -> Mutexes \cup {NULL}]
    /\ wait \in [AllTasks -> Wait]
    /\ time \in [AllTasks -> {"unset", "left", "over"}]
    /\ uxMessagesWaiting \in [Mutexes -> {0, 1}]
    /\ pxMutexHolder \in [Mutexes -> Task \cup {NULL}]
    /\ uxRecursiveCallCount \in [Recursive -> Nat]
    /\ xTasksWaitingToReceive \in [Mutexes -> Seq(Task)]
    /\ \A m \in Mutexes : IsList(xTasksWaitingToReceive[m], Task)
    /\ depth \in [AllTasks -> [Mutexes -> Nat]]
    /\ disturbed \in BOOLEAN

\* The task that runs is ready, and the idle task is in no call.
RunningOK == status[pxCurrentTCB] = "ready" /\ pc[Idle] = "run"

\* A task is in a call for a mutex it does not hold yet, or did not count yet.
CallOK(t) ==
    /\ pc[t] = "run" <=> wanted[t] = NULL
    /\ pc[t] \in {"try", "wait"} => depth[t][wanted[t]] = 0
    /\ pc[t] = "count" => wanted[t] \in Recursive /\ depth[t][wanted[t]] = 1
    /\ status[t] = "delayed" => pc[t] = "run"

\* A task is blocked exactly when it is in the list of the mutex it wants.
BlockedOK(t) ==
    /\ status[t] = "blocked" => pc[t] = "try" /\ t \in Waiters(wanted[t])
    /\ \A m \in Mutexes :
          t \in Waiters(m) => wanted[t] = m /\ status[t] = "blocked"

\* Only its holder has taken a mutex, a plain one once.
DepthOK ==
    /\ \A m \in Plain : \A t \in AllTasks : depth[t][m] <= 1
    /\ \A m \in Mutexes : depth[Idle][m] = 0

Places ==
    /\ TypeOK /\ RunningOK
    /\ \A t \in AllTasks : CallOK(t) /\ BlockedOK(t)
    /\ DepthOK /\ CountsTakes

LEMMA ConstantFacts ==
    /\ Task \subseteq AllTasks /\ Idle \in AllTasks /\ Idle \notin Task
    /\ NULL \notin Mutexes /\ NULL \notin AllTasks
    /\ Recursive \subseteq Mutexes /\ Plain \subseteq Mutexes
    /\ \A m \in Mutexes : m \in Recursive <=> m \notin Plain
    /\ Level \subseteq Nat
    /\ \A p \in Level : EventItemValue(p) \in Nat
    /\ \A t \in AllTasks : t \in Task \/ t = Idle
BY MutexAssumption DEF AllTasks, Mutexes, Level, EventItemValue

LEMMA InitPlaces == Init => Places
<1> SUFFICES ASSUME Init PROVE Places
  OBVIOUS
<1> USE ConstantFacts DEF Init
<1>1. \A m \in Mutexes : IsList(xTasksWaitingToReceive[m], Task)
                        /\ Waiters(m) = {}
  BY EmptyList DEF Waiters
<1>2. xTasksWaitingToReceive \in [Mutexes -> Seq(Task)]
  OBVIOUS
<1>3. TypeOK
  BY <1>1, <1>2, MutexAssumption DEF TypeOK, Place, Wait
<1>4. RunningOK /\ \A t \in AllTasks : CallOK(t) /\ BlockedOK(t)
  BY <1>1 DEF RunningOK, CallOK, BlockedOK
<1>5. DepthOK
  BY DEF DepthOK
<1>6. CountsTakes
  BY DEF CountsTakes
<1> QED BY <1>3, <1>4, <1>5, <1>6 DEF Places

\* A switch is to a task that is ready.
LEMMA SwitchReady ==
    ASSUME vTaskSwitchContext
    PROVE  pxCurrentTCB' \in AllTasks /\ status'[pxCurrentTCB'] = "ready"
BY DEF vTaskSwitchContext

LEMMA BeginTakePlaces ==
    ASSUME Places, NEW t \in Task, NEW m \in Mutexes, NEW w \in Waits,
           BeginTake(t, m, w)
    PROVE  Places'
<1> USE ConstantFacts DEF Places, BeginTake, Running, GoTo, mutexes, priorities
<1>1. TypeOK'
  BY MutexAssumption DEF TypeOK, Place
<1>2. RunningOK'
  BY DEF RunningOK, TypeOK
<1>3. ASSUME NEW u \in AllTasks PROVE CallOK(u)'
  <2>1. depth[t][m] = 0
    BY DEF CountsTakes, TypeOK
  <2>2. CASE u = t
    BY <2>1, <2>2 DEF CallOK, TypeOK, RunningOK
  <2>3. CASE u # t
    BY <2>3 DEF CallOK, TypeOK
  <2> QED BY <2>2, <2>3
<1>4. \A u \in AllTasks : BlockedOK(u)'
  BY DEF BlockedOK, CallOK, TypeOK, Waiters
<1>5. DepthOK'
  BY DEF DepthOK
<1>6. CountsTakes'
  BY DEF CountsTakes, TypeOK, CallOK
<1> QED BY <1>1, <1>2, <1>3, <1>4, <1>5, <1>6

LEMMA TakeAgainPlaces ==
    ASSUME Places, NEW t \in Task, NEW m \in Mutexes, TakeAgain(t, m)
    PROVE  Places'
<1> USE ConstantFacts DEF Places, TakeAgain, Running, calls, priorities
<1>1. TypeOK'
  BY DEF TypeOK
<1>2. RunningOK'
  BY DEF RunningOK, TypeOK
<1>3. \A u \in AllTasks : CallOK(u)'
  BY DEF CallOK, TypeOK, CountsTakes
<1>4. \A u \in AllTasks : BlockedOK(u)'
  BY DEF BlockedOK, CallOK, TypeOK, Waiters
<1>5. DepthOK'
  BY DEF DepthOK, TypeOK
<1>6. CountsTakes'
  BY DEF CountsTakes, TypeOK, CallOK
<1> QED BY <1>1, <1>2, <1>3, <1>4, <1>5, <1>6

LEMMA TakePlaces == ASSUME Places, NEW t \in Task, Take(t) PROVE Places'
<1> USE ConstantFacts DEF Places, Running, GoTo, calls, priorities, Return
<1> DEFINE m == wanted[t]
<1>0. m \in Mutexes
  BY DEF Take, TypeOK, CallOK
<1>1. TypeOK'
  <2>1. /\ uxMessagesWaiting' \in [Mutexes -> {0, 1}]
        /\ pxMutexHolder' \in [Mutexes -> Task \cup {NULL}]
        /\ depth' \in [AllTasks -> [Mutexes -> Nat]]
    BY <1>0 DEF Take, TypeOK
  <2>2. /\ pc' \in [AllTasks -> Place]
        /\ wanted' \in [AllTasks -> Mutexes \cup {NULL}]
        /\ wait' \in [AllTasks -> Wait]
        /\ time' \in [AllTasks -> {"unset", "left", "over"}]
    <3>1. CASE m \in Recursive
      BY <3>1 DEF Take, TypeOK, Place
    <3>2. CASE m \notin Recursive
      BY <3>2 DEF Take, TypeOK, Place, Wait
    <3> QED BY <3>1, <3>2
  <2> QED BY <2>1, <2>2 DEF Take, TypeOK
<1>2. RunningOK'
  BY DEF Take, RunningOK, TypeOK
<1>3. \A u \in AllTasks : CallOK(u)'
  BY <1>0 DEF Take, CallOK, TypeOK, CountsTakes, RunningOK
<1>4. \A u \in AllTasks : BlockedOK(u)'
  BY <1>0 DEF Take, BlockedOK, CallOK, TypeOK, Waiters, RunningOK
<1>5. DepthOK'
  BY <1>0 DEF Take, DepthOK, TypeOK, CallOK
<1>6. CountsTakes'
  <2>1. /\ uxMessagesWaiting[m] = 1 /\ pxMutexHolder[m] = NULL /\ depth[t][m] = 0
        /\ \A u \in AllTasks : depth[u][m] = 0
    BY <1>0 DEF Take, TypeOK, CountsTakes, CallOK
  <2>2. ASSUME NEW n \in Mutexes
        PROVE  /\ uxMessagesWaiting'[n] = 1 <=> pxMutexHolder'[n] = NULL
               /\ \A u \in AllTasks : depth'[u][n] > 0 <=> pxMutexHolder'[n] = u
    BY <1>0, <2>1 DEF Take, TypeOK, CountsTakes
  <2>3. ASSUME NEW n \in Recursive, n # m
        PROVE  /\ pxMutexHolder'[n] = pxMutexHolder[n]
               /\ uxRecursiveCallCount'[n] = uxRecursiveCallCount[n]
               /\ \A u \in AllTasks : depth'[u][n] = depth[u][n]
               /\ \A u \in AllTasks : pc'[u] = "count" /\ wanted'[u] = n
                                     <=> pc[u] = "count" /\ wanted[u] = n
    BY <1>0, <2>3 DEF Take, TypeOK
  <2>4. ASSUME m \in Recursive
        PROVE  /\ pxMutexHolder'[m] = t /\ pc'[t] = "count" /\ wanted'[t] = m
               /\ uxRecursiveCallCount'[m] = 0 /\ depth'[t][m] = 1
    BY <1>0, <2>1, <2>4 DEF Take, TypeOK, CountsTakes
  <2>5. pxMutexHolder \in [Mutexes -> Task \cup {NULL}]
    BY DEF TypeOK
  <2> QED BY <2>2, <2>3, <2>4, <2>5 DEF CountsTakes
<1> QED BY <1>1, <1>2, <1>3, <1>4, <1>5, <1>6

LEMMA CountPlaces == ASSUME Places, NEW t \in Task, Count(t) PROVE Places'
<1> USE ConstantFacts DEF Places, Count, Running, GoTo, calls, priorities, Return
<1> DEFINE m == wanted[t]
<1>0. m \in Recursive /\ depth[t][m] = 1 /\ pxMutexHolder[m] = t
  BY DEF TypeOK, CallOK, CountsTakes
<1>1. TypeOK'
  BY <1>0 DEF TypeOK, Place, Wait
<1>2. RunningOK'
  BY DEF RunningOK, TypeOK
<1>3. \A u \in AllTasks : CallOK(u)'
  BY <1>0 DEF CallOK, TypeOK
<1>4. \A u \in AllTasks : BlockedOK(u)'
  BY <1>0 DEF BlockedOK, CallOK, TypeOK, Waiters, RunningOK
<1>5. DepthOK'
  BY <1>0 DEF DepthOK, TypeOK, CallOK
<1>6. CountsTakes'
  <2>1. ASSUME NEW n \in Recursive, n # m
        PROVE  /\ uxRecursiveCallCount'[n] = uxRecursiveCallCount[n]
               /\ \A u \in AllTasks : pc'[u] = "count" /\ wanted'[u] = n
                                     <=> pc[u] = "count" /\ wanted[u] = n
    BY <1>0, <2>1 DEF TypeOK
  <2>2. uxRecursiveCallCount'[m] = depth[t][m] /\ pc'[t] # "count"
    <3>1. uxRecursiveCallCount[m] = depth[t][m] - 1
      BY <1>0 DEF CountsTakes
    <3>2. uxRecursiveCallCount \in [Recursive -> Nat] /\ pc \in [AllTasks -> Place]
      BY DEF TypeOK
    <3> QED BY <1>0, <3>1, <3>2
  <2>3. pxMutexHolder \in [Mutexes -> Task \cup {NULL}]
    BY DEF TypeOK
  <2> QED BY <1>0, <2>1, <2>2, <2>3 DEF CountsTakes
<1> QED BY <1>1, <1>2, <1>3, <1>4, <1>5, <1>6

\* A call that ends without the mutex.
LEMMA EndPlaces ==
    ASSUME Places, NEW t \in Task, Running(t, pc[t]), pc[t] \in {"try", "wait"},
           GoTo(t, "run"), Return(t), disturbed' \in BOOLEAN,
           UNCHANGED <<pxCurrentTCB, status, priorities, uxMessagesWaiting,
                       pxMutexHolder, uxRecursiveCallCount,
                       xTasksWaitingToReceive, depth>>
    PROVE  Places'
<1> USE ConstantFacts DEF Places, Running, GoTo, priorities, Return
<1>1. TypeOK'
  BY DEF TypeOK, Place, Wait
<1>2. RunningOK'
  BY DEF RunningOK, TypeOK
<1>3. \A u \in AllTasks : CallOK(u)'
  BY DEF CallOK, TypeOK
<1>4. \A u \in AllTasks : BlockedOK(u)'
  BY DEF BlockedOK, CallOK, TypeOK, Waiters, RunningOK
<1>5. DepthOK'
  BY DEF DepthOK
<1>6. CountsTakes'
  BY DEF CountsTakes, TypeOK
<1> QED BY <1>1, <1>2, <1>3, <1>4, <1>5, <1>6

LEMMA RefusePlaces == ASSUME Places, NEW t \in Task, Refuse(t) PROVE Places'
BY EndPlaces DEF Places, TypeOK, Refuse, Running, AfterFailure

LEMMA TimeOutPlaces ==
    ASSUME Places, NEW t \in Task, TimeOutTake(t) PROVE Places'
BY EndPlaces DEF Places, TypeOK, TimeOutTake, Running, AfterFailure

LEMMA MovePlaces ==
    ASSUME Places, NEW t \in Task, Running(t, pc[t]), pc[t] \in {"try", "wait"},
           NEW place \in {"try", "wait"}, GoTo(t, place),
           time' \in [AllTasks -> {"unset", "left", "over"}],
           UNCHANGED <<pxCurrentTCB, status, priorities, wanted, wait, mutexes,
                       disturbed>>
    PROVE  Places'
<1> USE ConstantFacts DEF Places, Running, GoTo, priorities, mutexes
<1>1. TypeOK'
  BY DEF TypeOK, Place
<1>2. RunningOK'
  BY DEF RunningOK, TypeOK
<1>3. \A u \in AllTasks : CallOK(u)'
  BY DEF CallOK, TypeOK
<1>4. \A u \in AllTasks : BlockedOK(u)'
  BY DEF BlockedOK, CallOK, TypeOK, Waiters, RunningOK
<1>5. DepthOK'
  BY DEF DepthOK
<1>6. CountsTakes'
  BY DEF CountsTakes, TypeOK
<1> QED BY <1>1, <1>2, <1>3, <1>4, <1>5, <1>6

LEMMA PreparePlaces == ASSUME Places, NEW t \in Task, Prepare(t) PROVE Places'
<1>1. time' \in [AllTasks -> {"unset", "left", "over"}]
  BY DEF Places, TypeOK, Prepare
<1> QED BY <1>1, MovePlaces DEF Prepare, Running

LEMMA TryAgainPlaces == ASSUME Places, NEW t \in Task, TryAgain(t) PROVE Places'
<1>1. time' \in [AllTasks -> {"unset", "left", "over"}]
  BY DEF Places, TypeOK, TryAgain, calls
<1> QED BY <1>1, MovePlaces DEF TryAgain, Running, calls

\* Inheritance changes priorities only.
LEMMA InheritType ==
    ASSUME TypeOK, NEW h \in Task \cup {NULL}, vTaskPriorityInherit(h)
    PROVE  /\ uxPriority' \in [AllTasks -> Level]
           /\ uxBasePriority' = uxBasePriority
           /\ xEventValue' \in [AllTasks -> Nat]
<1>1. CASE Inherits(h)
  <2> DEFINE p == uxPriority[pxCurrentTCB]
  <2>1. h \in Task /\ p \in Level /\ EventItemValue(p) \in Nat
    BY <1>1, ConstantFacts DEF TypeOK, Inherits
  <2>2. /\ uxPriority' = [uxPriority EXCEPT ![h] = p]
        /\ xEventValue' = [xEventValue EXCEPT ![h] = EventItemValue(p)]
        /\ uxBasePriority' = uxBasePriority
    BY <1>1 DEF vTaskPriorityInherit
  <2> HIDE DEF p
  <2> QED BY <2>1, <2>2, ConstantFacts DEF TypeOK
<1>2. CASE ~ Inherits(h)
  BY <1>2 DEF TypeOK, vTaskPriorityInherit, priorities
<1> QED BY <1>1, <1>2

LEMMA BlockPlaces == ASSUME Places, NEW t \in Task, Block(t) PROVE Places'
<1> USE ConstantFacts DEF Places
<1> DEFINE m == wanted[t]
           list == xTasksWaitingToReceive
<1>1. m \in Mutexes /\ pc[t] = "wait" /\ pxCurrentTCB = t /\ depth[t][m] = 0
  BY DEF Block, Running, TypeOK, CallOK
<1>2. \A n \in Mutexes : t \notin ToSet(list[n])
  BY <1>1 DEF RunningOK, BlockedOK, Waiters
<1>3. list' = [list EXCEPT ![m] = vListInsert(@, t, xEventValue')]
  BY DEF Block
<1>4. /\ IsList(list'[m], Task)
      /\ ToSet(list'[m]) = ToSet(list[m]) \cup {t}
  <2>1. IsList(list[m], Task) /\ list \in [Mutexes -> Seq(Task)]
    BY <1>1 DEF TypeOK
  <2>2. list'[m] = vListInsert(list[m], t, xEventValue')
    BY <1>1, <1>3, <2>1
  <2> QED BY <1>1, <1>2, <2>1, <2>2, vListInsertList
<1>5. /\ list' \in [Mutexes -> Seq(Task)]
      /\ \A n \in Mutexes : n # m => list'[n] = list[n]
      /\ \A n \in Mutexes : IsList(list'[n], Task)
  <2>1. vListInsert(list[m], t, xEventValue') \in Seq(Task)
    BY <1>1, <1>3, <1>4 DEF IsList, TypeOK
  <2> QED BY <1>1, <1>3, <1>4, <2>1 DEF TypeOK
<1>6. pc' = [pc EXCEPT ![t] = "try"] /\ status' = [status EXCEPT ![t] = "blocked"]
  BY DEF Block, GoTo
<1>7. UNCHANGED <<calls, uxMessagesWaiting, pxMutexHolder, uxRecursiveCallCount,
                  depth, disturbed>>
  BY DEF Block
<1>8. pxCurrentTCB' \in AllTasks /\ status'[pxCurrentTCB'] = "ready"
  BY SwitchReady DEF Block
<1>9. TypeOK'
  <2>1. pxMutexHolder[m] \in Task \cup {NULL}
    BY <1>1 DEF TypeOK
  <2>2. /\ uxPriority' \in [AllTasks -> Level]
        /\ uxBasePriority' = uxBasePriority
        /\ xEventValue' \in [AllTasks -> Nat]
    BY <2>1, InheritType DEF Block
  <2> QED BY <1>5, <1>6, <1>7, <1>8, <2>2 DEF TypeOK, Place, calls
<1>10. RunningOK'
  BY <1>6, <1>8 DEF RunningOK, TypeOK
<1>11. \A u \in AllTasks : CallOK(u)'
  BY <1>1, <1>6, <1>7 DEF CallOK, TypeOK, calls
<1>12. ASSUME NEW u \in AllTasks PROVE BlockedOK(u)'
  <2>1. CASE u = t
    BY <1>1, <1>2, <1>4, <1>5, <1>6, <1>7, <2>1 DEF BlockedOK, TypeOK, Waiters, calls
  <2>2. CASE u # t
    <3>1. /\ pc'[u] = pc[u] /\ status'[u] = status[u] /\ wanted'[u] = wanted[u]
          /\ \A n \in Mutexes : u \in ToSet(list'[n]) <=> u \in ToSet(list[n])
      <4>1. /\ pc'[u] = pc[u] /\ status'[u] = status[u]
            /\ wanted'[u] = wanted[u]
        BY <1>6, <1>7, <2>2 DEF TypeOK, calls
      <4>2. ASSUME NEW n \in Mutexes
            PROVE  u \in ToSet(list'[n]) <=> u \in ToSet(list[n])
        BY <1>4, <1>5, <2>2
      <4> QED BY <4>1, <4>2
    <3>2. BlockedOK(u) /\ CallOK(u) /\ wanted[u] \in Mutexes \cup {NULL}
      BY DEF TypeOK
    <3> QED BY <3>1, <3>2 DEF BlockedOK, CallOK, Waiters
  <2> QED BY <2>1, <2>2
<1>13. DepthOK'
  BY <1>7 DEF DepthOK
<1>14. CountsTakes'
  BY <1>1, <1>6, <1>7 DEF CountsTakes, TypeOK, calls
<1> QED BY <1>9, <1>10, <1>11, <1>12, <1>13, <1>14

LEMMA DisinheritType ==
    ASSUME TypeOK, NEW t \in Task, vTaskPriorityDisinherit(t)
    PROVE  /\ uxPriority' \in [AllTasks -> Level]
           /\ uxBasePriority' = uxBasePriority
           /\ xEventValue' \in [AllTasks -> Nat]
<1>1. CASE uxPriority[t] # uxBasePriority[t]
  <2> DEFINE base == uxBasePriority[t]
  <2>1. base \in Level /\ EventItemValue(base) \in Nat
    BY ConstantFacts DEF TypeOK
  <2>2. /\ uxPriority' = [uxPriority EXCEPT ![t] = base]
        /\ xEventValue' = [xEventValue EXCEPT ![t] = EventItemValue(base)]
        /\ uxBasePriority' = uxBasePriority
    BY <1>1 DEF vTaskPriorityDisinherit
  <2> HIDE DEF base
  <2> QED BY <2>1, <2>2, ConstantFacts DEF TypeOK
<1>2. CASE uxPriority[t] = uxBasePriority[t]
  BY <1>2 DEF TypeOK, vTaskPriorityDisinherit, priorities
<1> QED BY <1>1, <1>2

LEMMA GivePlaces ==
    ASSUME Places, NEW t \in Task, NEW m \in Mutexes, Give(t, m)
    PROVE  Places'
<1> USE ConstantFacts DEF Places
<1> DEFINE list == xTasksWaitingToReceive
<1>1. /\ pxCurrentTCB = t /\ pc[t] = "run" /\ pxMutexHolder[m] = t
      /\ depth[t][m] = 1
  <2>1. /\ pxCurrentTCB = t /\ pc[t] = "run" /\ pxMutexHolder[m] = t
        /\ m \in Recursive => uxRecursiveCallCount[m] = 1
    BY DEF Give, Running
  <2>2. depth[t][m] \in Nat /\ depth[t][m] > 0
    BY <2>1 DEF CountsTakes, TypeOK
  <2>3. CASE m \in Recursive
    BY <2>1, <2>3 DEF CountsTakes
  <2>4. CASE m \in Plain
    BY <2>1, <2>2, <2>4 DEF DepthOK
  <2>5. m \in Recursive \/ m \in Plain
    BY DEF Mutexes
  <2> QED BY <2>3, <2>4, <2>5
<1>2. IsList(list[m], Task) /\ list \in [Mutexes -> Seq(Task)]
  BY DEF TypeOK
<1>3. UNCHANGED <<pc, calls>>
  BY DEF Give
<1>4. /\ pxMutexHolder' = [pxMutexHolder EXCEPT ![m] = NULL]
      /\ uxMessagesWaiting' = [uxMessagesWaiting EXCEPT ![m] = @ + 1]
      /\ depth' = [depth EXCEPT ![t][m] = @ - 1]
      /\ uxRecursiveCallCount' =
             [n \in Recursive |-> IF n = m THEN 0 ELSE uxRecursiveCallCount[n]]
  BY DEF Give
<1>5. uxMessagesWaiting[m] = 0
  BY <1>1 DEF CountsTakes, TypeOK
<1> DEFINE Woken(u) ==
              /\ \A v \in AllTasks :
                    status'[v] = IF v = u THEN "ready" ELSE status[v]
              /\ status' \in [AllTasks -> {"ready", "delayed", "blocked"}]
              /\ u # NULL => u \in Waiters(m)
              /\ \A n \in Mutexes : IsList(list'[n], Task)
              /\ list' \in [Mutexes -> Seq(Task)]
              /\ \A n \in Mutexes : n # m => list'[n] = list[n]
              /\ ToSet(list'[m]) = ToSet(list[m]) \ {u}
<1>6. \E u \in Task \cup {NULL} : Woken(u)
  <2>1. CASE list[m] = <<>>
    <3>1. UNCHANGED <<status, list>>
      BY <2>1 DEF Give, xTaskRemoveFromEventList
    <3>2. ToSet(list[m]) = {}
      BY <2>1, EmptyList
    <3>3. Woken(NULL)
      BY <3>1, <3>2 DEF TypeOK
    <3> QED BY <3>3
  <2>2. CASE list[m] # <<>>
    <3>1. /\ status' = [status EXCEPT ![Head(list[m])] = "ready"]
          /\ list' = [list EXCEPT ![m] = Tail(@)]
      BY <2>2 DEF Give, xTaskRemoveFromEventList
    <3>2. /\ IsList(Tail(list[m]), Task) /\ Head(list[m]) \in ToSet(list[m])
          /\ ToSet(Tail(list[m])) = ToSet(list[m]) \ {Head(list[m])}
      BY <1>2, <2>2, TailList
    <3>3. Head(list[m]) \in Task /\ Tail(list[m]) \in Seq(Task)
      BY <1>2, <3>2, ToSetByIndex DEF IsList
    <3>4. /\ list' \in [Mutexes -> Seq(Task)] /\ list'[m] = Tail(list[m])
          /\ \A n \in Mutexes : n # m => list'[n] = list[n]
      BY <1>2, <3>1, <3>3
    <3>5. \A n \in Mutexes : IsList(list'[n], Task)
      BY <3>2, <3>4 DEF TypeOK
    <3>6. /\ status' \in [AllTasks -> {"ready", "delayed", "blocked"}]
          /\ \A v \in AllTasks :
                status'[v] = IF v = Head(list[m]) THEN "ready" ELSE status[v]
      BY <3>1, <3>3 DEF TypeOK
    <3>7. list'[m] = Tail(list[m]) /\ Head(list[m]) \in Waiters(m)
      BY <3>2, <3>4 DEF Waiters
    <3> DEFINE h == Head(list[m])
    <3>8. /\ h \in Task \cup {NULL}
          /\ \A v \in AllTasks : status'[v] = IF v = h THEN "ready" ELSE status[v]
          /\ ToSet(list'[m]) = ToSet(list[m]) \ {h}
          /\ h # NULL => h \in Waiters(m)
      BY <3>2, <3>3, <3>6, <3>7
    <3>9. Woken(h)
      BY <3>4, <3>5, <3>6, <3>8
    <3> HIDE DEF Woken, h
    <3> QED BY <3>8, <3>9
  <2> QED BY <2>1, <2>2
<1>7. PICK u \in Task \cup {NULL} : Woken(u)
  BY <1>6
<1>8. pxCurrentTCB' \in AllTasks /\ status'[pxCurrentTCB'] = "ready"
  <2>1. CASE Yields(t, list[m])
    BY <2>1, SwitchReady DEF Give
  <2>2. CASE ~ Yields(t, list[m])
    <3>1. pxCurrentTCB' = t
      BY <1>1, <2>2 DEF Give
    <3> QED BY <1>1, <1>7, <3>1 DEF RunningOK
  <2> QED BY <2>1, <2>2
<1>9. TypeOK'
  <2>1. /\ uxPriority' \in [AllTasks -> Level]
        /\ uxBasePriority' = uxBasePriority
        /\ xEventValue' \in [AllTasks -> Nat]
    BY DisinheritType DEF Give
  <2>2. disturbed' \in BOOLEAN
    BY Zenon DEF Give
  <2>3. /\ pxMutexHolder' \in [Mutexes -> Task \cup {NULL}]
        /\ uxMessagesWaiting' \in [Mutexes -> {0, 1}]
        /\ uxRecursiveCallCount' \in [Recursive -> Nat]
    BY <1>4, <1>5 DEF TypeOK
  <2>4. depth' \in [AllTasks -> [Mutexes -> Nat]]
    BY <1>1, <1>4 DEF TypeOK
  <2> QED BY <1>3, <1>7, <1>8, <2>1, <2>2, <2>3, <2>4 DEF TypeOK, calls
<1>10. RunningOK'
  BY <1>3, <1>8 DEF RunningOK
<1>11. /\ \A v \in AllTasks, n \in Mutexes : n # m => depth'[v][n] = depth[v][n]
       /\ \A v \in AllTasks : depth'[v][m] = 0
  <2>1. \A v \in AllTasks : v # t => depth[v][m] = 0
    BY <1>1 DEF CountsTakes, TypeOK
  <2> QED BY <1>1, <1>4, <2>1 DEF TypeOK
<1>12. \A v \in AllTasks : CallOK(v)'
  <2>1. ASSUME NEW v \in AllTasks PROVE CallOK(v)'
    <3>1. /\ pc'[v] = pc[v] /\ wanted'[v] = wanted[v]
          /\ wanted[v] \in Mutexes \cup {NULL}
      BY <1>3 DEF calls, TypeOK
    <3>2. status'[v] = "delayed" => status[v] = "delayed"
      BY <1>7
    <3>3. pc[v] = "count" => wanted[v] # m
      BY <1>1, <3>1 DEF CallOK, CountsTakes
    <3> QED BY <1>11, <3>1, <3>2, <3>3 DEF CallOK
  <2> QED BY <2>1
<1>13. \A v \in AllTasks : BlockedOK(v)'
  <2>1. ASSUME NEW v \in AllTasks PROVE BlockedOK(v)'
    <3>1. /\ pc'[v] = pc[v] /\ wanted'[v] = wanted[v]
          /\ wanted[v] \in Mutexes \cup {NULL} /\ BlockedOK(v) /\ CallOK(v)
      BY <1>3 DEF calls, TypeOK
    <3>2. CASE v = u
      BY <1>7, <3>1, <3>2 DEF BlockedOK, Waiters
    <3>3. CASE v # u
      BY <1>7, <3>1, <3>3 DEF BlockedOK, Waiters, CallOK
    <3> QED BY <3>2, <3>3
  <2> QED BY <2>1
<1>14. DepthOK'
  BY <1>11 DEF DepthOK
<1>15. CountsTakes'
  <2>1. ASSUME NEW n \in Mutexes
        PROVE  /\ uxMessagesWaiting'[n] = 1 <=> pxMutexHolder'[n] = NULL
               /\ \A v \in AllTasks : depth'[v][n] > 0 <=> pxMutexHolder'[n] = v
    BY <1>4, <1>5, <1>11 DEF CountsTakes, TypeOK
  <2>2. ASSUME NEW n \in Recursive, n # m
        PROVE  /\ pxMutexHolder'[n] = pxMutexHolder[n]
               /\ uxRecursiveCallCount'[n] = uxRecursiveCallCount[n]
               /\ \A v \in AllTasks : depth'[v][n] = depth[v][n]
    BY <1>4, <1>11, <2>2 DEF TypeOK
  <2>3. m \in Recursive => pxMutexHolder'[m] = NULL /\ uxRecursiveCallCount'[m] = 0
    BY <1>4 DEF TypeOK
  <2>4. pxMutexHolder \in [Mutexes -> Task \cup {NULL}]
    BY DEF TypeOK
  <2> QED BY <1>3, <2>1, <2>2, <2>3, <2>4 DEF CountsTakes, calls
<1> QED BY <1>9, <1>10, <1>12, <1>13, <1>14, <1>15

LEMMA GiveOnePlaces ==
    ASSUME Places, NEW t \in Task, NEW m \in Mutexes, GiveOne(t, m)
    PROVE  Places'
<1> USE ConstantFacts DEF Places, GiveOne, Running, calls, priorities
<1>0. depth[t][m] = uxRecursiveCallCount[m] /\ depth[t][m] > 1
  BY DEF CountsTakes
<1>1. TypeOK'
  BY <1>0 DEF TypeOK
<1>2. RunningOK'
  BY DEF RunningOK, TypeOK
<1>3. \A u \in AllTasks : CallOK(u)'
  BY DEF CallOK, TypeOK, CountsTakes
<1>4. \A u \in AllTasks : BlockedOK(u)'
  BY DEF BlockedOK, CallOK, TypeOK, Waiters
<1>5. DepthOK'
  BY DEF DepthOK, TypeOK
<1>6. CountsTakes'
  BY <1>0 DEF CountsTakes, TypeOK, CallOK
<1> QED BY <1>1, <1>2, <1>3, <1>4, <1>5, <1>6

LEMMA PrioritySetPlaces ==
    ASSUME Places, NEW t \in Task, NEW u \in Task, NEW p \in Priority,
           vTaskPrioritySet(t, u, p)
    PROVE  Places'
<1> USE ConstantFacts DEF Places
<1>1. /\ pxCurrentTCB = t /\ pc[t] = "run" /\ p \in Level
      /\ EventItemValue(p) \in Nat
  BY MutexAssumption DEF vTaskPrioritySet, Running
<1>2. UNCHANGED <<status, pc, calls, mutexes>>
  BY DEF vTaskPrioritySet
<1>3. pxCurrentTCB' \in AllTasks /\ status'[pxCurrentTCB'] = "ready"
  <2>1. vTaskSwitchContext \/ UNCHANGED pxCurrentTCB
    BY DEF vTaskPrioritySet
  <2> QED BY <1>2, <2>1, SwitchReady DEF RunningOK, TypeOK
<1>4. /\ uxPriority' \in [AllTasks -> Level]
      /\ uxBasePriority' \in [AllTasks -> Level]
      /\ xEventValue' \in [AllTasks -> Nat]
  BY <1>1 DEF vTaskPrioritySet, TypeOK
<1>5. disturbed' \in BOOLEAN
  BY Zenon DEF vTaskPrioritySet
<1>6. TypeOK'
  BY <1>2, <1>3, <1>4, <1>5 DEF TypeOK, calls, mutexes
<1>7. RunningOK'
  BY <1>2, <1>3 DEF RunningOK
<1>8. \A v \in AllTasks : CallOK(v)' /\ BlockedOK(v)'
  BY <1>2 DEF CallOK, BlockedOK, Waiters, calls, mutexes
<1>9. DepthOK' /\ CountsTakes'
  BY <1>2 DEF DepthOK, CountsTakes, calls, mutexes
<1> QED BY <1>6, <1>7, <1>8, <1>9

LEMMA DelayPlaces ==
    ASSUME Places, NEW t \in Task, vTaskDelay(t) PROVE Places'
<1> USE ConstantFacts DEF Places, vTaskDelay, Running, priorities
<1>1. pxCurrentTCB' \in AllTasks /\ status'[pxCurrentTCB'] = "ready"
  BY SwitchReady
<1>2. TypeOK'
  BY <1>1 DEF TypeOK, calls, mutexes
<1>3. RunningOK'
  BY <1>1 DEF RunningOK
<1>4. ASSUME NEW v \in AllTasks PROVE CallOK(v)' /\ BlockedOK(v)'
  <2>1. CASE v = t
    BY <2>1 DEF CallOK, BlockedOK, Waiters, calls, mutexes, TypeOK, RunningOK
  <2>2. CASE v # t
    BY <2>2 DEF CallOK, BlockedOK, Waiters, calls, mutexes, TypeOK
  <2> QED BY <2>1, <2>2
<1>5. DepthOK' /\ CountsTakes'
  BY DEF DepthOK, CountsTakes, calls, mutexes
<1> QED BY <1>2, <1>3, <1>4, <1>5

LEMMA TickPlaces ==
    ASSUME Places, NEW delayed \in SUBSET Task, NEW expired \in SUBSET Task,
           Tick(delayed, expired)
    PROVE  Places'
<1> USE ConstantFacts DEF Places
<1> DEFINE late == {t \in expired : status[t] = "blocked"}
           woken == late \cup delayed
           list == xTasksWaitingToReceive
<1>1. /\ \A t \in delayed : status[t] = "delayed"
      /\ time' = [t \in AllTasks |-> IF t \in expired THEN "over" ELSE time[t]]
      /\ list' = [m \in Mutexes |-> Without(list[m], late)]
      /\ status' = [t \in AllTasks |-> IF t \in woken THEN "ready" ELSE status[t]]
      /\ UNCHANGED <<priorities, pc, wanted, wait, uxMessagesWaiting,
                     pxMutexHolder, uxRecursiveCallCount, depth, disturbed>>
      /\ vTaskSwitchContext \/ UNCHANGED pxCurrentTCB
  BY DEF Tick
<1>2. ASSUME NEW m \in Mutexes
      PROVE  /\ IsList(list'[m], Task)
             /\ ToSet(list'[m]) = ToSet(list[m]) \ late
  <2>1. IsList(list[m], Task) /\ list'[m] = Without(list[m], late)
    BY <1>1 DEF TypeOK
  <2> QED BY <2>1, WithoutList
<1>3. list' \in [Mutexes -> Seq(Task)]
  <2>1. \A m \in Mutexes : Without(list[m], late) \in Seq(Task)
    BY <1>1, <1>2 DEF IsList
  <2> QED BY <1>1, <2>1
<1>4. pxCurrentTCB' \in AllTasks /\ status'[pxCurrentTCB'] = "ready"
  <2>1. \A t \in AllTasks : status[t] = "ready" => status'[t] = "ready"
    BY <1>1 DEF TypeOK
  <2> QED BY <1>1, <2>1, SwitchReady DEF RunningOK, TypeOK
<1> HIDE DEF list
<1>5. TypeOK'
  <2>1. /\ time' \in [AllTasks -> {"unset", "left", "over"}]
        /\ status' \in [AllTasks -> {"ready", "delayed", "blocked"}]
    BY <1>1 DEF TypeOK
  <2> HIDE DEF woken
  <2> QED BY <1>1, <1>2, <1>3, <1>4, <2>1 DEF TypeOK, priorities, list
<1>6. RunningOK'
  BY <1>1, <1>4 DEF RunningOK
<1>7. ASSUME NEW v \in AllTasks PROVE CallOK(v)'
  BY <1>1 DEF CallOK, TypeOK
<1>8. ASSUME NEW v \in AllTasks PROVE BlockedOK(v)'
  <2>1. /\ pc'[v] = pc[v] /\ wanted'[v] = wanted[v]
        /\ wanted[v] \in Mutexes \cup {NULL} /\ BlockedOK(v) /\ CallOK(v)
    BY <1>1 DEF TypeOK
  <2>2. status'[v] = IF v \in woken THEN "ready" ELSE status[v]
    BY <1>1
  <2>3. v \in woken => status[v] = "delayed" \/ v \in late
    BY <1>1
  <2>4. \A m \in Mutexes : v \in ToSet(list'[m]) <=> v \in ToSet(list[m]) /\ v \notin late
    BY <1>2
  <2>5. status[v] = "blocked" /\ v \notin late => v \notin woken
    BY <1>1
  <2> HIDE DEF woken, late
  <2>6. ASSUME status'[v] = "blocked"
        PROVE  pc'[v] = "try" /\ v \in ToSet(list'[wanted[v]])
    <3>1. status[v] = "blocked" /\ v \notin woken
      BY <2>2, <2>6
    <3>2. v \notin late
      BY <3>1 DEF woken
    <3>3. pc[v] = "try" /\ v \in ToSet(list[wanted[v]]) /\ wanted[v] \in Mutexes
      BY <2>1, <3>1 DEF BlockedOK, CallOK, Waiters, list
    <3> QED BY <2>1, <2>4, <3>2, <3>3
  <2>7. ASSUME NEW m \in Mutexes, v \in ToSet(list'[m])
        PROVE  wanted'[v] = m /\ status'[v] = "blocked"
    BY <2>1, <2>2, <2>4, <2>5, <2>7 DEF BlockedOK, Waiters, list
  <2> QED BY <2>1, <2>6, <2>7 DEF BlockedOK, Waiters, list
<1>9. DepthOK' /\ CountsTakes'
  BY <1>1 DEF DepthOK, CountsTakes
<1> QED BY <1>5, <1>6, <1>7, <1>8, <1>9

LEMMA NextPlaces == Places /\ [Next]_vars => Places'
<1> SUFFICES ASSUME Places, [Next]_vars PROVE Places'
  OBVIOUS
<1>1. CASE UNCHANGED vars
  BY <1>1 DEF Places, TypeOK, RunningOK, CallOK, BlockedOK, Waiters, DepthOK,
              CountsTakes, vars, priorities, calls, mutexes
<1>2. CASE Next
  BY <1>2, BeginTakePlaces, TakeAgainPlaces, TakePlaces, CountPlaces,
     RefusePlaces, PreparePlaces, TimeOutPlaces, TryAgainPlaces, BlockPlaces,
     GivePlaces, GiveOnePlaces, PrioritySetPlaces, DelayPlaces, TickPlaces
  DEF Next, Proceed
<1> QED BY <1>1, <1>2

THEOREM PlacesHold == Spec => []Places
BY InitPlaces, NextPlaces, PTL DEF Spec

\* uxRecursiveCallCount counts the takes of the holder, whatever calls and
\* switches come between the take and the count.
THEOREM Counted == Spec => []CountsTakes
<1>1. Places => CountsTakes
  BY DEF Places
<1> QED BY <1>1, PlacesHold, PTL

-----------------------------------------------------------------------------
(***************************************************************************)
(* Inheritance.                                                            *)
(***************************************************************************)
\* The event item of a task without an inherited priority has its priority.
EventValueFits ==
    \A t \in AllTasks : uxPriority[t] = uxBasePriority[t] =>
                           xEventValue[t] = EventItemValue(uxPriority[t])

Inheritance == InheritanceEnds /\ EventValueFits

LEMMA InitInheritance == Init => Inheritance
BY DEF Init, Inheritance, InheritanceEnds, EventValueFits

\* A step that changes no priority, and after which no less is held.
LEMMA SameInheritance ==
    ASSUME Inheritance, UNCHANGED priorities,
           \A t \in AllTasks : Held(t) # {} => Held(t)' # {}
    PROVE  Inheritance'
BY DEF Inheritance, InheritanceEnds, EventValueFits, priorities

LEMMA BlockInheritance ==
    ASSUME Places, Inheritance, NEW t \in Task, Block(t)
    PROVE  Inheritance'
<1> DEFINE m == wanted[t]
           h == pxMutexHolder[m]
           p == uxPriority[pxCurrentTCB]
<1>1. m \in Mutexes /\ uxMessagesWaiting[m] = 0
  BY ConstantFacts DEF Places, TypeOK, CallOK, Block, Running, StillTaken
<1>2. h \in Task /\ depth[h][m] > 0 /\ m \in Held(h)
  BY <1>1, ConstantFacts DEF Places, CountsTakes, TypeOK, Held
<1>3. \A u \in AllTasks : Held(u)' = Held(u)
  BY DEF Block, Held
<1>4. CASE ~ Inherits(h)
  BY <1>3, <1>4, SameInheritance DEF Block, vTaskPriorityInherit
<1>5. CASE Inherits(h)
  <2>1. /\ uxPriority' = [uxPriority EXCEPT ![h] = p]
        /\ xEventValue' = [xEventValue EXCEPT ![h] = EventItemValue(p)]
        /\ uxBasePriority' = uxBasePriority
    BY <1>5 DEF Block, vTaskPriorityInherit
  <2>2. /\ uxPriority'[h] = p /\ xEventValue'[h] = EventItemValue(p)
        /\ \A u \in AllTasks : u # h => /\ uxPriority'[u] = uxPriority[u]
                                        /\ xEventValue'[u] = xEventValue[u]
    BY <1>2, <2>1, ConstantFacts DEF Places, TypeOK
  <2> HIDE DEF h, p
  <2> QED BY <1>2, <1>3, <2>1, <2>2
          DEF Inheritance, InheritanceEnds, EventValueFits
<1> QED BY <1>4, <1>5

LEMMA GiveInheritance ==
    ASSUME Places, Inheritance, NEW t \in Task, NEW m \in Mutexes, Give(t, m)
    PROVE  Inheritance'
<1>1. \A u \in AllTasks : u # t => Held(u)' = Held(u)
  BY ConstantFacts DEF Places, TypeOK, Give, Held
<1>2. /\ uxPriority'[t] = uxBasePriority[t] /\ uxBasePriority' = uxBasePriority
      /\ xEventValue'[t] = EventItemValue(uxBasePriority[t])
      /\ \A u \in AllTasks : u # t => /\ uxPriority'[u] = uxPriority[u]
                                      /\ xEventValue'[u] = xEventValue[u]
  <2>1. vTaskPriorityDisinherit(t)
    BY DEF Give
  <2>2. CASE uxPriority[t] = uxBasePriority[t]
    BY <2>1, <2>2, ConstantFacts
       DEF vTaskPriorityDisinherit, priorities, Inheritance, EventValueFits
  <2>3. CASE uxPriority[t] # uxBasePriority[t]
    BY <2>1, <2>3, ConstantFacts DEF vTaskPriorityDisinherit, Places, TypeOK
  <2> QED BY <2>2, <2>3
<1> QED BY <1>1, <1>2 DEF Inheritance, InheritanceEnds, EventValueFits

LEMMA PrioritySetInheritance ==
    ASSUME Places, Inheritance, NEW t \in Task, NEW u \in Task, NEW p \in Priority,
           vTaskPrioritySet(t, u, p)
    PROVE  Inheritance'
<1>1. /\ uxPriority'[u] = IF uxPriority[u] = uxBasePriority[u] THEN p
                          ELSE uxPriority[u]
      /\ uxBasePriority'[u] = p /\ xEventValue'[u] = EventItemValue(p)
      /\ \A v \in AllTasks : v # u => /\ uxPriority'[v] = uxPriority[v]
                                      /\ uxBasePriority'[v] = uxBasePriority[v]
                                      /\ xEventValue'[v] = xEventValue[v]
  BY ConstantFacts DEF vTaskPrioritySet, Places, TypeOK
<1>2. \A v \in AllTasks : Held(v)' = Held(v)
  BY DEF vTaskPrioritySet, mutexes, Held
<1> QED BY <1>1, <1>2 DEF Inheritance, InheritanceEnds, EventValueFits

LEMMA NextInheritance == Places /\ Inheritance /\ [Next]_vars => Inheritance'
<1> SUFFICES ASSUME Places, Inheritance, [Next]_vars PROVE Inheritance'
  OBVIOUS
<1> USE ConstantFacts
<1>1. ASSUME NEW t \in Task, NEW m \in Mutexes, NEW w \in Waits, BeginTake(t, m, w)
      PROVE  Inheritance'
  BY <1>1, SameInheritance DEF BeginTake, mutexes, Held
<1>2. ASSUME NEW t \in Task, NEW m \in Mutexes, TakeAgain(t, m)
      PROVE  Inheritance'
  <2>1. \A u \in AllTasks : Held(u) # {} => Held(u)' # {}
    BY <1>2 DEF TakeAgain, Held, Places, TypeOK
  <2> QED BY <1>2, <2>1, SameInheritance DEF TakeAgain
<1>3. ASSUME NEW t \in Task, Take(t) PROVE Inheritance'
  <2>1. wanted[t] \in Mutexes
    BY <1>3 DEF Take, Running, Places, TypeOK, CallOK
  <2>2. depth' = [depth EXCEPT ![t][wanted[t]] = @ + 1]
    BY <1>3 DEF Take
  <2>3. \A u \in AllTasks, m \in Mutexes : depth[u][m] > 0 => depth'[u][m] > 0
    BY <2>1, <2>2 DEF Places, TypeOK
  <2> QED BY <1>3, <2>3, SameInheritance DEF Take, Held
<1>4. ASSUME NEW t \in Task,
             \/ Count(t) \/ Refuse(t) \/ Prepare(t) \/ TimeOutTake(t) \/ TryAgain(t)
      PROVE  Inheritance'
  <2>1. depth' = depth /\ UNCHANGED priorities
    BY <1>4 DEF Count, Refuse, Prepare, TimeOutTake, TryAgain, mutexes
  <2> QED BY <2>1, SameInheritance DEF Held
<1>5. ASSUME NEW t \in Task, NEW m \in Mutexes, GiveOne(t, m)
      PROVE  Inheritance'
  <2>1. depth[t][m] > 1
    BY <1>5 DEF GiveOne, Running, Places, CountsTakes
  <2>2. \A u \in AllTasks : Held(u) # {} => Held(u)' # {}
    BY <1>5, <2>1 DEF GiveOne, Held, Places, TypeOK
  <2> QED BY <1>5, <2>2, SameInheritance DEF GiveOne
<1>6. ASSUME NEW t \in Task, vTaskDelay(t) PROVE Inheritance'
  BY <1>6, SameInheritance DEF vTaskDelay, mutexes, Held
<1>7. ASSUME NEW delayed \in SUBSET Task, NEW expired \in SUBSET Task,
             Tick(delayed, expired)
      PROVE  Inheritance'
  BY <1>7, SameInheritance DEF Tick, Held
<1>8. CASE UNCHANGED vars
  BY <1>8, SameInheritance DEF vars, mutexes, Held
<1> QED BY <1>1, <1>2, <1>3, <1>4, <1>5, <1>6, <1>7, <1>8, BlockInheritance,
           GiveInheritance, PrioritySetInheritance DEF Next, Proceed

THEOREM InheritanceHolds == Spec => []Inheritance
BY InitInheritance, NextInheritance, PlacesHold, PTL DEF Spec

\* An inherited priority ends with the last mutex that is held.
THEOREM Inherited == Spec => []InheritanceEnds
<1>1. Inheritance => InheritanceEnds
  BY DEF Inheritance
<1> QED BY <1>1, InheritanceHolds, PTL

-----------------------------------------------------------------------------
(***************************************************************************)
(* Calm: while mutexes are used one at a time.                             *)
(***************************************************************************)
\* A task holds one mutex, and none while it asks for one.
OneAtATime ==
    ~ disturbed =>
        \A t \in AllTasks :
            /\ \A m, n \in Held(t) : m = n
            /\ pc[t] \in {"try", "wait"} => Held(t) = {}

\* While tasks wait the running task is one of the highest priority.
HighestRuns ==
    ~ disturbed /\ (\E m \in Mutexes : Waiters(m) # {}) =>
        \A t \in AllTasks :
            status[t] = "ready" => uxPriority[t] <= uxPriority[pxCurrentTCB]

\* Task t goes for mutex m, before all that wait for it.
Seeks(t, m) ==
    /\ wanted[t] = m /\ status[t] = "ready" /\ pc[t] = "try"
    /\ disturbed \/ \A u \in Waiters(m) : uxPriority[u] <= uxPriority[t]

FreeIsSought ==
    \A m \in Mutexes : uxMessagesWaiting[m] = 1 /\ Waiters(m) # {} =>
                           \E t \in Task : Seeks(t, m)

WaitersSorted ==
    ~ disturbed =>
        \A m \in Mutexes : Sorted(xTasksWaitingToReceive[m], xEventValue)

Calm == OneAtATime /\ HighestRuns /\ FreeIsSought /\ WaitersSorted /\ NoInversion

LEMMA InitCalm == Init => Calm
<1> SUFFICES ASSUME Init PROVE Calm
  OBVIOUS
<1>1. \A m \in Mutexes : xTasksWaitingToReceive[m] = <<>> /\ Waiters(m) = {}
  BY EmptyList DEF Init, Waiters
<1>2. OneAtATime
  BY DEF Init, OneAtATime, Held
<1>3. WaitersSorted
  BY <1>1 DEF WaitersSorted, Sorted
<1> QED BY <1>1, <1>2, <1>3 DEF Calm, HighestRuns, FreeIsSought, NoInversion

\* A task that waits is in Task, holds nothing in calm times, and its event item
\* has its priority.
LEMMA WaiterFacts ==
    ASSUME Places, Inheritance, OneAtATime, NEW m \in Mutexes, NEW u \in Waiters(m)
    PROVE  /\ u \in Task /\ wanted[u] = m /\ pc[u] = "try" /\ status[u] = "blocked"
           /\ u # pxCurrentTCB
           /\ ~ disturbed => /\ Held(u) = {}
                             /\ xEventValue[u] = EventItemValue(uxPriority[u])
<1>1. u \in Task
  BY ToSetByIndex DEF Places, TypeOK, Waiters
<1>2. wanted[u] = m /\ status[u] = "blocked" /\ pc[u] = "try" /\ u # pxCurrentTCB
  BY <1>1, ConstantFacts DEF Places, BlockedOK, RunningOK
<1>3. ~ disturbed => Held(u) = {}
  BY <1>1, <1>2, ConstantFacts DEF OneAtATime
<1> QED BY <1>1, <1>2, <1>3, ConstantFacts
        DEF Inheritance, InheritanceEnds, EventValueFits

\* The first of those that wait has the highest priority of them.
LEMMA HighestFirst ==
    ASSUME Places, Inheritance, OneAtATime, WaitersSorted, ~ disturbed,
           NEW m \in Mutexes
    PROVE  LET list == xTasksWaitingToReceive[m]
           IN  \A i, j \in 1..Len(list) :
                   i < j => uxPriority[list[i]] >= uxPriority[list[j]]
<1> DEFINE list == xTasksWaitingToReceive[m]
<1> SUFFICES ASSUME NEW i \in 1..Len(list), NEW j \in 1..Len(list), i < j
             PROVE  uxPriority[list[i]] >= uxPriority[list[j]]
  OBVIOUS
<1>1. list[i] \in Waiters(m) /\ list[j] \in Waiters(m)
  BY ToSetByIndex DEF Places, TypeOK, Waiters
<1>2. xEventValue[list[i]] <= xEventValue[list[j]]
  BY DEF WaitersSorted, Sorted
<1>3. /\ xEventValue[list[i]] = EventItemValue(uxPriority[list[i]])
      /\ xEventValue[list[j]] = EventItemValue(uxPriority[list[j]])
      /\ list[i] \in AllTasks /\ list[j] \in AllTasks
  BY <1>1, WaiterFacts, ConstantFacts
<1>4. uxPriority[list[i]] \in Nat /\ uxPriority[list[j]] \in Nat
  BY <1>3, ConstantFacts DEF Places, TypeOK
<1> QED BY <1>2, <1>3, <1>4, MutexAssumption DEF EventItemValue

\* With the mutexes at rest there is nothing to show.
LEMMA RestCalm ==
    ASSUME Places', Inheritance',
           \A t \in Task : wanted'[t] = NULL /\ Held(t)' = {}
    PROVE  Calm'
<1>1. \A m \in Mutexes : Waiters(m)' = {} /\ xTasksWaitingToReceive'[m] = <<>>
  <2>1. ASSUME NEW m \in Mutexes, NEW u \in Waiters(m)' PROVE FALSE
    <3>1. u \in Task
      BY ToSetByIndex DEF Places, TypeOK, Waiters
    <3>2. wanted'[u] = m
      BY <3>1, ConstantFacts DEF Places, BlockedOK
    <3> QED BY <3>1, <3>2, ConstantFacts
  <2> QED BY <2>1, EmptyByItems DEF Places, TypeOK, Waiters
<1>2. Held(Idle)' = {}
  BY ConstantFacts DEF Places, DepthOK, Held
<1>3. OneAtATime'
  BY <1>2, ConstantFacts DEF OneAtATime
<1>4. WaitersSorted'
  BY <1>1 DEF WaitersSorted, Sorted
<1> QED BY <1>1, <1>3, <1>4 DEF Calm, HighestRuns, FreeIsSought, NoInversion

\* A step of a call that moves its task, without a change of the lists, of who
\* is ready and of priorities.
LEMMA QuietCalm ==
    ASSUME Places, Places', Inheritance, Calm,
           UNCHANGED <<pxCurrentTCB, status, priorities, uxMessagesWaiting,
                       pxMutexHolder, xTasksWaitingToReceive, disturbed>>,
           NEW t \in Task, pxCurrentTCB = t,
           \A u \in AllTasks : u # t => wanted'[u] = wanted[u] /\ pc'[u] = pc[u],
           \A u \in AllTasks : Held(u)' = Held(u),
           \A m \in Mutexes : Seeks(t, m) /\ uxMessagesWaiting[m] = 1 => Seeks(t, m)',
           pc'[t] \in {"try", "wait"} => pc[t] \in {"try", "wait"}
    PROVE  Calm'
<1> USE ConstantFacts
<1>1. \A m \in Mutexes : Waiters(m)' = Waiters(m)
  BY DEF Waiters
<1>2. OneAtATime'
  BY DEF Calm, OneAtATime
<1>3. HighestRuns'
  BY <1>1 DEF Calm, HighestRuns, priorities
<1>4. FreeIsSought'
  <2> SUFFICES ASSUME NEW m \in Mutexes, uxMessagesWaiting[m] = 1, Waiters(m) # {}
               PROVE  \E u \in Task : Seeks(u, m)'
    BY <1>1 DEF FreeIsSought
  <2>1. PICK u \in Task : Seeks(u, m)
    BY DEF Calm, FreeIsSought
  <2>2. Seeks(u, m)'
    <3>1. CASE u = t
      BY <2>1, <3>1
    <3>2. CASE u # t
      BY <1>1, <2>1, <3>2 DEF Seeks, priorities
    <3> QED BY <3>1, <3>2
  <2> QED BY <2>2
<1>5. WaitersSorted' /\ NoInversion'
  BY <1>1 DEF Calm, WaitersSorted, NoInversion, priorities
<1> QED BY <1>2, <1>3, <1>4, <1>5 DEF Calm

LEMMA BeginTakeCalm ==
    ASSUME Places, Places', Inheritance, Calm, NEW t \in Task, NEW m \in Mutexes,
           NEW w \in Waits, BeginTake(t, m, w)
    PROVE  Calm'
<1> USE ConstantFacts
<1>1. /\ pxCurrentTCB = t /\ pc[t] = "run"
      /\ pc' = [pc EXCEPT ![t] = "try"] /\ wanted' = [wanted EXCEPT ![t] = m]
      /\ UNCHANGED <<pxCurrentTCB, status, priorities, mutexes>>
      /\ disturbed' = (disturbed \/ Held(t) # {})
  BY DEF BeginTake, Running, GoTo
<1>2. \A u \in AllTasks : Held(u)' = Held(u)
  BY <1>1 DEF Held, mutexes
<1>3. \A n \in Mutexes : Waiters(n)' = Waiters(n)
  BY <1>1 DEF Waiters, mutexes
<1>4. \A u \in AllTasks : u # t => wanted'[u] = wanted[u] /\ pc'[u] = pc[u]
  BY <1>1 DEF Places, TypeOK
<1>5. ~ disturbed' => ~ disturbed /\ Held(t) = {}
  BY <1>1
<1>6. OneAtATime'
  BY <1>2, <1>4, <1>5 DEF Calm, OneAtATime
<1>7. HighestRuns'
  BY <1>1, <1>3, <1>5 DEF Calm, HighestRuns, priorities
<1>8. FreeIsSought'
  <2> SUFFICES ASSUME NEW n \in Mutexes, uxMessagesWaiting[n] = 1, Waiters(n) # {}
               PROVE  \E u \in Task : Seeks(u, n)'
    BY <1>1, <1>3 DEF FreeIsSought, mutexes
  <2>1. PICK u \in Task : Seeks(u, n)
    BY DEF Calm, FreeIsSought
  <2>2. u # t
    BY <1>1, <2>1 DEF Seeks
  <2>3. Seeks(u, n)'
    BY <1>1, <1>3, <1>4, <1>5, <2>1, <2>2 DEF Seeks, priorities
  <2> QED BY <2>3
<1>9. WaitersSorted' /\ NoInversion'
  BY <1>1, <1>3, <1>5 DEF Calm, WaitersSorted, NoInversion, priorities, mutexes
<1> QED BY <1>6, <1>7, <1>8, <1>9 DEF Calm

\* Who takes a free mutex has the priority of those that wait for it: the task
\* that was woken for it has, and the running task has that one's.
LEMMA TakeCalm ==
    ASSUME Places, Places', Inheritance, Calm, NEW t \in Task, Take(t)
    PROVE  Calm'
<1> USE ConstantFacts
<1> DEFINE m == wanted[t]
<1>1. /\ pxCurrentTCB = t /\ pc[t] = "try" /\ m \in Mutexes
      /\ uxMessagesWaiting[m] = 1
  BY DEF Take, Running, Places, TypeOK, CallOK
<1>2. /\ uxMessagesWaiting' = [uxMessagesWaiting EXCEPT ![m] = @ - 1]
      /\ pxMutexHolder' = [pxMutexHolder EXCEPT ![m] = t]
      /\ depth' = [depth EXCEPT ![t][m] = @ + 1]
      /\ UNCHANGED <<pxCurrentTCB, status, priorities, xTasksWaitingToReceive,
                     disturbed>>
  BY DEF Take
<1>3. /\ \A u \in AllTasks : u # t => wanted'[u] = wanted[u] /\ pc'[u] = pc[u]
      /\ pc'[t] \in {"run", "count"}
  <2>1. CASE m \in Recursive
    BY <2>1 DEF Take, GoTo, calls, Places, TypeOK
  <2>2. CASE m \notin Recursive
    BY <2>2 DEF Take, GoTo, Return, Places, TypeOK
  <2> QED BY <2>1, <2>2
<1>4. \A n \in Mutexes : Waiters(n)' = Waiters(n)
  BY <1>2 DEF Waiters
<1>5. /\ \A u \in AllTasks : u # t => Held(u)' = Held(u)
      /\ Held(t)' \subseteq Held(t) \cup {m}
  <2>1. /\ \A u \in AllTasks : u # t => \A n \in Mutexes : depth'[u][n] = depth[u][n]
        /\ \A n \in Mutexes : n # m => depth'[t][n] = depth[t][n]
    BY <1>1, <1>2 DEF Places, TypeOK
  <2> QED BY <2>1 DEF Held
<1>6. OneAtATime'
  BY <1>1, <1>2, <1>3, <1>5 DEF Calm, OneAtATime
<1>7. HighestRuns'
  BY <1>2, <1>4 DEF Calm, HighestRuns, priorities
<1>8. FreeIsSought'
  <2> SUFFICES ASSUME NEW n \in Mutexes, uxMessagesWaiting'[n] = 1, Waiters(n) # {}
               PROVE  \E u \in Task : Seeks(u, n)'
    BY <1>4 DEF FreeIsSought
  <2>1. n # m /\ uxMessagesWaiting[n] = 1
    BY <1>1, <1>2 DEF Places, TypeOK
  <2>2. PICK u \in Task : Seeks(u, n)
    BY <2>1 DEF Calm, FreeIsSought
  <2>3. u # t
    BY <2>1, <2>2 DEF Seeks
  <2>4. Seeks(u, n)'
    BY <1>2, <1>3, <1>4, <2>2, <2>3 DEF Seeks, priorities
  <2> QED BY <2>4
<1>9. WaitersSorted'
  BY <1>2 DEF Calm, WaitersSorted, priorities
<1>10. NoInversion'
  <2> SUFFICES ASSUME NEW n \in Mutexes, NEW u \in Waiters(n), ~ disturbed,
                      pxMutexHolder'[n] # NULL
               PROVE  uxPriority[pxMutexHolder'[n]] >= uxPriority[u]
    BY <1>2, <1>4 DEF NoInversion, priorities
  <2>1. CASE n # m
    <3>1. pxMutexHolder'[n] = pxMutexHolder[n]
      BY <1>2, <2>1 DEF Places, TypeOK
    <3> QED BY <3>1 DEF Calm, NoInversion
  <2>2. CASE n = m
    <3>1. PICK v \in Task : Seeks(v, m)
      BY <1>1, <2>2 DEF Calm, FreeIsSought
    <3>2. uxPriority[u] <= uxPriority[v] /\ uxPriority[v] <= uxPriority[t]
      BY <1>1, <2>2, <3>1 DEF Seeks, Calm, HighestRuns
    <3>3. u \in Task /\ pxMutexHolder'[n] = t
      <4>1. u \in Task
        BY WaiterFacts DEF Calm
      <4>2. pxMutexHolder \in [Mutexes -> Task \cup {NULL}]
        BY DEF Places, TypeOK
      <4> QED BY <1>1, <1>2, <2>2, <4>1, <4>2
    <3>4. uxPriority[u] \in Nat /\ uxPriority[v] \in Nat /\ uxPriority[t] \in Nat
      BY <3>3 DEF Places, TypeOK
    <3> QED BY <3>2, <3>3, <3>4
  <2> QED BY <2>1, <2>2
<1> QED BY <1>6, <1>7, <1>8, <1>9, <1>10 DEF Calm

\* A call that ends: either the mutexes come to rest, or nothing else changes.
LEMMA EndCalm ==
    ASSUME Places, Places', Inheritance, Inheritance', Calm, NEW t \in Task,
           pxCurrentTCB = t, GoTo(t, "run"), Return(t),
           \A m \in Mutexes : ~ (Seeks(t, m) /\ uxMessagesWaiting[m] = 1),
           disturbed' = (disturbed /\ InUse(t, Held(t))),
           UNCHANGED <<pxCurrentTCB, status, priorities, uxMessagesWaiting,
                       pxMutexHolder, xTasksWaitingToReceive, depth>>
    PROVE  Calm'
<1> USE ConstantFacts
<1>1. /\ \A u \in AllTasks : u # t => wanted'[u] = wanted[u] /\ pc'[u] = pc[u]
      /\ pc'[t] = "run" /\ wanted'[t] = NULL
  BY DEF GoTo, Return, Places, TypeOK
<1>2. \A u \in AllTasks : Held(u)' = Held(u)
  BY DEF Held
<1>3. CASE disturbed' = disturbed
  BY <1>1, <1>2, <1>3, QuietCalm
<1>4. CASE disturbed' # disturbed
  <2>1. ~ InUse(t, Held(t))
    BY <1>4 DEF Places, TypeOK
  <2>2. \A u \in Task : wanted'[u] = NULL /\ Held(u)' = {}
    BY <1>1, <1>2, <2>1 DEF InUse
  <2> QED BY <2>2, RestCalm
<1> QED BY <1>3, <1>4

LEMMA RefuseCalm ==
    ASSUME Places, Places', Inheritance, Inheritance', Calm, NEW t \in Task,
           Refuse(t)
    PROVE  Calm'
<1>1. \A m \in Mutexes : ~ (Seeks(t, m) /\ uxMessagesWaiting[m] = 1)
  BY DEF Seeks, Refuse
<1> QED BY <1>1, EndCalm DEF Refuse, Running

LEMMA TimeOutCalm ==
    ASSUME Places, Places', Inheritance, Inheritance', Calm, NEW t \in Task,
           TimeOutTake(t)
    PROVE  Calm'
<1>1. \A m \in Mutexes : ~ (Seeks(t, m) /\ uxMessagesWaiting[m] = 1)
  BY DEF Seeks, TimeOutTake, Running
<1> QED BY <1>1, EndCalm DEF TimeOutTake, Running

LEMMA CallCalm ==
    ASSUME Places, Places', Inheritance, Calm, NEW t \in Task,
           Count(t) \/ Prepare(t) \/ TryAgain(t)
    PROVE  Calm'
<1> USE ConstantFacts
<1>1. CASE Count(t)
  <2>1. \A u \in AllTasks : u # t => wanted'[u] = wanted[u] /\ pc'[u] = pc[u]
    BY <1>1 DEF Count, GoTo, Return, Places, TypeOK
  <2>2. \A m \in Mutexes : ~ Seeks(t, m)
    BY <1>1 DEF Count, Running, Seeks
  <2>3. pc'[t] = "run"
    BY <1>1 DEF Count, GoTo, Places, TypeOK
  <2> QED BY <1>1, <2>1, <2>2, <2>3, QuietCalm DEF Count, Held, Running
<1>2. CASE Prepare(t)
  <2>1. \A u \in AllTasks : u # t => wanted'[u] = wanted[u] /\ pc'[u] = pc[u]
    BY <1>2 DEF Prepare, GoTo, Places, TypeOK
  <2>2. \A m \in Mutexes : ~ (Seeks(t, m) /\ uxMessagesWaiting[m] = 1)
    BY <1>2 DEF Prepare, Seeks
  <2> QED BY <1>2, <2>1, <2>2, QuietCalm DEF Prepare, Held, Running, mutexes
<1>3. CASE TryAgain(t)
  <2>1. \A u \in AllTasks : u # t => wanted'[u] = wanted[u] /\ pc'[u] = pc[u]
    BY <1>3 DEF TryAgain, GoTo, Places, TypeOK, calls
  <2>2. \A m \in Mutexes : ~ Seeks(t, m)
    BY <1>3 DEF TryAgain, Running, Seeks
  <2> QED BY <1>3, <2>1, <2>2, QuietCalm DEF TryAgain, Held, Running, mutexes
<1> QED BY <1>1, <1>2, <1>3

LEMMA CountingCalm ==
    ASSUME Places, Places', Inheritance, Calm, NEW t \in Task, NEW m \in Mutexes,
           TakeAgain(t, m) \/ GiveOne(t, m)
    PROVE  Calm'
<1> USE ConstantFacts
<1>1. \A u \in AllTasks : Held(u)' = Held(u)
  <2>1. CASE TakeAgain(t, m)
    <3>1. depth[t][m] > 0 /\ depth' = [depth EXCEPT ![t][m] = @ + 1]
      BY <2>1 DEF TakeAgain, Places, CountsTakes
    <3>2. ASSUME NEW u \in AllTasks, NEW n \in Mutexes
          PROVE  depth'[u][n] > 0 <=> depth[u][n] > 0
      <4>1. depth \in [AllTasks -> [Mutexes -> Nat]]
        BY DEF Places, TypeOK
      <4>2. CASE u = t /\ n = m
        BY <3>1, <4>1, <4>2
      <4>3. CASE ~ (u = t /\ n = m)
        <5>1. depth'[u][n] = depth[u][n]
          BY <3>1, <4>1, <4>3
        <5> QED BY <5>1
      <4> QED BY <4>2, <4>3
    <3> QED BY <3>2 DEF Held
  <2>2. CASE GiveOne(t, m)
    <3>1. depth[t][m] > 1 /\ depth' = [depth EXCEPT ![t][m] = @ - 1]
      BY <2>2 DEF GiveOne, Running, Places, CountsTakes
    <3>2. ASSUME NEW u \in AllTasks, NEW n \in Mutexes
          PROVE  depth'[u][n] > 0 <=> depth[u][n] > 0
      <4>1. depth \in [AllTasks -> [Mutexes -> Nat]]
        BY DEF Places, TypeOK
      <4>2. CASE u = t /\ n = m
        BY <3>1, <4>1, <4>2
      <4>3. CASE ~ (u = t /\ n = m)
        <5>1. depth'[u][n] = depth[u][n]
          BY <3>1, <4>1, <4>3
        <5> QED BY <5>1
      <4> QED BY <4>2, <4>3
    <3> QED BY <3>2 DEF Held
  <2> QED BY <2>1, <2>2
<1>2. /\ UNCHANGED <<pxCurrentTCB, status, priorities, uxMessagesWaiting,
                     pxMutexHolder, xTasksWaitingToReceive, disturbed>>
      /\ pxCurrentTCB = t /\ UNCHANGED <<pc, calls>>
  BY DEF TakeAgain, GiveOne, Running
<1>3. \A n \in Mutexes : Seeks(t, n) => Seeks(t, n)'
  BY <1>2 DEF Seeks, Waiters, priorities, calls
<1> QED BY <1>1, <1>2, <1>3, QuietCalm DEF calls

\* The holder is lent the priority of the task that blocks, which takes its place
\* in the list by its own.
LEMMA BlockCalm ==
    ASSUME Places, Places', Inheritance, Calm, NEW t \in Task, Block(t)
    PROVE  Calm'
<1> USE ConstantFacts
<1> DEFINE list == xTasksWaitingToReceive
<1>a. PICK m : m = wanted[t]
  OBVIOUS
<1>b. PICK h : h = pxMutexHolder[m]
  OBVIOUS
<1>1. /\ pxCurrentTCB = t /\ pc[t] = "wait" /\ m \in Mutexes
      /\ uxMessagesWaiting[m] = 0 /\ depth[t][m] = 0
  BY <1>a DEF Block, Running, StillTaken, Places, TypeOK, CallOK
<1>2. /\ vTaskPriorityInherit(h)
      /\ list' = [list EXCEPT ![m] = vListInsert(@, t, xEventValue')]
      /\ status' = [status EXCEPT ![t] = "blocked"]
      /\ pc' = [pc EXCEPT ![t] = "try"]
      /\ vTaskSwitchContext
      /\ UNCHANGED <<wanted, uxMessagesWaiting, pxMutexHolder, depth, disturbed>>
  BY <1>a, <1>b DEF Block, GoTo, calls
<1>3. h \in Task /\ h # t /\ m \in Held(h)
  BY <1>1, <1>b DEF Places, CountsTakes, TypeOK, Held
<1>4. /\ \A u \in AllTasks : u # h => /\ uxPriority'[u] = uxPriority[u]
                                      /\ xEventValue'[u] = xEventValue[u]
      /\ uxPriority'[h] >= uxPriority[h] /\ uxPriority'[h] >= uxPriority[t]
  <2> DEFINE p == uxPriority[pxCurrentTCB]
  <2>1. p = uxPriority[t] /\ p \in Nat /\ uxPriority[h] \in Nat
    BY <1>1, <1>3 DEF Places, TypeOK
  <2>2. CASE Inherits(h)
    <3>1. /\ uxPriority' = [uxPriority EXCEPT ![h] = p]
          /\ xEventValue' = [xEventValue EXCEPT ![h] = EventItemValue(p)]
          /\ uxPriority[h] < p
      BY <1>2, <2>2 DEF vTaskPriorityInherit, Inherits
    <3> HIDE DEF p
    <3> QED BY <1>3, <2>1, <3>1 DEF Places, TypeOK
  <2>3. CASE ~ Inherits(h)
    <3>1. UNCHANGED priorities /\ ~ (uxPriority[h] < p)
      BY <1>2, <1>3, <2>3 DEF vTaskPriorityInherit, Inherits
    <3> QED BY <2>1, <3>1 DEF priorities
  <2> QED BY <2>2, <2>3
<1>5. /\ \A n \in Mutexes : n # m => list'[n] = list[n] /\ Waiters(n)' = Waiters(n)
      /\ list'[m] = vListInsert(list[m], t, xEventValue')
      /\ IsList(list[m], Task) /\ t \notin ToSet(list[m])
      /\ Waiters(m)' = Waiters(m) \cup {t}
  <2>1. list \in [Mutexes -> Seq(Task)] /\ IsList(list[m], Task)
    BY <1>1 DEF Places, TypeOK
  <2>2. t \notin ToSet(list[m])
    BY <1>1, <1>a, WaiterFacts DEF Calm, Waiters
  <2>3. /\ \A n \in Mutexes : n # m => list'[n] = list[n]
        /\ list'[m] = vListInsert(list[m], t, xEventValue')
    BY <1>1, <1>2, <2>1
  <2>4. ToSet(list'[m]) = ToSet(list[m]) \cup {t}
    BY <2>1, <2>2, <2>3, vListInsertList
  <2>5. Waiters(m)' = Waiters(m) \cup {t}
    BY <2>4 DEF Waiters
  <2>6. \A n \in Mutexes : n # m => Waiters(n)' = Waiters(n)
    BY <2>3 DEF Waiters
  <2> QED BY <2>1, <2>2, <2>3, <2>5, <2>6
<1>6. \A u \in AllTasks : /\ Held(u)' = Held(u)
                          /\ u # t => pc'[u] = pc[u] /\ status'[u] = status[u]
  BY <1>2 DEF Held, Places, TypeOK
<1>7. OneAtATime'
  BY <1>1, <1>2, <1>6 DEF Calm, OneAtATime
<1>8. HighestRuns'
  BY <1>2 DEF HighestRuns, vTaskSwitchContext
<1>9. ~ disturbed => \A n \in Mutexes : h \notin Waiters(n)
  <2> SUFFICES ASSUME NEW n \in Mutexes, h \in Waiters(n), ~ disturbed PROVE FALSE
    OBVIOUS
  <2>1. Held(h) = {}
    BY WaiterFacts DEF Calm
  <2> QED BY <1>3, <2>1
<1>10. FreeIsSought'
  <2> SUFFICES ASSUME NEW n \in Mutexes, uxMessagesWaiting[n] = 1, Waiters(n)' # {}
               PROVE  \E u \in Task : Seeks(u, n)'
    BY <1>2 DEF FreeIsSought
  <2>1. n # m /\ Waiters(n)' = Waiters(n)
    BY <1>1, <1>5
  <2>2. PICK u \in Task : Seeks(u, n)
    BY <2>1 DEF Calm, FreeIsSought
  <2>3. u # t
    BY <1>a, <2>1, <2>2 DEF Seeks
  <2>4. ~ disturbed => u # h
    BY <1>3, <2>2 DEF Seeks, Calm, OneAtATime
  <2>5. ASSUME ~ disturbed, NEW v \in Waiters(n)
        PROVE  uxPriority'[v] <= uxPriority'[u]
    <3>1. v \in Task /\ v # h
      BY <1>9, <2>5, WaiterFacts DEF Calm
    <3> QED BY <1>4, <2>2, <2>4, <2>5, <3>1 DEF Seeks
  <2>6. Seeks(u, n)'
    BY <1>2, <1>6, <2>1, <2>2, <2>3, <2>5 DEF Seeks
  <2> QED BY <2>6
<1>11. WaitersSorted'
  <2> SUFFICES ASSUME NEW n \in Mutexes, ~ disturbed
               PROVE  Sorted(list'[n], xEventValue')
    BY <1>2 DEF WaitersSorted
  <2>1. Sorted(list[n], xEventValue')
    <3>1. Sorted(list[n], xEventValue)
      BY DEF Calm, WaitersSorted
    <3>2. \A i \in 1..Len(list[n]) : xEventValue'[list[n][i]] = xEventValue[list[n][i]]
      <4>1. ASSUME NEW i \in 1..Len(list[n])
            PROVE  xEventValue'[list[n][i]] = xEventValue[list[n][i]]
        <5>1. list[n][i] \in Waiters(n)
          BY ToSetByIndex DEF Places, TypeOK, Waiters
        <5>2. list[n][i] \in Task /\ list[n][i] # h
          BY <1>9, <5>1, WaiterFacts DEF Calm
        <5> QED BY <1>4, <5>2
      <4> QED BY <4>1
    <3> QED BY <3>1, <3>2 DEF Sorted
  <2>2. CASE n # m
    BY <1>5, <2>1, <2>2
  <2>3. CASE n = m
    <3>1. \A u \in Task : xEventValue'[u] \in Int
      BY DEF Places, TypeOK
    <3>2. Sorted(vListInsert(list[m], t, xEventValue'), xEventValue')
      BY <1>5, <2>1, <2>3, <3>1, vListInsertSorted
    <3> QED BY <1>5, <2>3, <3>2
  <2> QED BY <2>2, <2>3
<1>12. NoInversion'
  <2> SUFFICES ASSUME NEW n \in Mutexes, NEW u \in Waiters(n)', ~ disturbed,
                      pxMutexHolder[n] # NULL
               PROVE  uxPriority'[pxMutexHolder[n]] >= uxPriority'[u]
    BY <1>2 DEF NoInversion
  <2>1. /\ pxMutexHolder[n] \in Task
        /\ \A v \in AllTasks : /\ uxPriority[v] \in Nat /\ uxPriority'[v] \in Nat
                                /\ uxPriority'[v] >= uxPriority[v]
    <3>1. pxMutexHolder[n] \in Task
      BY DEF Places, TypeOK
    <3>2. ASSUME NEW v \in AllTasks
          PROVE  /\ uxPriority[v] \in Nat /\ uxPriority'[v] \in Nat
                 /\ uxPriority'[v] >= uxPriority[v]
      <4>1. uxPriority[v] \in Nat /\ uxPriority'[v] \in Nat
        BY DEF Places, TypeOK
      <4>2. uxPriority'[v] = uxPriority[v] \/ v = h
        BY <1>4
      <4> QED BY <1>4, <4>1, <4>2
    <3> QED BY <3>1, <3>2
  <2>2. CASE u \in Waiters(n)
    <3>1. u \in Task /\ u # h
      BY <1>9, <2>2, WaiterFacts DEF Calm
    <3>2. uxPriority[pxMutexHolder[n]] >= uxPriority[u]
      BY <2>2 DEF Calm, NoInversion
    <3>3. uxPriority'[u] = uxPriority[u]
      BY <1>4, <3>1
    <3> QED BY <2>1, <3>1, <3>2, <3>3
  <2>3. CASE u \notin Waiters(n)
    <3>1. n = m
      BY <1>5, <2>3
    <3>2. u \in Waiters(m)' /\ u \notin Waiters(m)
      BY <2>3, <3>1
    <3>3. u = t
      BY <1>5, <3>2
    <3>4. uxPriority'[t] = uxPriority[t]
      BY <1>3, <1>4
    <3>5. pxMutexHolder[n] = h
      BY <1>b, <3>1
    <3> QED BY <1>4, <3>3, <3>4, <3>5
  <2> QED BY <2>2, <2>3
<1> QED BY <1>7, <1>8, <1>10, <1>11, <1>12 DEF Calm

\* The waiter that is woken has the highest priority of those that wait, and the
\* giver, if it goes on, has a higher one.
LEMMA GiveCalm ==
    ASSUME Places, Places', Inheritance, Inheritance', Calm, NEW t \in Task,
           NEW m \in Mutexes, Give(t, m)
    PROVE  Calm'
<1> USE ConstantFacts
<1> DEFINE list == xTasksWaitingToReceive
           yields == Yields(t, list[m])
<1>0. PICK first : first = Head(list[m])
  OBVIOUS
<1>1. /\ pxCurrentTCB = t /\ pc[t] = "run" /\ pxMutexHolder[m] = t
      /\ wanted[t] = NULL /\ status[t] = "ready"
  BY DEF Give, Running, Places, CallOK, RunningOK
<1>2. /\ vTaskPriorityDisinherit(t)
      /\ xTaskRemoveFromEventList(m)
      /\ pxMutexHolder' = [pxMutexHolder EXCEPT ![m] = NULL]
      /\ uxMessagesWaiting' = [uxMessagesWaiting EXCEPT ![m] = @ + 1]
      /\ depth' = [depth EXCEPT ![t][m] = @ - 1]
      /\ UNCHANGED <<pc, calls>>
      /\ IF yields THEN vTaskSwitchContext ELSE UNCHANGED pxCurrentTCB
      /\ disturbed' = (/\ disturbed \/ FallsBelow(t, yields)
                       /\ InUse(t, Held(t) \ {m}))
  BY DEF Give
<1>3. \A u \in AllTasks : u # t => /\ uxPriority'[u] = uxPriority[u]
                                  /\ xEventValue'[u] = xEventValue[u]
  <2>1. CASE uxPriority[t] = uxBasePriority[t]
    BY <1>2, <2>1 DEF vTaskPriorityDisinherit, priorities
  <2>2. CASE uxPriority[t] # uxBasePriority[t]
    BY <1>2, <2>2 DEF vTaskPriorityDisinherit, Places, TypeOK
  <2> QED BY <2>1, <2>2
<1>4. /\ \A u \in AllTasks : u # t => Held(u)' = Held(u)
      /\ Held(t)' \subseteq Held(t)
      /\ ~ disturbed => Held(t)' = {} /\ Held(t) = {m}
  <2>1. /\ \A u \in AllTasks : u # t => \A n \in Mutexes : depth'[u][n] = depth[u][n]
        /\ \A n \in Mutexes : n # m => depth'[t][n] = depth[t][n]
        /\ depth'[t][m] = depth[t][m] - 1 /\ depth[t][m] > 0 /\ depth[t][m] \in Nat
    BY <1>1, <1>2 DEF Places, TypeOK, CountsTakes
  <2>2. depth'[t][m] = 0
    <3>1. pxMutexHolder'[m] = NULL
      BY <1>2 DEF Places, TypeOK
    <3> QED BY <2>1, <3>1 DEF Places, CountsTakes
  <2>3. m \in Held(t)
    BY <2>1 DEF Held
  <2>4. /\ \A u \in AllTasks : u # t => Held(u)' = Held(u)
        /\ Held(t)' = Held(t) \ {m}
    BY <2>1, <2>2 DEF Held
  <2> QED BY <2>3, <2>4 DEF Calm, OneAtATime
<1>5. CASE (disturbed \/ FallsBelow(t, yields)) /\ ~ disturbed'
  <2>1. ~ InUse(t, Held(t) \ {m})
    BY <1>2, <1>5
  <2>2. \A u \in Task \ {t} : wanted[u] = NULL /\ Held(u) = {}
    BY <2>1 DEF InUse
  <2>3. Held(t)' = {}
    <3>1. Held(t) \ {m} = {} /\ m \notin Held(t)'
      BY <1>2, <2>1 DEF InUse, Held, Places, CountsTakes, TypeOK
    <3> QED BY <1>4, <3>1
  <2>4. \A u \in Task : wanted'[u] = NULL /\ Held(u)' = {}
    BY <1>1, <1>2, <1>4, <2>2, <2>3 DEF calls
  <2> QED BY <2>4, RestCalm
<1>6. CASE ~ ((disturbed \/ FallsBelow(t, yields)) /\ ~ disturbed')
  <2>1. ~ disturbed' => ~ disturbed /\ ~ FallsBelow(t, yields)
    BY <1>6
  <2>2. list \in [Mutexes -> Seq(Task)] /\ IsList(list[m], Task)
    BY DEF Places, TypeOK
  <2>3. /\ \A n \in Mutexes : n # m => list'[n] = list[n] /\ Waiters(n)' = Waiters(n)
        /\ list[m] = <<>> => /\ Waiters(m) = {} /\ Waiters(m)' = {}
                            /\ list'[m] = <<>> /\ status' = status
        /\ list[m] # <<>> => /\ first \in Waiters(m) /\ list'[m] = Tail(list[m])
                            /\ Waiters(m)' = Waiters(m) \ {first}
                            /\ status' = [status EXCEPT ![first] = "ready"]
    <3>1. CASE list[m] = <<>>
      <4>1. UNCHANGED <<status, list>> /\ ToSet(list[m]) = {}
        BY <1>2, <3>1, EmptyList DEF xTaskRemoveFromEventList
      <4> QED BY <3>1, <4>1 DEF Waiters
    <3>2. CASE list[m] # <<>>
      <4>1. /\ list' = [list EXCEPT ![m] = Tail(@)]
            /\ status' = [status EXCEPT ![first] = "ready"]
        BY <1>0, <1>2, <3>2 DEF xTaskRemoveFromEventList
      <4>2. /\ list'[m] = Tail(list[m])
            /\ \A n \in Mutexes : n # m => list'[n] = list[n]
        BY <2>2, <4>1
      <4>3. /\ first \in ToSet(list[m])
            /\ ToSet(Tail(list[m])) = ToSet(list[m]) \ {first}
        BY <1>0, <2>2, <3>2, TailList
      <4> QED BY <3>2, <4>1, <4>2, <4>3 DEF Waiters
    <3> QED BY <3>1, <3>2
  <2>4. \A n \in Mutexes : \A u \in Waiters(n) : u \in Task /\ u # t /\ pc[u] = "try"
    BY <1>1, WaiterFacts DEF Calm
  <2>5. OneAtATime'
    BY <1>1, <1>2, <1>4, <2>1 DEF Calm, OneAtATime
  <2>6. WaitersSorted'
    <3> SUFFICES ASSUME NEW n \in Mutexes, ~ disturbed'
                 PROVE  Sorted(list'[n], xEventValue')
      BY DEF WaitersSorted
    <3>1. Sorted(list[n], xEventValue')
      <4>1. Sorted(list[n], xEventValue)
        BY <2>1 DEF Calm, WaitersSorted
      <4>2. ASSUME NEW i \in 1..Len(list[n])
            PROVE  xEventValue'[list[n][i]] = xEventValue[list[n][i]]
        <5>1. list[n][i] \in Waiters(n)
          BY <2>2, ToSetByIndex DEF Waiters
        <5> QED BY <1>3, <2>4, <5>1
      <4> QED BY <4>1, <4>2 DEF Sorted
    <3>2. CASE n # m \/ list[m] = <<>>
      BY <2>3, <3>1, <3>2
    <3>3. CASE n = m /\ list[m] # <<>>
      <4>1. Sorted(Tail(list[m]), xEventValue')
        BY <2>2, <3>1, <3>3, TailSorted
      <4> QED BY <2>3, <3>3, <4>1
    <3> QED BY <3>2, <3>3
  <2>7. list[m] # <<>> => Seeks(first, m)'
    <3> SUFFICES ASSUME list[m] # <<>> PROVE Seeks(first, m)'
      OBVIOUS
    <3>1. /\ wanted[first] = m /\ pc[first] = "try" /\ first \in Task /\ first # t
          /\ status'[first] = "ready"
      <4>1. first \in Waiters(m) /\ status' = [status EXCEPT ![first] = "ready"]
        BY <2>3
      <4>2. wanted[first] = m /\ pc[first] = "try" /\ first \in Task /\ first # t
        BY <1>1, <4>1, WaiterFacts DEF Calm
      <4> QED BY <4>1, <4>2 DEF Places, TypeOK
    <3>2. ASSUME ~ disturbed', NEW u \in Waiters(m)'
          PROVE  uxPriority'[u] <= uxPriority'[first]
      <4>1. u \in Waiters(m) /\ u # first
        BY <2>3, <3>2
      <4>2. uxPriority[u] <= uxPriority[first]
        <5>1. PICK j \in 1..Len(list[m]) : list[m][j] = u
          BY <2>2, <4>1, ToSetByIndex DEF Waiters
        <5>2. first = list[m][1] /\ Len(list[m]) \in Nat
          BY <1>0, <2>2, LenProperties
        <5>3. 1 \in 1..Len(list[m]) /\ 1 < j
          BY <4>1, <5>1, <5>2
        <5>4. uxPriority[list[m][1]] >= uxPriority[list[m][j]]
          BY <2>1, <3>2, <5>3, HighestFirst DEF Calm
        <5> QED BY <2>4, <3>1, <4>1, <5>1, <5>2, <5>4 DEF Places, TypeOK
      <4> QED BY <1>3, <2>4, <3>1, <4>1, <4>2
    <3> QED BY <1>2, <3>1, <3>2 DEF Seeks, calls
  <2>8. FreeIsSought'
    <3> SUFFICES ASSUME NEW n \in Mutexes, uxMessagesWaiting'[n] = 1, Waiters(n)' # {}
                 PROVE  \E u \in Task : Seeks(u, n)'
      BY DEF FreeIsSought
    <3>1. CASE n = m
      <4>1. list[m] # <<>>
        BY <2>3, <3>1
      <4>2. first \in Task
        BY <2>3, <2>4, <4>1
      <4> QED BY <2>7, <3>1, <4>1, <4>2
    <3>2. CASE n # m
      <4>1. PICK u \in Task : Seeks(u, n)
        BY <1>2, <2>3, <3>2 DEF Calm, FreeIsSought, Places, TypeOK
      <4>2. u # t
        BY <1>1, <4>1 DEF Seeks
      <4>3. status'[u] = "ready"
        BY <2>3, <4>1 DEF Seeks, Places, TypeOK
      <4>4. Seeks(u, n)'
        BY <1>2, <1>3, <2>1, <2>3, <2>4, <3>2, <4>1, <4>2, <4>3 DEF Seeks, calls
      <4> QED BY <4>4
    <3> QED BY <3>1, <3>2
  <2>9. HighestRuns'
    <3>1. CASE yields
      BY <1>2, <3>1 DEF HighestRuns, vTaskSwitchContext
    <3>2. CASE ~ yields
      <4> SUFFICES ASSUME ~ disturbed', NEW u \in AllTasks, status'[u] = "ready"
                   PROVE  uxPriority'[u] <= uxPriority'[t]
        BY <1>1, <1>2, <3>2 DEF HighestRuns
      <4>1. uxPriority'[u] \in Nat /\ uxPriority'[t] \in Nat
        BY DEF Places, TypeOK
      <4>2. CASE status[u] = "ready"
        BY <2>1, <3>2, <4>1, <4>2 DEF FallsBelow
      <4>3. CASE status[u] # "ready"
        <5>1. u = first /\ list[m] # <<>>
          BY <2>3, <4>3 DEF Places, TypeOK
        <5>2. ~ (uxPriority[first] >= uxPriority'[t])
          BY <1>0, <3>2, <5>1 DEF Yields
        <5>3. uxPriority'[u] = uxPriority[first]
          BY <1>3, <2>3, <2>4, <5>1
        <5> QED BY <4>1, <5>2, <5>3
      <4> QED BY <4>2, <4>3
    <3> QED BY <3>1, <3>2
  <2>10. NoInversion'
    <3> SUFFICES ASSUME NEW n \in Mutexes, NEW u \in Waiters(n)', ~ disturbed',
                        pxMutexHolder'[n] # NULL
                 PROVE  uxPriority'[pxMutexHolder'[n]] >= uxPriority'[u]
      BY DEF NoInversion
    <3>1. n # m /\ pxMutexHolder'[n] = pxMutexHolder[n] /\ u \in Waiters(n)
      BY <1>2, <2>3 DEF Places, TypeOK
    <3>2. pxMutexHolder[n] \in Task /\ pxMutexHolder[n] # t
      <4>1. pxMutexHolder[n] \in Task
        BY <3>1 DEF Places, TypeOK
      <4>2. n \notin Held(t)
        BY <1>4, <2>1, <3>1
      <4>3. depth[t][n] > 0 <=> pxMutexHolder[n] = t
        BY DEF Places, CountsTakes
      <4> QED BY <4>1, <4>2, <4>3 DEF Held
    <3>3. uxPriority[pxMutexHolder[n]] >= uxPriority[u]
      BY <2>1, <3>1 DEF Calm, NoInversion
    <3> QED BY <1>3, <2>4, <3>1, <3>2, <3>3
  <2> QED BY <2>5, <2>6, <2>8, <2>9, <2>10 DEF Calm
<1> QED BY <1>5, <1>6

\* In calm times a task whose priority is set uses no mutex, so that it is of no
\* list and goes for none.
LEMMA PrioritySetCalm ==
    ASSUME Places, Places', Inheritance, Calm, NEW t \in Task, NEW u \in Task,
           NEW p \in Priority, vTaskPrioritySet(t, u, p)
    PROVE  Calm'
<1> USE ConstantFacts
<1>1. /\ pxCurrentTCB = t /\ status[t] = "ready" /\ p # uxBasePriority[u]
      /\ uxPriority' = [uxPriority EXCEPT ![u] =
                             IF @ = uxBasePriority[u] THEN p ELSE @]
      /\ xEventValue' = [xEventValue EXCEPT ![u] = EventItemValue(p)]
      /\ disturbed' = (disturbed \/ Held(u) # {} \/ wanted[u] # NULL)
      /\ UNCHANGED <<status, pc, calls, mutexes>>
      /\ IF \/ p > uxBasePriority[u] /\ u # t /\ p >= uxPriority[t]
            \/ p < uxBasePriority[u] /\ u = t
         THEN vTaskSwitchContext
         ELSE UNCHANGED pxCurrentTCB
  BY DEF vTaskPrioritySet, Running, Places, RunningOK
<1>2. /\ \A v \in AllTasks : v # u => /\ uxPriority'[v] = uxPriority[v]
                                      /\ xEventValue'[v] = xEventValue[v]
      /\ uxPriority'[u] = IF uxPriority[u] = uxBasePriority[u] THEN p
                          ELSE uxPriority[u]
  BY <1>1 DEF Places, TypeOK
<1>3. /\ \A v \in AllTasks : Held(v)' = Held(v)
      /\ \A n \in Mutexes : Waiters(n)' = Waiters(n)
  BY <1>1 DEF Held, Waiters, mutexes
<1>4. ~ disturbed' => ~ disturbed /\ Held(u) = {} /\ wanted[u] = NULL
  BY <1>1
<1>5. \A n \in Mutexes : \A v \in Waiters(n) :
          v \in Task /\ (~ disturbed' => v # u)
  BY <1>4, WaiterFacts DEF Calm
<1>6. OneAtATime'
  BY <1>1, <1>3, <1>4 DEF Calm, OneAtATime
<1>7. HighestRuns'
  <2>1. CASE vTaskSwitchContext
    BY <2>1 DEF HighestRuns, vTaskSwitchContext
  <2>2. CASE ~ vTaskSwitchContext
    <3> SUFFICES ASSUME ~ disturbed', NEW n \in Mutexes, Waiters(n) # {},
                        NEW v \in AllTasks, status[v] = "ready"
                 PROVE  uxPriority'[v] <= uxPriority'[t]
      BY <1>1, <1>3, <2>2 DEF HighestRuns
    <3>1. uxPriority[u] = uxBasePriority[u] /\ uxPriority'[u] = p
      BY <1>2, <1>4 DEF Inheritance, InheritanceEnds
    <3>2. uxPriority[v] <= uxPriority[t]
      BY <1>1, <1>4 DEF Calm, HighestRuns
    <3>3. /\ ~ (p > uxBasePriority[u] /\ u # t /\ p >= uxPriority[t])
          /\ ~ (p < uxBasePriority[u] /\ u = t)
      BY <1>1, <2>2
    <3>4. /\ uxPriority[v] \in Nat /\ uxPriority[t] \in Nat /\ p \in Nat
          /\ uxPriority[u] \in Nat
      <4>1. p \in Nat
        BY MutexAssumption DEF Level
      <4> QED BY <4>1 DEF Places, TypeOK
    <3>5. CASE v = u
      BY <1>2, <3>1, <3>2, <3>3, <3>4, <3>5
    <3>6. CASE v # u
      BY <1>2, <3>1, <3>2, <3>3, <3>4, <3>6
    <3> QED BY <3>5, <3>6
  <2> QED BY <2>1, <2>2
<1>8. FreeIsSought'
  <2> SUFFICES ASSUME NEW n \in Mutexes, uxMessagesWaiting[n] = 1, Waiters(n) # {}
               PROVE  \E v \in Task : Seeks(v, n)'
    BY <1>1, <1>3 DEF FreeIsSought, mutexes
  <2>1. PICK v \in Task : Seeks(v, n)
    BY DEF Calm, FreeIsSought
  <2>2. ~ disturbed' => v # u
    BY <1>4, <2>1 DEF Seeks
  <2>3. Seeks(v, n)'
    BY <1>1, <1>2, <1>3, <1>4, <1>5, <2>1, <2>2 DEF Seeks, calls
  <2> QED BY <2>3
<1>9. WaitersSorted'
  <2> SUFFICES ASSUME NEW n \in Mutexes, ~ disturbed'
               PROVE  Sorted(xTasksWaitingToReceive[n], xEventValue')
    BY <1>1 DEF WaitersSorted, mutexes
  <2>1. Sorted(xTasksWaitingToReceive[n], xEventValue)
    BY <1>4 DEF Calm, WaitersSorted
  <2>2. ASSUME NEW i \in 1..Len(xTasksWaitingToReceive[n])
        PROVE  LET v == xTasksWaitingToReceive[n][i]
               IN  xEventValue'[v] = xEventValue[v]
    <3>1. xTasksWaitingToReceive[n][i] \in Waiters(n)
      BY ToSetByIndex DEF Places, TypeOK, Waiters
    <3> QED BY <1>2, <1>5, <3>1
  <2> QED BY <2>1, <2>2 DEF Sorted
<1>10. NoInversion'
  <2> SUFFICES ASSUME NEW n \in Mutexes, NEW v \in Waiters(n), ~ disturbed',
                      pxMutexHolder[n] # NULL
               PROVE  uxPriority'[pxMutexHolder[n]] >= uxPriority'[v]
    BY <1>1, <1>3 DEF NoInversion, mutexes
  <2>1. pxMutexHolder[n] \in Task /\ depth[pxMutexHolder[n]][n] > 0
    BY DEF Places, TypeOK, CountsTakes
  <2>2. pxMutexHolder[n] # u
    BY <1>4, <2>1 DEF Held
  <2>3. uxPriority[pxMutexHolder[n]] >= uxPriority[v]
    BY <1>4 DEF Calm, NoInversion
  <2> QED BY <1>2, <1>5, <2>1, <2>2, <2>3
<1> QED BY <1>6, <1>7, <1>8, <1>9, <1>10 DEF Calm

\* A wait that has nothing to do with a mutex, and the tick.
LEMMA DelayCalm ==
    ASSUME Places, Places', Inheritance, Calm, NEW t \in Task, vTaskDelay(t)
    PROVE  Calm'
<1> USE ConstantFacts
<1>1. /\ pxCurrentTCB = t /\ pc[t] = "run" /\ status' = [status EXCEPT ![t] = "delayed"]
      /\ vTaskSwitchContext
      /\ UNCHANGED <<pc, priorities, calls, mutexes, disturbed>>
  BY DEF vTaskDelay, Running
<1>2. /\ \A v \in AllTasks : Held(v)' = Held(v)
      /\ \A n \in Mutexes : Waiters(n)' = Waiters(n)
  BY <1>1 DEF Held, Waiters, mutexes
<1>3. OneAtATime'
  BY <1>1, <1>2 DEF Calm, OneAtATime
<1>4. HighestRuns'
  BY <1>1 DEF HighestRuns, vTaskSwitchContext
<1>5. FreeIsSought'
  <2> SUFFICES ASSUME NEW n \in Mutexes, uxMessagesWaiting[n] = 1, Waiters(n) # {}
               PROVE  \E v \in Task : Seeks(v, n)'
    BY <1>1, <1>2 DEF FreeIsSought, mutexes
  <2>1. PICK v \in Task : Seeks(v, n)
    BY DEF Calm, FreeIsSought
  <2>2. v # t
    BY <1>1, <2>1 DEF Seeks
  <2>3. status'[v] = "ready"
    BY <1>1, <2>1, <2>2 DEF Seeks, Places, TypeOK
  <2>4. Seeks(v, n)'
    BY <1>1, <1>2, <2>1, <2>3 DEF Seeks, calls, priorities
  <2> QED BY <2>4
<1>6. WaitersSorted' /\ NoInversion'
  BY <1>1, <1>2 DEF Calm, WaitersSorted, NoInversion, priorities, mutexes
<1> QED BY <1>3, <1>4, <1>5, <1>6 DEF Calm

LEMMA TickCalm ==
    ASSUME Places, Places', Inheritance, Calm, NEW delayed \in SUBSET Task,
           NEW expired \in SUBSET Task, Tick(delayed, expired)
    PROVE  Calm'
<1> USE ConstantFacts
<1> DEFINE list == xTasksWaitingToReceive
<1>a. PICK late : late = {v \in expired : status[v] = "blocked"}
  OBVIOUS
<1>b. PICK woken : woken = late \cup delayed
  OBVIOUS
<1>1. /\ list' = [n \in Mutexes |-> Without(list[n], late)]
      /\ status' = [v \in AllTasks |-> IF v \in woken THEN "ready" ELSE status[v]]
      /\ IF SwitchWanted(woken) THEN vTaskSwitchContext ELSE UNCHANGED pxCurrentTCB
      /\ UNCHANGED <<pc, priorities, wanted, wait, uxMessagesWaiting, pxMutexHolder,
                     uxRecursiveCallCount, depth, disturbed>>
  BY <1>a, <1>b DEF Tick
<1>2. \A n \in Mutexes : /\ IsList(list[n], Task)
                         /\ list'[n] = Without(list[n], late)
                         /\ Waiters(n)' \subseteq Waiters(n)
  <2> SUFFICES ASSUME NEW n \in Mutexes
               PROVE  /\ IsList(list[n], Task)
                      /\ list'[n] = Without(list[n], late)
                      /\ Waiters(n)' \subseteq Waiters(n)
    OBVIOUS
  <2>1. IsList(list[n], Task) /\ list'[n] = Without(list[n], late)
    BY <1>1 DEF Places, TypeOK
  <2>2. ToSet(list'[n]) = ToSet(list[n]) \ late
    BY <2>1, WithoutList
  <2> QED BY <2>1, <2>2 DEF Waiters
<1>3. \A v \in AllTasks : Held(v)' = Held(v)
  BY <1>1 DEF Held
<1>4. OneAtATime'
  BY <1>1, <1>3 DEF Calm, OneAtATime
<1>5. HighestRuns'
  <2>1. CASE SwitchWanted(woken)
    BY <1>1, <2>1 DEF HighestRuns, vTaskSwitchContext
  <2>2. CASE ~ SwitchWanted(woken)
    <3> SUFFICES ASSUME ~ disturbed, NEW n \in Mutexes, Waiters(n) # {},
                        NEW v \in AllTasks, status'[v] = "ready"
                 PROVE  uxPriority[v] <= uxPriority[pxCurrentTCB]
      BY <1>1, <1>2, <2>2 DEF HighestRuns, priorities
    <3>1. CASE status[v] = "ready"
      BY <3>1 DEF Calm, HighestRuns
    <3>2. CASE v \in woken
      <4>1. ~ (uxPriority[v] >= uxPriority[pxCurrentTCB])
        BY <2>2, <3>2 DEF SwitchWanted
      <4>2. uxPriority[v] \in Nat /\ uxPriority[pxCurrentTCB] \in Nat
        BY DEF Places, TypeOK
      <4> QED BY <4>1, <4>2
    <3> QED BY <1>1, <3>1, <3>2
  <2> QED BY <2>1, <2>2
<1>6. FreeIsSought'
  <2> SUFFICES ASSUME NEW n \in Mutexes, uxMessagesWaiting[n] = 1, Waiters(n)' # {}
               PROVE  \E v \in Task : Seeks(v, n)'
    BY <1>1 DEF FreeIsSought
  <2>1. PICK v \in Task : Seeks(v, n)
    BY <1>2 DEF Calm, FreeIsSought
  <2>2. Seeks(v, n)'
    BY <1>1, <1>2, <2>1 DEF Seeks, priorities
  <2> QED BY <2>2
<1>7. WaitersSorted'
  <2> SUFFICES ASSUME NEW n \in Mutexes, ~ disturbed
               PROVE  Sorted(list'[n], xEventValue)
    BY <1>1 DEF WaitersSorted, priorities
  <2>1. Sorted(list[n], xEventValue)
    BY DEF Calm, WaitersSorted
  <2>2. Sorted(Without(list[n], late), xEventValue)
    BY <1>2, <2>1, WithoutList
  <2> QED BY <1>2, <2>2
<1>8. NoInversion'
  BY <1>1, <1>2 DEF Calm, NoInversion, priorities
<1> QED BY <1>4, <1>5, <1>6, <1>7, <1>8 DEF Calm

LEMMA NextCalm ==
    Places /\ Places' /\ Inheritance /\ Inheritance' /\ Calm /\ [Next]_vars => Calm'
<1> SUFFICES ASSUME Places, Places', Inheritance, Inheritance', Calm, [Next]_vars
             PROVE  Calm'
  OBVIOUS
<1>1. CASE UNCHANGED vars
  <2>1. /\ UNCHANGED <<pxCurrentTCB, pc, status, priorities, calls, mutexes, disturbed>>
        /\ \A n \in Mutexes : Waiters(n)' = Waiters(n)
        /\ \A v \in AllTasks : Held(v)' = Held(v)
    BY <1>1 DEF vars, Held, Waiters, mutexes
  <2>2. \A v \in Task, n \in Mutexes : Seeks(v, n) => Seeks(v, n)'
    BY <2>1 DEF Seeks, calls, priorities
  <2>3. OneAtATime' /\ HighestRuns' /\ WaitersSorted' /\ NoInversion'
    BY <2>1 DEF Calm, OneAtATime, HighestRuns, WaitersSorted, NoInversion,
                priorities, mutexes
  <2>4. FreeIsSought'
    BY <2>1, <2>2 DEF Calm, FreeIsSought, mutexes
  <2> QED BY <2>3, <2>4 DEF Calm
<1>2. CASE Next
  BY <1>2, BeginTakeCalm, TakeCalm, RefuseCalm, TimeOutCalm, CallCalm, CountingCalm,
     BlockCalm, GiveCalm, PrioritySetCalm, DelayCalm, TickCalm DEF Next, Proceed
<1> QED BY <1>1, <1>2

THEOREM CalmHolds == Spec => []Calm
BY InitCalm, NextCalm, PlacesHold, InheritanceHolds, PTL DEF Spec

\* A task never waits behind a holder of a lower priority, while the tasks use
\* one mutex at a time, keep their priorities meanwhile, and a giver that does
\* not yield does not fall below a ready task.
THEOREM NeverInverted == Spec => []NoInversion
<1>1. Calm => NoInversion
  BY DEF Calm
<1> QED BY <1>1, CalmHolds, PTL

\* The list of those that wait for a mutex is in the order of their priorities.
THEOREM HighestIsFirst == Spec => []FirstIsHighest
<1>1. Places /\ Inheritance /\ Calm => FirstIsHighest
  BY HighestFirst DEF Calm, FirstIsHighest
<1> QED BY <1>1, PlacesHold, InheritanceHolds, CalmHolds, PTL

\* Nobody sleeps beside a free mutex that no task is on its way to.
THEOREM FreeIsTaken == Spec => []FreeIsWanted
<1>1. Calm => FreeIsWanted
  BY DEF Calm, FreeIsSought, Seeks, FreeIsWanted
<1> QED BY <1>1, CalmHolds, PTL
=============================================================================
