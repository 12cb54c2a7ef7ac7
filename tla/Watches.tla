-------------------------------- MODULE Watches --------------------------------
(***************************************************************************)
(* The watches of platform/xen/xenbus.c: tasks keep a list of them and     *)
(* wait for their events on a queue, both linked lists that nothing        *)
(* guards; the thread, of a higher priority than theirs, pushes events.    *)
(* A request to the store is a step here, refused or not (Xenbus).         *)
(***************************************************************************)
EXTENDS SequencesExt, Integers

CONSTANTS
    Watcher,      \* tasks
    NULL,
    Token,        \* each in use by one task at a time
    MaxEvents     \* bound on the watch events

VARIABLES
    pc, token,        \* of a task; the token of the call it makes
    seen,             \* the list that a task has loaded
    watches, xenbus_events,       \* the lists, by tokens
    registered,       \* the store's watches, as the thread has heard of them
    fired, owed,      \* history: the events sent, and those pushed that no
                      \* wait has returned
    raced             \* history: a list changed between a task's load of it and
                      \* the store or the sleep that rests on it

taskVars == <<pc, token, seen>>
vars == <<taskVars, watches, xenbus_events, registered, fired, owed, raced>>

Init ==
    /\ pc = [t \in Watcher |-> "run"]
    /\ token = [t \in Watcher |-> NULL]
    /\ seen = [t \in Watcher |-> <<>>]
    /\ watches = <<>> /\ xenbus_events = <<>> /\ registered = {}
    /\ fired = 0 /\ owed = 0 /\ raced = FALSE
-----------------------------------------------------------------------------
GoTo(t, place) == pc' = [pc EXCEPT ![t] = place]
Load(t, list) == seen' = [seen EXCEPT ![t] = list]

Return(t) ==
    /\ GoTo(t, "run")
    /\ Load(t, <<>>)
    /\ token' = [token EXCEPT ![t] = NULL]

\* What rests on the list that t has loaded, and is not so any more.
Rest(t, list) == raced' = (raced \/ list # seen[t])

(***************************************************************************)
(* xenbus_watch_path_token and xenbus_unwatch_path_token.                  *)
(***************************************************************************)
Begin(t, w, place) ==
    /\ pc[t] = "run"
    /\ \A u \in Watcher : token[u] # w
    /\ token' = [token EXCEPT ![t] = w]
    /\ GoTo(t, place)

BeginWatch(t, w) ==
    /\ Begin(t, w, "link")
    /\ ~Contains(watches, w)
    /\ Load(t, watches)
    /\ UNCHANGED <<watches, xenbus_events, registered, fired, owed, raced>>

\* watches = watch, whose next is what was loaded.
Link(t) ==
    /\ pc[t] = "link"
    /\ watches' = <<token[t]>> \o seen[t]
    /\ Rest(t, watches)
    /\ GoTo(t, "ask")
    /\ Load(t, <<>>)
    /\ UNCHANGED <<token, xenbus_events, registered, fired, owed>>

\* A watch that the store refuses stays in the list.
Watch(t, ok) ==
    /\ pc[t] = "ask"
    /\ registered' = IF ok THEN registered \cup {token[t]} ELSE registered
    /\ Return(t)
    /\ UNCHANGED <<watches, xenbus_events, fired, owed, raced>>

BeginUnwatch(t, w) ==
    /\ Begin(t, w, "end")
    /\ UNCHANGED <<seen, watches, xenbus_events, registered, fired, owed, raced>>

Unwatch(t, ok) ==
    /\ pc[t] = "end"
    /\ IF ok
       THEN /\ registered' = registered \ {token[t]}
            /\ GoTo(t, "unlink")
            /\ Load(t, watches)
            /\ UNCHANGED token
       ELSE Return(t) /\ UNCHANGED registered
    /\ UNCHANGED <<watches, xenbus_events, fired, owed, raced>>

\* What is left of a list without the first watch of the token.  (A faulty
\* variant first.)
WithoutHead(list, w) == IF list = <<>> THEN <<>> ELSE Tail(list)

Without(list, w) == RemoveFirst(list, w)

\* The watch leaves the list by a store to the link that led to it: to watches,
\* if it was the first, and that hides what was pushed since.
Unlink(t) ==
    /\ pc[t] = "unlink"
    /\ watches' = IF seen[t] # <<>> /\ Head(seen[t]) = token[t]
                  THEN Without(seen[t], token[t])
                  ELSE Without(watches, token[t])
    /\ Rest(t, watches)
    /\ Return(t)
    /\ UNCHANGED <<xenbus_events, registered, fired, owed>>

(***************************************************************************)
(* xenbus_wait_for_watch_return on xenbus_events.                          *)
(***************************************************************************)
BeginWait(t) ==
    /\ pc[t] = "run"
    /\ GoTo(t, "test")
    /\ UNCHANGED <<token, seen, watches, xenbus_events, registered, fired, owed,
                   raced>>

\* An event is loaded, or there is none,
Test(t) ==
    /\ pc[t] = "test"
    /\ Load(t, xenbus_events)
    /\ GoTo(t, IF xenbus_events = <<>> THEN "sleep" ELSE "pop")
    /\ UNCHANGED <<token, watches, xenbus_events, registered, fired, owed, raced>>

\* ... and wait_on sleeps without a time-out.
Sleep(t) ==
    /\ pc[t] = "sleep"
    /\ GoTo(t, "asleep")
    /\ Rest(t, xenbus_events)
    /\ UNCHANGED <<token, seen, watches, xenbus_events, registered, fired, owed>>

Pop(t) ==
    /\ pc[t] = "pop"
    /\ xenbus_events' = Tail(seen[t])
    /\ owed' = owed - 1
    /\ Rest(t, xenbus_events)
    /\ Return(t)
    /\ UNCHANGED <<watches, registered, fired>>

(***************************************************************************)
(* The thread takes an event of a registered watch; one of a token that is *)
(* not in the list is dropped.                                             *)
(***************************************************************************)
\* wake_up.
WakesAll == pc' = [t \in Watcher |-> IF pc[t] = "asleep" THEN "test" ELSE pc[t]]

Push(w) ==
    /\ w \in registered
    /\ fired < MaxEvents
    /\ fired' = fired + 1
    /\ IF Contains(watches, w)
       THEN /\ xenbus_events' = <<w>> \o xenbus_events
            /\ owed' = owed + 1
            /\ WakesAll
       ELSE UNCHANGED <<xenbus_events, owed, pc>>
    /\ UNCHANGED <<token, seen, watches, registered, raced>>
-----------------------------------------------------------------------------
Next ==
    \/ \E t \in Watcher :
        \/ \E w \in Token : BeginWatch(t, w) \/ BeginUnwatch(t, w)
        \/ Link(t) \/ Unlink(t)
        \/ \E ok \in BOOLEAN : Watch(t, ok) \/ Unwatch(t, ok)
        \/ BeginWait(t) \/ Test(t) \/ Sleep(t) \/ Pop(t)
    \/ \E w \in Token : Push(w)

Spec == Init /\ [][Next]_vars
-----------------------------------------------------------------------------
\* Nothing is lost but by the races of lists that nothing guards: unless one
\* changed between a load and the store or the sleep that rests on it, every
\* watch that the store keeps is in the list, so that its events are not
\* dropped; every event pushed is in the queue until a wait returns it; and no
\* task sleeps beside an event.
OnlyRacesLose ==
    \/ raced
    \/ /\ \A w \in registered : Contains(watches, w)
       /\ owed = Len(xenbus_events)
       /\ xenbus_events # <<>> => \A t \in Watcher : pc[t] # "asleep"
=============================================================================
