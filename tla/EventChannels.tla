----------------------------- MODULE EventChannels -----------------------------
(***************************************************************************)
(* Event channels: platform/xen/hypervisor.c and events.c.  Xen, on        *)
(* another processor, raises an event on a port in memory it shares with   *)
(* the guest; the callback, which no task's step interrupts                *)
(* (configINTERRUPT_NESTING is 0), finds the ports by two levels of bits.  *)
(***************************************************************************)
EXTENDS FiniteSetsExt, Integers

CONSTANTS
    NR_EVS,      \* the number of ports
    BITS         \* the number of bits in an unsigned long

Port == 0..NR_EVS - 1
Selector(port) == port \div BITS

VARIABLES
    evtchn_pending, evtchn_mask,                  \* shared: sets of ports,
    evtchn_pending_sel, evtchn_upcall_pending,    \* a set of selectors, a flag
    sending,             \* of a port: what Xen has still to do for an event
    callback, l1, port,  \* of do_hypervisor_callback: where it is, its locals
    bound,               \* the ports whose handler is not default_handler
    busy, on             \* of "task" and "handler": what it has still to do, and
                         \* for which port

shared == <<evtchn_pending, evtchn_mask, evtchn_pending_sel, evtchn_upcall_pending>>
guest == <<callback, l1, port>>
tasks == <<bound, busy, on>>
vars == <<shared, sending, guest, tasks>>

\* init_events
Init ==
    /\ evtchn_pending = {} /\ evtchn_mask = Port
    /\ evtchn_pending_sel = {} /\ evtchn_upcall_pending = FALSE
    /\ sending = [p \in Port |-> "done"]
    /\ callback = "out" /\ l1 = {} /\ port = 0
    /\ bound = {}
    /\ busy = [a \in {"task", "handler"} |-> "no"]
    /\ on = [a \in {"task", "handler"} |-> 0]
-----------------------------------------------------------------------------
(***************************************************************************)
(* Xen (external): it sets the pending bit, and if that was clear and the  *)
(* port is not masked the selector's, and if that was clear the flag.      *)
(***************************************************************************)
Send(p) ==
    /\ sending[p] = "done"
    /\ p \notin evtchn_pending
    /\ evtchn_pending' = evtchn_pending \cup {p}
    /\ sending' = [sending EXCEPT ![p] = "select"]
    /\ UNCHANGED <<evtchn_mask, evtchn_pending_sel, evtchn_upcall_pending, guest,
                   tasks>>

SendSelect(p) ==
    LET tells == p \notin evtchn_mask /\ Selector(p) \notin evtchn_pending_sel IN
    /\ sending[p] = "select"
    /\ evtchn_pending_sel' = IF tells THEN evtchn_pending_sel \cup {Selector(p)}
                             ELSE evtchn_pending_sel
    /\ sending' = [sending EXCEPT ![p] = IF tells THEN "upcall" ELSE "done"]
    /\ UNCHANGED <<evtchn_pending, evtchn_mask, evtchn_upcall_pending, guest,
                   tasks>>

SendUpcall(p) ==
    /\ sending[p] = "upcall"
    /\ evtchn_upcall_pending' = TRUE
    /\ sending' = [sending EXCEPT ![p] = "done"]
    /\ UNCHANGED <<evtchn_pending, evtchn_mask, evtchn_pending_sel, guest, tasks>>
-----------------------------------------------------------------------------
(***************************************************************************)
(* do_hypervisor_callback, by the interrupt that the flag raises.          *)
(***************************************************************************)
Enter ==
    /\ callback = "out"
    /\ evtchn_upcall_pending
    /\ callback' = "exchange"
    /\ evtchn_upcall_pending' = FALSE
    /\ UNCHANGED <<evtchn_pending, evtchn_mask, evtchn_pending_sel, sending, l1,
                   port, tasks>>

Exchange ==
    /\ callback = "exchange"
    /\ l1' = evtchn_pending_sel
    /\ evtchn_pending_sel' = {}
    /\ callback' = "scan"
    /\ UNCHANGED <<evtchn_pending, evtchn_mask, evtchn_upcall_pending, sending,
                   port, tasks>>

PendingPorts(selector) == {p \in evtchn_pending : Selector(p) = selector}

active_evtchns(selector) == PendingPorts(selector) \ evtchn_mask

\* The next port of the lowest selector, or the next selector, or the end.
Scan ==
    /\ callback = "scan"
    /\ IF l1 = {} THEN callback' = "out" /\ UNCHANGED <<l1, port>>
       ELSE IF active_evtchns(Min(l1)) = {}
       THEN l1' = l1 \ {Min(l1)} /\ UNCHANGED <<callback, port>>
       ELSE port' = Min(active_evtchns(Min(l1))) /\ callback' = "event"
            /\ UNCHANGED l1
    /\ UNCHANGED <<shared, sending, tasks>>

\* do_event: the port is cleared and its handler called.  That of a channel
\* unmasks the port (libIVC.c), which is not masked; others only wake tasks.
do_event(unmasks) ==
    /\ callback = "event"
    /\ evtchn_pending' = evtchn_pending \ {port}
    /\ callback' = "return"
    /\ IF unmasks
       THEN /\ busy' = [busy EXCEPT !["handler"] = "test"]
            /\ on' = [on EXCEPT !["handler"] = port]
       ELSE UNCHANGED <<busy, on>>
    /\ UNCHANGED <<evtchn_mask, evtchn_pending_sel, evtchn_upcall_pending,
                   sending, l1, port, bound>>

Handled ==
    /\ callback = "return"
    /\ busy["handler"] = "no"
    /\ callback' = "scan"
    /\ port' = 0
    /\ UNCHANGED <<shared, sending, l1, tasks>>
-----------------------------------------------------------------------------
Done(a) ==
    /\ busy' = [busy EXCEPT ![a] = "no"]
    /\ on' = [on EXCEPT ![a] = 0]

Runs(a) == IF a = "task" THEN callback = "out" ELSE callback = "return"

\* The rest of unmask_evtchn, in a task or in a handler: an event that came while
\* the port was masked is sent again  (a faulty variant of the test first),
LosesEdge(p) == FALSE

Resends(p) == p \in evtchn_pending

UnmaskTest(a) ==
    /\ busy[a] = "test" /\ Runs(a)
    /\ IF Resends(on[a])
       THEN busy' = [busy EXCEPT ![a] = "select"] /\ UNCHANGED on
       ELSE Done(a)
    /\ UNCHANGED <<shared, sending, guest, bound>>

\* ... unless its selector is set, and will be seen.
UnmaskSelect(a) ==
    LET tells == Selector(on[a]) \notin evtchn_pending_sel IN
    /\ busy[a] = "select" /\ Runs(a)
    /\ evtchn_pending_sel' = evtchn_pending_sel \cup {Selector(on[a])}
    /\ IF tells THEN busy' = [busy EXCEPT ![a] = "upcall"] /\ UNCHANGED on
       ELSE Done(a)
    /\ UNCHANGED <<evtchn_pending, evtchn_mask, evtchn_upcall_pending, sending,
                   guest, bound>>

UnmaskUpcall(a) ==
    /\ busy[a] = "upcall" /\ Runs(a)
    /\ evtchn_upcall_pending' = TRUE
    /\ Done(a)
    /\ UNCHANGED <<evtchn_pending, evtchn_mask, evtchn_pending_sel, sending, guest,
                   bound>>
-----------------------------------------------------------------------------
(***************************************************************************)
(* What tasks do.                                                          *)
(***************************************************************************)
Begin(p, step) ==
    /\ busy["task"] = "no" /\ Runs("task")
    /\ busy' = [busy EXCEPT !["task"] = step]
    /\ on' = [on EXCEPT !["task"] = p]

Idle == busy["task"] = "no" /\ Runs("task")

\* bind_evtchn: its data are there before its handler.
bind_evtchn(p) ==
    /\ Idle
    /\ p \notin bound
    /\ bound' = bound \cup {p}
    /\ UNCHANGED <<shared, sending, guest, busy, on>>

\* unmask_evtchn begins.
unmask_evtchn(p) ==
    /\ p \in bound
    /\ Begin(p, "test")
    /\ evtchn_mask' = evtchn_mask \ {p}
    /\ UNCHANGED <<evtchn_pending, evtchn_pending_sel, evtchn_upcall_pending,
                   sending, guest, bound>>

\* unbind_evtchn: the port is masked,
unbind_evtchn(p) ==
    /\ p \in bound
    /\ Begin(p, "clear")
    /\ evtchn_mask' = evtchn_mask \cup {p}
    /\ UNCHANGED <<evtchn_pending, evtchn_pending_sel, evtchn_upcall_pending,
                   sending, guest, bound>>

\* ... cleared,
UnbindClear ==
    /\ busy["task"] = "clear" /\ Runs("task")
    /\ evtchn_pending' = evtchn_pending \ {on["task"]}
    /\ busy' = [busy EXCEPT !["task"] = "default"]
    /\ UNCHANGED <<evtchn_mask, evtchn_pending_sel, evtchn_upcall_pending, sending,
                   guest, bound, on>>

\* ... and left to default_handler.
UnbindDefault ==
    /\ busy["task"] = "default" /\ Runs("task")
    /\ bound' = bound \ {on["task"]}
    /\ Done("task")
    /\ UNCHANGED <<shared, sending, guest>>
-----------------------------------------------------------------------------
Callback ==
    \/ Enter \/ Exchange \/ Scan \/ Handled
    \/ \E unmasks \in BOOLEAN : do_event(unmasks)

Next ==
    \/ \E p \in Port : Send(p) \/ SendSelect(p) \/ SendUpcall(p)
    \/ Callback
    \/ \E p \in Port : \/ bind_evtchn(p) \/ unmask_evtchn(p) \/ unbind_evtchn(p)
    \/ \E a \in {"task", "handler"} : UnmaskTest(a) \/ UnmaskSelect(a)
                                         \/ UnmaskUpcall(a)
    \/ UnbindClear \/ UnbindDefault

Spec == Init /\ [][Next]_vars
-----------------------------------------------------------------------------
\* Who is about to tell the guest of what is pending for a selector.
Tells(selector) ==
    \/ \E p \in Port : Selector(p) = selector /\ sending[p] = "upcall"
    \/ \E a \in {"task", "handler"} :
          Selector(on[a]) = selector /\ busy[a] = "upcall"

\* No edge is lost: an event on a port that is not masked, whether it came while
\* the port was masked, while it was being unmasked or while the callback was on
\* its way out, is on the way to its handler (hypervisor.c:98).
NoEdgeLost ==
    \A p \in evtchn_pending \ evtchn_mask :
        \/ Selector(p) \in l1
        \/ sending[p] = "select"
        \/ \E a \in {"task", "handler"} : on[a] = p /\ busy[a] \in {"test", "select"}
        \/ /\ Selector(p) \in evtchn_pending_sel
           /\ \/ evtchn_upcall_pending
              \/ callback = "exchange"
              \/ Tells(Selector(p))
=============================================================================
