------------------------------- MODULE Rendezvous -------------------------------
(***************************************************************************)
(* How two domains meet to build a channel: makeConnection, on the left,   *)
(* and acceptConnection, on the right, of platform/libIVC.c, over keys of  *)
(* one directory of the store.  Either domain may die at any moment and    *)
(* another be started in its place; what it wrote stays in the store.      *)
(*                                                                         *)
(* A request to the store is one step (Xenbus), and the wait for a key is  *)
(* the guard of the step that reads it (Watches).  Grants and ports have   *)
(* the same numbers in every domain, so that a stale number never fails by *)
(* itself.  A domain makes or accepts one connection, and tries again when *)
(* the call fails.                                                         *)
(***************************************************************************)
EXTENDS Integers

CONSTANTS
    Left, Right,     \* domains that make, and that accept, the connection
    NULL

Domain == Left \cup Right

Key == {"LeftDomId", "RightDomId", "RightGrantRefs", "RightPorts",
        "LeftConnectionConfirmed"}

VARIABLES
    keys,            \* of the directory: who wrote a key, or NULL
    pc,
    other,           \* of a domain: whom it takes to be the other one
    granted,         \* of a right end: to whom it granted its pages
    offered,         \* and for whom it has an unbound event channel
    mapped,          \* of a left end: whose pages it has mapped
    attached,        \* and whose event channel it is bound to
    cut,             \* history: a right end died once its keys were complete
                     \* and before it removed them, and they may be there
    misled           \* history: the right ends told that they are connected
                     \* while that was so

rights == <<granted, offered, misled>>
lefts == <<mapped, attached>>
vars == <<keys, pc, other, rights, lefts, cut>>

Init ==
    /\ keys = [k \in Key |-> NULL]
    /\ pc = [d \in Domain |-> "off"]
    /\ other = [d \in Domain |-> NULL]
    /\ granted = [r \in Right |-> NULL] /\ offered = [r \in Right |-> NULL]
    /\ mapped = [l \in Left |-> NULL] /\ attached = [l \in Left |-> NULL]
    /\ cut = FALSE /\ misled = {}
-----------------------------------------------------------------------------
GoTo(d, place) == pc' = [pc EXCEPT ![d] = place]

Alive(d) == pc[d] \notin {"off", "dead"}

\* One domain of each side at a time.
Boot(d) ==
    /\ pc[d] = "off"
    /\ \A e \in (IF d \in Left THEN Left ELSE Right) : ~Alive(e)
    /\ GoTo(d, "run")
    /\ UNCHANGED <<keys, other, rights, lefts, cut>>

Die(d) ==
    /\ Alive(d)
    /\ cut' = (cut \/ pc[d] \in {"wait", "remove"})
    /\ GoTo(d, "dead")
    /\ UNCHANGED <<keys, other, rights, lefts>>

\* xenbus_wait_for_key, when it returns.
Found(k) == keys[k] # NULL

\* xenbus_rm of the directory.  (A faulty variant first.)
KeepsKeys == UNCHANGED keys

NoKeys == keys' = [k \in Key |-> NULL]

Write(d, k) == keys' = [keys EXCEPT ![k] = d]

(***************************************************************************)
(* makeConnection                                                          *)
(***************************************************************************)
RemoveDirectory(l) ==
    /\ pc[l] = "run"
    /\ NoKeys
    /\ cut' = FALSE
    /\ GoTo(l, "name")
    /\ UNCHANGED <<other, rights, lefts>>

WriteLeftDomId(l) ==
    /\ pc[l] = "name"
    /\ Write(l, "LeftDomId")
    /\ GoTo(l, "peer")
    /\ UNCHANGED <<other, rights, lefts, cut>>

ReadRightDomId(l) ==
    /\ pc[l] = "peer"
    /\ Found("RightDomId")
    /\ other' = [other EXCEPT ![l] = keys["RightDomId"]]
    /\ GoTo(l, "map")
    /\ UNCHANGED <<keys, rights, lefts, cut>>

\* Xen maps what the other domain, if it is there, has granted to this one; a
\* call that fails leaves what it wrote.
MapGrants(l) ==
    LET r == other[l] IN
    /\ pc[l] = "map"
    /\ Found("RightGrantRefs")
    /\ IF Alive(r) /\ granted[r] = l
       THEN mapped' = [mapped EXCEPT ![l] = r] /\ GoTo(l, "bind")
       ELSE GoTo(l, "run") /\ UNCHANGED mapped
    /\ UNCHANGED <<keys, other, rights, attached, cut>>

BindPort(l) ==
    LET r == other[l] IN
    /\ pc[l] = "bind"
    /\ Found("RightPorts")
    /\ IF Alive(r) /\ offered[r] = l
       THEN attached' = [attached EXCEPT ![l] = r] /\ GoTo(l, "confirm")
       ELSE GoTo(l, "run") /\ UNCHANGED attached
    /\ UNCHANGED <<keys, other, rights, mapped, cut>>

\* The left end has built its channel, and returns it.
Confirm(l) ==
    /\ pc[l] = "confirm"
    /\ Write(l, "LeftConnectionConfirmed")
    /\ GoTo(l, "connected")
    /\ UNCHANGED <<other, rights, lefts, cut>>

(***************************************************************************)
(* acceptConnection                                                        *)
(***************************************************************************)
ReadLeftDomId(r) ==
    /\ pc[r] = "run"
    /\ Found("LeftDomId")
    /\ other' = [other EXCEPT ![r] = keys["LeftDomId"]]
    /\ GoTo(r, "accept")
    /\ UNCHANGED <<keys, rights, lefts, cut>>

\* Its pages are granted, and an event channel is allocated, or not.
GrantPages(r, ok) ==
    /\ pc[r] = "accept"
    /\ granted' = [granted EXCEPT ![r] = other[r]]
    /\ IF ok THEN offered' = [offered EXCEPT ![r] = other[r]] /\ GoTo(r, "identify")
       ELSE GoTo(r, "run") /\ UNCHANGED offered
    /\ UNCHANGED <<keys, other, misled, lefts, cut>>

WriteRightDomId(r) ==
    /\ pc[r] = "identify"
    /\ Write(r, "RightDomId")
    /\ GoTo(r, "refs")
    /\ UNCHANGED <<other, rights, lefts, cut>>

WriteGrantRefs(r) ==
    /\ pc[r] = "refs"
    /\ Write(r, "RightGrantRefs")
    /\ GoTo(r, "ports")
    /\ UNCHANGED <<other, rights, lefts, cut>>

WritePorts(r) ==
    /\ pc[r] = "ports"
    /\ Write(r, "RightPorts")
    /\ GoTo(r, "wait")
    /\ UNCHANGED <<other, rights, lefts, cut>>

ReadConfirmed(r) ==
    /\ pc[r] = "wait"
    /\ Found("LeftConnectionConfirmed")
    /\ misled' = IF cut THEN misled \cup {r} ELSE misled
    /\ GoTo(r, "remove")
    /\ UNCHANGED <<keys, other, granted, offered, lefts, cut>>

CleanUp(r) ==
    /\ pc[r] = "remove"
    /\ NoKeys
    /\ cut' = FALSE
    /\ GoTo(r, "connected")
    /\ UNCHANGED <<other, rights, lefts>>
-----------------------------------------------------------------------------
Next ==
    \/ \E d \in Domain : Boot(d) \/ Die(d)
    \/ \E l \in Left :
        \/ RemoveDirectory(l) \/ WriteLeftDomId(l) \/ ReadRightDomId(l)
        \/ MapGrants(l) \/ BindPort(l) \/ Confirm(l)
    \/ \E r \in Right :
        \/ ReadLeftDomId(r)
        \/ \E ok \in BOOLEAN : GrantPages(r, ok)
        \/ WriteRightDomId(r) \/ WriteGrantRefs(r) \/ WritePorts(r)
        \/ ReadConfirmed(r) \/ CleanUp(r)

Spec == Init /\ [][Next]_vars
-----------------------------------------------------------------------------
\* The two ends of a channel are each other's, whichever domains died and were
\* started again meanwhile: a left end that is connected has the pages and the
\* event channel of one right end, which granted them to it; and the left end
\* that a right end is connected to has its pages and its event channel.  That a
\* left end begins by removing the directory is not enough for this when the
\* right end before died between the wait and the removal: the confirmation that
\* was meant for that one is taken by the next.
EndsAgree ==
    /\ \A l \in Left : pc[l] = "connected" =>
          /\ mapped[l] = attached[l] /\ attached[l] # NULL
          /\ granted[attached[l]] = l
    /\ \A r \in Right : pc[r] = "connected" =>
          \/ r \in misled
          \/ mapped[other[r]] = r /\ attached[other[r]] = r
=============================================================================
