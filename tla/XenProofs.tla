------------------------------- MODULE XenProofs -------------------------------
(***************************************************************************)
(* Safety of MCXen, for all values of its constants.                       *)
(***************************************************************************)
EXTENDS MCXen, SequenceLemmas, FiniteSetTheorems

-----------------------------------------------------------------------------
(***************************************************************************)
(* The indices of a ring.                                                  *)
(***************************************************************************)
\* Adding on either side of a remainder, and within it.
LEMMA RemainderOfSum ==
    ASSUME NEW d \in Nat \ {0}, NEW a \in Int, NEW b \in Int
    PROVE  /\ ((a % d) + b) % d = (a + b) % d
           /\ (a - (b % d)) % d = (a - b) % d
<1>1. PICK q, s : q = a \div d /\ s = a % d
  OBVIOUS
<1>2. q \in Int /\ s \in 0..d - 1 /\ a = d * q + s
  BY <1>1, Divided
<1>3. PICK p, t : p = b \div d /\ t = b % d
  OBVIOUS
<1>4. p \in Int /\ t \in 0..d - 1 /\ b = d * p + t
  BY <1>3, Divided
<1>5. (s + b) % d = (a + b) % d
  <2>1. PICK k, r : k = (s + b) \div d /\ r = (s + b) % d
    OBVIOUS
  <2>2. k \in Int /\ r \in 0..d - 1 /\ s + b = d * k + r
    BY <1>2, <2>1, Divided
  <2>3. PICK m, n : m = q + k /\ n = a + b
    OBVIOUS
  <2>4. m \in Int /\ n \in Int /\ n = d * m + r
    BY <1>2, <2>2, <2>3
  <2>5. n % d = r
    BY <2>2, <2>4, RemainderIs
  <2> QED BY <2>1, <2>3, <2>5
<1>6. (a - t) % d = (a - b) % d
  <2>1. PICK k, r : k = (a - t) \div d /\ r = (a - t) % d
    OBVIOUS
  <2>2. k \in Int /\ r \in 0..d - 1 /\ a - t = d * k + r
    BY <1>4, <2>1, Divided
  <2>3. PICK m, n : m = k - p /\ n = a - b
    OBVIOUS
  <2>4. m \in Int /\ n \in Int /\ n = d * m + r
    BY <1>4, <2>2, <2>3
  <2>5. n % d = r
    BY <2>2, <2>4, RemainderIs
  <2> QED BY <2>1, <2>3, <2>5
<1> QED BY <1>1, <1>3, <1>5, <1>6

-----------------------------------------------------------------------------
(***************************************************************************)
(* Sequences of messages on their way.                                     *)
(***************************************************************************)
LEMMA HeadMoves ==
    ASSUME NEW S, NEW a \in Seq(S), NEW b \in Seq(S), b # <<>>
    PROVE  /\ Append(a, Head(b)) \in Seq(S) /\ Tail(b) \in Seq(S)
           /\ Append(a, Head(b)) \o Tail(b) = a \o b
<1>1. /\ Head(b) \in S /\ Tail(b) \in Seq(S)
      /\ b = <<Head(b)>> \o Tail(b)
  BY HeadTailProperties
<1>2. <<Head(b)>> \in Seq(S) /\ Append(a, Head(b)) = a \o <<Head(b)>>
  BY <1>1, AppendIsConcat
<1>3. (a \o <<Head(b)>>) \o Tail(b) = a \o (<<Head(b)>> \o Tail(b))
  BY <1>1, <1>2, ConcatAssociative
<1> QED BY <1>1, <1>2, <1>3, AppendProperties

\* What becomes of the messages on their way when one is taken, added at the end,
\* or put among them.
LEMMA ConcatTail ==
    ASSUME NEW S, NEW a \in Seq(S), NEW b \in Seq(S), a # <<>>
    PROVE  /\ Tail(a) \in Seq(S)
           /\ a \o b # <<>> /\ Head(a \o b) = Head(a)
           /\ Tail(a) \o b = Tail(a \o b)
<1>1. Tail(a) \in Seq(S) /\ Head(a) = a[1] /\ Len(a) \in Nat /\ Len(a) # 0
      /\ Len(b) \in Nat /\ Len(Tail(a)) = Len(a) - 1
      /\ \A i \in 1..Len(a) - 1 : Tail(a)[i] = a[i + 1]
  BY HeadTailProperties, EmptySeq, LenProperties
<1>2. /\ a \o b \in Seq(S) /\ Len(a \o b) = Len(a) + Len(b)
      /\ \A i \in 1..Len(a) + Len(b) :
            (a \o b)[i] = IF i <= Len(a) THEN a[i] ELSE b[i - Len(a)]
  BY ConcatProperties
<1>3. /\ Tail(a) \o b \in Seq(S) /\ Len(Tail(a) \o b) = Len(a) - 1 + Len(b)
      /\ \A i \in 1..Len(a) - 1 + Len(b) : (Tail(a) \o b)[i] =
            IF i <= Len(a) - 1 THEN Tail(a)[i] ELSE b[i - (Len(a) - 1)]
  BY <1>1, ConcatProperties
<1>4. PICK c, d : c = a \o b /\ d = Tail(a) \o b
  OBVIOUS
<1>5. c # <<>> /\ Head(c) = Head(a)
  BY <1>1, <1>2, <1>4
<1>6. /\ Tail(c) \in Seq(S) /\ Len(Tail(c)) = Len(c) - 1
      /\ \A i \in 1..Len(c) - 1 : Tail(c)[i] = c[i + 1]
  BY <1>2, <1>4, <1>5, HeadTailProperties
<1>7. \A i \in 1..Len(d) : d[i] = Tail(c)[i]
  <2> SUFFICES ASSUME NEW i \in 1..Len(d) PROVE d[i] = Tail(c)[i]
    OBVIOUS
  <2>1. i + 1 \in 1..Len(a) + Len(b) /\ Tail(c)[i] = c[i + 1]
    BY <1>1, <1>2, <1>3, <1>4, <1>6
  <2> QED BY <1>1, <1>2, <1>3, <1>4, <2>1
<1>8. d = Tail(c)
  BY <1>1, <1>2, <1>3, <1>4, <1>6, <1>7, SeqEqual
<1> QED BY <1>1, <1>4, <1>5, <1>8

LEMMA ConcatAppend ==
    ASSUME NEW S, NEW a \in Seq(S), NEW b \in Seq(S), NEW x \in S
    PROVE  a \o Append(b, x) = Append(a \o b, x)
<1>1. <<x>> \in Seq(S) /\ a \o b \in Seq(S)
  BY ConcatProperties
<1>2. Append(b, x) = b \o <<x>> /\ Append(a \o b, x) = (a \o b) \o <<x>>
  BY <1>1, AppendIsConcat
<1> QED BY <1>1, <1>2, ConcatAssociative

LEMMA ConcatBetween ==
    ASSUME NEW S, NEW a \in Seq(S), NEW b \in Seq(S), NEW x \in S
    PROVE  \A i \in 1..Len(Append(a, x) \o b) :
              \/ i = Len(a) + 1 /\ (Append(a, x) \o b)[i] = x
              \/ i <= Len(a) /\ i \in 1..Len(a \o b)
                 /\ (Append(a, x) \o b)[i] = (a \o b)[i]
              \/ i > Len(a) + 1 /\ i - 1 \in 1..Len(a \o b)
                 /\ (Append(a, x) \o b)[i] = (a \o b)[i - 1]
<1>1. /\ a \o b \in Seq(S) /\ Len(a \o b) = Len(a) + Len(b)
      /\ \A i \in 1..Len(a) + Len(b) :
            (a \o b)[i] = IF i <= Len(a) THEN a[i] ELSE b[i - Len(a)]
      /\ Len(a) \in Nat /\ Len(b) \in Nat
  BY ConcatProperties, LenProperties
<1>2. PICK c : c = Append(a, x)
  OBVIOUS
<1>3. /\ c \in Seq(S) /\ Len(c) = Len(a) + 1 /\ c[Len(a) + 1] = x
      /\ \A i \in 1..Len(a) : c[i] = a[i]
  BY <1>2, AppendProperties
<1>4. /\ Len(c \o b) = Len(a) + 1 + Len(b)
      /\ \A i \in 1..Len(a) + 1 + Len(b) :
            (c \o b)[i] = IF i <= Len(a) + 1 THEN c[i] ELSE b[i - (Len(a) + 1)]
  <2>1. /\ Len(c \o b) = Len(c) + Len(b)
        /\ \A i \in 1..Len(c) + Len(b) :
              (c \o b)[i] = IF i <= Len(c) THEN c[i] ELSE b[i - Len(c)]
    BY <1>3, ConcatProperties
  <2> QED BY <1>3, <2>1
<1>5. ASSUME NEW i \in 1..Len(c \o b)
      PROVE  \/ i = Len(a) + 1 /\ (c \o b)[i] = x
             \/ i <= Len(a) /\ i \in 1..Len(a \o b) /\ (c \o b)[i] = (a \o b)[i]
             \/ i > Len(a) + 1 /\ i - 1 \in 1..Len(a \o b)
                /\ (c \o b)[i] = (a \o b)[i - 1]
  <2>1. CASE i = Len(a) + 1
    BY <1>1, <1>3, <1>4, <2>1
  <2>2. CASE i <= Len(a)
    BY <1>1, <1>3, <1>4, <2>2
  <2>3. CASE i > Len(a) + 1
    BY <1>1, <1>3, <1>4, <2>3
  <2> QED BY <1>1, <1>4, <2>1, <2>2, <2>3
<1> QED BY <1>2, <1>5

-----------------------------------------------------------------------------
(***************************************************************************)
(* Xenbus: the requests and their identifiers.                             *)
(***************************************************************************)
Id == Client!Id
LEN == Client!LEN
Using == {"write", "room", "notify", "await"}
Sent == {"notify", "await"}
Users == {t \in Task : pc[t] \in Using}

Message == [id : Id, task : Task, call : Nat]
Event == [id : {NULL}]

ClientType ==
    /\ pc \in [Task -> Using \cup {"run", "allocate", "full"}]
    /\ call \in [Task -> Nat]
    /\ id \in [Task -> Id \cup {NULL}]
    /\ in_use \in [Id -> BOOLEAN] /\ ready \in [Id -> BOOLEAN]
    /\ reply \in [Id -> Message \cup Event \cup {NULL}]
    /\ nr_live_reqs \in Nat /\ probe \in Id
    /\ req \in Seq(Message \cup Event) /\ outgoing \in Seq(Message \cup Event)
    /\ rsp \in Seq(Message \cup Event)
    /\ rsp_prod \in 0..INDICES - 1 /\ rsp_cons \in 0..INDICES - 1

\* Who has an identifier has it alone, and the identifiers that are had are counted.
IdsOwned ==
    /\ \A t \in Users : id[t] \in Id /\ in_use[id[t]]
    /\ \A t, u \in Users : id[t] = id[u] => t = u
    /\ \A i \in Id : in_use[i] => \E t \in Users : id[t] = i
    /\ nr_live_reqs = Cardinality(Users)

\* The indices of the response ring are those of its messages, the last of which may
\* lack its body.
RingFits ==
    LET used == Client!Used(rsp_prod, rsp_cons) IN
    /\ used <= RING_SIZE
    /\ \/ used = LEN * Len(rsp)
       \/ rsp # <<>> /\ used = LEN * (Len(rsp) - 1) + 1

\* The messages on their way, from the next to arrive to the last that was sent.
Flight == rsp \o (outgoing \o req)

\* A message on its way is the request of a task that waits for it.
Awaited(m) ==
    /\ m.task \in Task /\ pc[m.task] \in Sent
    /\ id[m.task] = m.id /\ call[m.task] = m.call
    /\ ~ ready[m.id]

FlightOK ==
    /\ \A i \in 1..Len(Flight) : Flight[i].id # NULL => Awaited(Flight[i])
    /\ \A i, j \in 1..Len(Flight) :
          i # j /\ Flight[i].id # NULL /\ Flight[j].id # NULL =>
              Flight[i].task # Flight[j].task

RepliesRight ==
    \A t \in Users :
        ready[id[t]] => /\ pc[t] \in Sent
                        /\ reply[id[t]].task = t /\ reply[id[t]].call = call[t]

ClientInv == ClientType /\ IdsOwned /\ RingFits /\ FlightOK /\ RepliesRight

LEMMA ClientConstants ==
    /\ IsFiniteSet(Task) /\ NULL \notin Id /\ Id = 0..NR_REQS - 1 /\ 0 \in Id
    /\ NR_REQS \in Nat \ {0} /\ INDICES \in Nat \ {0}
    /\ RING_SIZE \in Nat /\ BODY \in Nat \ {0} /\ LEN \in Nat /\ LEN > 1 /\ LEN = 1 + BODY
    /\ RING_SIZE + LEN <= INDICES
BY ClientAssumption DEF Id, Client!Id, LEN, Client!LEN

LEMMA ClientOperators ==
    /\ \A S : Client!Min(S) = Min(S)
    /\ \A S : Client!Cardinality(S) = Cardinality(S)
BY DEF Client!Min, Min, Client!Cardinality, Cardinality

LEMMA FlightTyped ==
    ASSUME ClientType
    PROVE  /\ Flight \in Seq(Message \cup Event) /\ Len(Flight) \in Nat
           /\ outgoing \o req \in Seq(Message \cup Event)
           /\ \A i \in 1..Len(Flight) : Flight[i] \in Message \cup Event
           /\ \A m \in Message \cup Event : m.id # NULL => m \in Message /\ m.id \in Id
<1>1. outgoing \o req \in Seq(Message \cup Event)
  BY ConcatProperties DEF ClientType
<1>2. Flight \in Seq(Message \cup Event)
  BY <1>1, ConcatProperties DEF ClientType, Flight
<1>3. \A i \in 1..Len(Flight) : Flight[i] \in Message \cup Event
  BY <1>2, ElementOfSeq
<1>4. \A m \in Message \cup Event : m.id # NULL => m \in Message /\ m.id \in Id
  BY DEF Message, Event
<1> QED BY <1>1, <1>2, <1>3, <1>4, LenProperties

LEMMA ClientInit == Client!Init => ClientInv
<1> SUFFICES ASSUME Client!Init PROVE ClientInv
  OBVIOUS
<1>1. /\ pc = [t \in Task |-> "run"] /\ call = [t \in Task |-> 0]
      /\ id = [t \in Task |-> NULL]
      /\ in_use = [i \in Id |-> FALSE] /\ ready = [i \in Id |-> FALSE]
      /\ reply = [i \in Id |-> NULL]
      /\ nr_live_reqs = 0 /\ probe = 0 /\ req = <<>> /\ outgoing = <<>> /\ rsp = <<>>
      /\ rsp_prod = 0 /\ rsp_cons = 0
  BY DEF Client!Init, Id
<1>2. Users = {}
  BY <1>1 DEF Users, Using
<1>3. ClientType
  <2>1. <<>> \in Seq(Message \cup Event)
    BY EmptySeq
  <2> QED BY <1>1, <2>1, ClientConstants DEF ClientType, Using
<1>4. IdsOwned
  BY <1>1, <1>2, FS_EmptySet DEF IdsOwned
<1>5. RingFits
  <2>1. (0 - 0) % INDICES = 0
    BY ClientConstants, RemainderIs
  <2>2. Len(rsp) = 0 /\ LEN * 0 = 0
    BY <1>1, ClientConstants
  <2> QED BY <1>1, <2>1, <2>2, ClientConstants DEF RingFits, Client!Used
<1>6. FlightOK
  <2>1. Flight = <<>>
    BY <1>1, <1>3, ConcatEmptySeq DEF Flight, ClientType
  <2> QED BY <2>1 DEF FlightOK
<1> QED BY <1>2, <1>3, <1>4, <1>5, <1>6 DEF ClientInv, RepliesRight

\* A task goes on without a change of its identifier.
LEMMA ClientMoves ==
    ASSUME ClientInv, NEW t \in Task,
           NEW place \in Using \cup {"run", "allocate", "full"},
           pc' = [pc EXCEPT ![t] = place],
           pc[t] \in Using <=> place \in Using, pc[t] \in Sent <=> place \in Sent,
           call' \in [Task -> Nat], \A u \in Task \ {t} : call'[u] = call[u],
           pc[t] \in Using => call'[t] = call[t],
           UNCHANGED <<id, in_use, ready, reply, nr_live_reqs, probe>>,
           UNCHANGED <<rsp, rsp_prod, rsp_cons, outgoing, req>>
    PROVE  ClientInv'
<1> USE DEF ClientInv
<1>1. /\ \A u \in Task : /\ pc'[u] \in Using <=> pc[u] \in Using
                         /\ pc'[u] \in Sent <=> pc[u] \in Sent
                         /\ pc[u] \in Using => call'[u] = call[u]
      /\ UNCHANGED <<id, in_use, ready, reply, nr_live_reqs, probe>>
  BY DEF ClientType
<1>2. ClientType'
  BY <1>1 DEF ClientType
<1>3. Users' = Users
  BY <1>1 DEF Users
<1>4. IdsOwned'
  BY <1>1, <1>3 DEF IdsOwned
<1>5. RingFits'
  BY DEF RingFits, Client!Used
<1>6. Flight' = Flight
  BY DEF Flight
<1>7. FlightOK'
  BY <1>1, <1>6 DEF FlightOK, Awaited, Sent, Using
<1>8. RepliesRight'
  BY <1>1, <1>3 DEF RepliesRight, Users
<1> QED BY <1>2, <1>4, <1>5, <1>7, <1>8

\* The messages on their way after a step.
LEMMA FlightBecomes ==
    ASSUME NEW F, F = Flight',
           \A i \in 1..Len(F) : F[i].id # NULL => Awaited(F[i])',
           \A i, j \in 1..Len(F) :
              i # j /\ F[i].id # NULL /\ F[j].id # NULL => F[i].task # F[j].task
    PROVE  FlightOK'
BY DEF FlightOK, Awaited

LEMMA ClientStill ==
    ASSUME ClientInv,
           UNCHANGED <<pc, call, id, in_use, ready, reply, nr_live_reqs, probe, rsp,
                       rsp_prod, rsp_cons, outgoing, req>>
    PROVE  ClientInv'
<1> USE DEF ClientInv
<1>1. ClientType'
  BY DEF ClientType
<1>2. Users' = Users /\ Flight' = Flight
  BY DEF Users, Flight
<1>3. IdsOwned' /\ RingFits' /\ RepliesRight'
  BY <1>2 DEF IdsOwned, RingFits, Client!Used, RepliesRight
<1>4. FlightOK'
  BY <1>2 DEF FlightOK, Awaited
<1> QED BY <1>1, <1>3, <1>4

\* A free identifier is found, and nobody had it.
LEMMA ClientAllocates ==
    ASSUME ClientInv, NEW t \in Task, Client!Allocate(t)
    PROVE  ClientInv'
<1> USE DEF ClientInv
<1>1. CASE Client!Probed = {}
  <2>1. UNCHANGED <<pc, call, id, in_use, ready, reply, nr_live_reqs, probe, rsp, rsp_prod,
                    rsp_cons, outgoing, req>>
    BY <1>1 DEF Client!Allocate, Client!idVars, Client!rspVars, Client!storeVars,
       Client!reqVars
  <2> QED BY <2>1, ClientStill
<1>2. CASE Client!Probed # {}
  <2>1. PICK n, i : n = Min(Client!Probed) /\ i = (probe + n) % NR_REQS
    OBVIOUS
  <2>2. /\ pc[t] = "allocate" /\ pc' = [pc EXCEPT ![t] = "write"]
        /\ nr_live_reqs' = nr_live_reqs + 1 /\ in_use' = [in_use EXCEPT ![i] = TRUE]
        /\ ready' = [ready EXCEPT ![i] = FALSE]
        /\ probe' = (i + 1) % NR_REQS /\ id' = [id EXCEPT ![t] = i]
        /\ UNCHANGED <<call, reply, rsp, rsp_prod, rsp_cons, outgoing, req>>
    BY <1>2, <2>1, ClientOperators DEF Client!Allocate, Client!At, Client!GoTo,
       Client!Unready, Client!rspVars, Client!storeVars, Client!reqVars
  <2>3. n \in Client!Probed
    <3>1. Client!Probed \in SUBSET Nat
      BY ClientConstants DEF Client!Probed
    <3> QED BY <1>2, <2>1, <3>1, MinOfNat
  <2>4. n \in 0..NR_REQS - 1 /\ ~ in_use[i]
    BY <2>1, <2>3 DEF Client!Probed
  <2>5. i \in Id /\ (i + 1) % NR_REQS \in Id
    <3>1. PICK k : k = probe + n
      OBVIOUS
    <3>2. k \in Int
      BY <2>4, <3>1, ClientConstants DEF ClientType
    <3>3. i \in Id
      BY <2>1, <3>1, <3>2, ClientConstants, Divided
    <3>4. i + 1 \in Int
      BY <3>3, ClientConstants
    <3> QED BY <3>3, <3>4, ClientConstants, Divided
  <2>6. ClientType'
    BY <2>2, <2>5 DEF ClientType, Using
  <2>7. Users' = Users \cup {t} /\ t \notin Users
    BY <2>2 DEF Users, Using, ClientType
  <2>8. /\ \A u \in Users : u # t /\ id'[u] = id[u] /\ id[u] # i /\ pc'[u] = pc[u]
        /\ id'[t] = i /\ in_use'[i] /\ ~ ready'[i] /\ pc'[t] = "write"
        /\ \A j \in Id \ {i} : in_use'[j] = in_use[j] /\ ready'[j] = ready[j]
    BY <2>2, <2>4, <2>5, <2>7 DEF ClientType, IdsOwned, Users
  <2>9. IdsOwned'
    <3>1. IsFiniteSet(Users) /\ Cardinality(Users \cup {t}) = Cardinality(Users) + 1
      <4>1. IsFiniteSet(Users)
        BY ClientConstants, FS_Subset DEF Users
      <4> QED BY <4>1, <2>7, FS_AddElement
    <3>2. nr_live_reqs' = Cardinality(Users')
      BY <2>2, <2>7, <3>1 DEF IdsOwned
    <3>3. \A u \in Users' : id'[u] \in Id /\ in_use'[id'[u]]
      BY <2>5, <2>7, <2>8 DEF IdsOwned
    <3>4. \A u, v \in Users' : id'[u] = id'[v] => u = v
      BY <2>7, <2>8 DEF IdsOwned
    <3>5. \A j \in Id : in_use'[j] => \E u \in Users' : id'[u] = j
      BY <2>7, <2>8 DEF IdsOwned
    <3> QED BY <3>2, <3>3, <3>4, <3>5 DEF IdsOwned
  <2>10. RingFits'
    BY <2>2 DEF RingFits, Client!Used
  <2>11. FlightOK'
    <3>1. Flight' = Flight
      BY <2>2 DEF Flight
    <3>2. ASSUME NEW m, m.id # NULL, Awaited(m) PROVE Awaited(m)'
      <4>1. m.task \in Users /\ m.id = id[m.task] /\ m.id \in Id \ {i}
        BY <2>8, <3>2 DEF Awaited, Users, Sent, Using, IdsOwned
      <4> QED BY <2>2, <2>8, <3>2, <4>1 DEF Awaited
    <3> QED BY <3>1, <3>2 DEF FlightOK
  <2>12. RepliesRight'
    <3> SUFFICES ASSUME NEW u \in Users', ready'[id'[u]]
                 PROVE  /\ pc'[u] \in Sent
                        /\ reply'[id'[u]].task = u /\ reply'[id'[u]].call = call'[u]
      BY DEF RepliesRight
    <3>1. u \in Users /\ id'[u] = id[u] /\ id[u] \in Id \ {i}
      BY <2>7, <2>8 DEF IdsOwned
    <3> QED BY <2>2, <2>8, <3>1 DEF RepliesRight
  <2> QED BY <2>6, <2>9, <2>10, <2>11, <2>12
<1> QED BY <1>1, <1>2

\* The message of a task that has none on its way.
LEMMA ClientPublishes ==
    ASSUME ClientInv, NEW t \in Task, Client!Publish(t)
    PROVE  ClientInv'
<1> USE DEF ClientInv
<1>1. CASE bug'
  <2>1. UNCHANGED <<pc, call, id, in_use, ready, reply, nr_live_reqs, probe, rsp, rsp_prod,
                    rsp_cons, outgoing, req>>
    BY <1>1 DEF Client!Publish, Client!idVars, Client!rspVars, Client!storeVars
  <2> QED BY <2>1, ClientStill
<1>2. CASE ~ bug'
  <2>1. PICK m : m = [id |-> id[t], task |-> t, call |-> call[t]]
    OBVIOUS
  <2>2. /\ pc[t] = "room" /\ pc' = [pc EXCEPT ![t] = "notify"]
        /\ req' = Append(req, m)
        /\ UNCHANGED <<call, id, in_use, ready, reply, nr_live_reqs, probe, rsp, rsp_prod,
                       rsp_cons, outgoing>>
    BY <1>2, <2>1 DEF Client!Publish, Client!At, Client!GoTo, Client!idVars,
       Client!rspVars, Client!storeVars
  <2>3. t \in Users /\ id[t] \in Id /\ ~ ready[id[t]] /\ m \in Message
    <3>1. t \in Users /\ pc[t] \notin Sent
      BY <2>2 DEF Users, Using, Sent
    <3>2. id[t] \in Id /\ ~ ready[id[t]]
      BY <3>1 DEF IdsOwned, RepliesRight
    <3> QED BY <2>1, <3>1, <3>2 DEF Message, ClientType
  <2>4. ClientType'
    <3>1. req' \in Seq(Message \cup Event)
      BY <2>2, <2>3, AppendProperties DEF ClientType
    <3> QED BY <2>2, <3>1 DEF ClientType, Using
  <2>5. Users' = Users /\ \A u \in Task \ {t} : pc'[u] = pc[u]
    BY <2>2, <2>3 DEF Users, Using, ClientType
  <2>6. pc'[t] = "notify"
    BY <2>2 DEF ClientType
  <2>7. IdsOwned' /\ RingFits' /\ RepliesRight'
    BY <2>2, <2>5, <2>6 DEF IdsOwned, RingFits, Client!Used, RepliesRight, Sent
  <2>8. Flight' = Append(Flight, m)
    <3>1. outgoing \o Append(req, m) = Append(outgoing \o req, m)
      BY <2>3, ConcatAppend DEF ClientType
    <3>2. rsp \o Append(outgoing \o req, m) = Append(rsp \o (outgoing \o req), m)
      <4>1. PICK b : b = outgoing \o req
        OBVIOUS
      <4>2. b \in Seq(Message \cup Event) /\ rsp \in Seq(Message \cup Event)
        BY <4>1, FlightTyped DEF ClientType
      <4> QED BY <2>3, <4>1, <4>2, ConcatAppend
    <3> QED BY <2>2, <3>1, <3>2 DEF Flight
  <2>9. /\ Len(Flight') = Len(Flight) + 1 /\ Flight'[Len(Flight) + 1] = m
        /\ \A i \in 1..Len(Flight) : Flight'[i] = Flight[i]
    BY <2>3, <2>8, FlightTyped, AppendProperties
  <2>10. Awaited(m)' /\ m.task = t
    BY <2>1, <2>2, <2>3, <2>6 DEF Awaited, Sent
  <2>11. ASSUME NEW n, Awaited(n) PROVE Awaited(n)' /\ n.task # t
    BY <2>2, <2>5, <2>11 DEF Awaited, Sent
  <2>12. FlightOK'
    <3>1. PICK F, n : F = Flight' /\ n = Len(Flight)
      OBVIOUS
    <3>2. /\ \A i \in 1..Len(F) : i \in 1..n \/ i = n + 1
          /\ F[n + 1] = m /\ \A i \in 1..n : F[i] = Flight[i]
      BY <2>9, <3>1, FlightTyped
    <3>3. \A i \in 1..Len(F) : F[i].id # NULL => Awaited(F[i])'
      BY <2>10, <2>11, <3>1, <3>2 DEF FlightOK
    <3>4. ASSUME NEW i \in 1..Len(F), NEW j \in 1..Len(F), i # j,
                 F[i].id # NULL, F[j].id # NULL
          PROVE  F[i].task # F[j].task
      BY <2>10, <2>11, <3>1, <3>2, <3>4 DEF FlightOK
    <3> QED BY <3>1, <3>3, <3>4, FlightBecomes
  <2> QED BY <2>4, <2>7, <2>12
<1> QED BY <1>1, <1>2

\* The reply is taken and the identifier given back.
LEMMA ClientReceives ==
    ASSUME ClientInv, NEW t \in Task, Client!Receive(t)
    PROVE  ClientInv'
<1> USE DEF ClientInv
<1>1. PICK i : i = id[t]
  OBVIOUS
<1>2. /\ pc[t] = "await" /\ pc' = [pc EXCEPT ![t] = "run"] /\ ready[i]
      /\ in_use' = [in_use EXCEPT ![i] = FALSE] /\ nr_live_reqs' = nr_live_reqs - 1
      /\ id' = [id EXCEPT ![t] = NULL]
      /\ UNCHANGED <<call, ready, reply, probe, rsp, rsp_prod, rsp_cons, outgoing, req>>
  BY <1>1 DEF Client!Receive, Client!Released, Client!At, Client!GoTo, Client!rspVars,
     Client!storeVars, Client!reqVars
<1>3. t \in Users /\ i \in Id
  BY <1>1, <1>2 DEF Users, Using, IdsOwned
<1>4. IsFiniteSet(Users) /\ Cardinality(Users \ {t}) = Cardinality(Users) - 1
      /\ Cardinality(Users \ {t}) \in Nat
  <2>1. IsFiniteSet(Users)
    BY ClientConstants, FS_Subset DEF Users
  <2> QED BY <1>3, <2>1, FS_RemoveElement, FS_CardinalityType, FS_Subset
<1>5. nr_live_reqs' = Cardinality(Users \ {t})
  BY <1>2, <1>4 DEF IdsOwned
<1>6. ClientType'
  BY <1>2, <1>3, <1>4, <1>5 DEF ClientType, Using
<1>7. Users' = Users \ {t}
  BY <1>2 DEF Users, Using, ClientType
<1>8. /\ \A u \in Users' : u # t /\ u \in Users /\ id'[u] = id[u] /\ id[u] # i
                           /\ pc'[u] = pc[u]
      /\ ~ in_use'[i] /\ \A j \in Id \ {i} : in_use'[j] = in_use[j]
  BY <1>1, <1>2, <1>3, <1>7 DEF ClientType, IdsOwned, Users
<1>9. IdsOwned'
  <2>1. \A u \in Users' : id'[u] \in Id /\ in_use'[id'[u]]
    BY <1>8 DEF IdsOwned
  <2>2. \A j \in Id : in_use'[j] => \E u \in Users' : id'[u] = j
    <3> SUFFICES ASSUME NEW j \in Id, in_use'[j] PROVE \E u \in Users' : id'[u] = j
      OBVIOUS
    <3>1. j # i /\ in_use[j]
      BY <1>8
    <3>2. PICK u \in Users : id[u] = j
      BY <3>1 DEF IdsOwned
    <3>3. u \in Users'
      BY <1>1, <1>7, <3>1, <3>2
    <3> QED BY <1>8, <3>2, <3>3
  <2> QED BY <1>5, <1>7, <1>8, <2>1, <2>2 DEF IdsOwned
<1>10. RingFits'
  BY <1>2 DEF RingFits, Client!Used
<1>11. FlightOK'
  <2>1. Flight' = Flight
    BY <1>2 DEF Flight
  <2>2. ASSUME NEW m, Awaited(m) PROVE Awaited(m)'
    <3>1. m.task # t
      BY <1>1, <1>2, <2>2 DEF Awaited
    <3> QED BY <1>2, <2>2, <3>1 DEF Awaited, ClientType
  <2> QED BY <2>1, <2>2 DEF FlightOK
<1>12. RepliesRight'
  BY <1>2, <1>8 DEF RepliesRight
<1> QED BY <1>6, <1>9, <1>10, <1>11, <1>12

\* What is in a ring after its indices moved.
LEMMA UsedMoves ==
    ASSUME NEW p \in 0..INDICES - 1, NEW c \in 0..INDICES - 1, NEW k \in Nat,
           NEW u, u = Client!Used(p, c)
    PROVE  /\ u \in 0..INDICES - 1
           /\ u + k < INDICES => /\ Client!Used(p + k, c) = u + k
                                 /\ Client!Used((p + k) % INDICES, c) = u + k
           /\ u >= k => Client!Used(p, (c + k) % INDICES) = u - k
           /\ (p + k) % INDICES \in 0..INDICES - 1 /\ (c + k) % INDICES \in 0..INDICES - 1
<1> DEFINE d == INDICES
<1>1. d \in Nat \ {0}
  BY ClientConstants
<1> HIDE DEF d
<1>2. /\ p \in Int /\ c \in Int /\ p - c \in Int /\ p + k \in Int /\ c + k \in Int
      /\ u = (p - c) % d
  BY <1>1 DEF Client!Used, d
<1>3. u \in 0..d - 1
  BY <1>1, <1>2, Divided
<1>4. ASSUME u + k < d PROVE (p + k - c) % d = u + k /\ (((p + k) % d) - c) % d = u + k
  <2>1. PICK a, b, e : a = p - c /\ b = p + k /\ e = -c
    OBVIOUS
  <2>2. a \in Int /\ b \in Int /\ e \in Int /\ k \in Int
    BY <1>2, <2>1
  <2>3. ((a % d) + k) % d = (a + k) % d /\ ((b % d) + e) % d = (b + e) % d
    BY <1>1, <2>2, RemainderOfSum
  <2>4. a + k = p + k - c /\ b + e = p + k - c /\ (b % d) + e = (b % d) - c
    <3>1. b % d \in Int
      BY <1>1, <2>2, Divided
    <3> QED BY <1>2, <2>1, <3>1
  <2>5. (u + k) % d = u + k
    <3>1. u + k \in 0..d - 1 /\ u + k = d * 0 + (u + k)
      BY <1>1, <1>3, <1>4
    <3> QED BY <1>1, <3>1, RemainderIs
  <2> QED BY <1>2, <2>1, <2>3, <2>4, <2>5
<1>5. ASSUME u >= k PROVE (p - ((c + k) % d)) % d = u - k
  <2>1. PICK a, b, e : a = c + k /\ b = p - c /\ e = -k
    OBVIOUS
  <2>2. a \in Int /\ b \in Int /\ e \in Int /\ p \in Int
    BY <1>2, <2>1
  <2>3. (p - (a % d)) % d = (p - a) % d
    BY <1>1, <2>2, RemainderOfSum
  <2>4. ((b % d) + e) % d = (b + e) % d
    BY <1>1, <2>2, RemainderOfSum
  <2>6. p - a = b + e /\ (b % d) + e = u - k
    BY <1>2, <1>3, <2>1
  <2>5. (u - k) % d = u - k
    <3>1. u - k \in 0..d - 1 /\ u - k = d * 0 + (u - k)
      BY <1>1, <1>3, <1>5
    <3> QED BY <1>1, <3>1, RemainderIs
  <2> QED BY <2>1, <2>3, <2>4, <2>5, <2>6
<1>6. (p + k) % d \in 0..d - 1 /\ (c + k) % d \in 0..d - 1
  BY <1>1, <1>2, Divided
<1> QED BY <1>2, <1>3, <1>4, <1>5, <1>6 DEF Client!Used, d

\* The thread takes a message, and gives it to the task whose request it answers.
LEMMA ClientDelivers ==
    ASSUME ClientInv, Client!Thread
    PROVE  ClientInv'
<1> USE DEF ClientInv
<1>1. UNCHANGED <<pc, call, id, req, rsp_prod, outgoing>>
  BY DEF Client!Thread, Client!taskVars, Client!reqVars, Client!storeVars
<1>2. CASE ~ Client!Whole
  <2>1. UNCHANGED <<in_use, ready, reply, nr_live_reqs, probe, rsp, rsp_cons>>
    BY <1>2 DEF Client!Thread, Client!idVars
  <2> QED BY <1>1, <2>1, ClientStill
<1>3. CASE Client!Whole
  <2>1. PICK u, n, m : u = Client!Used(rsp_prod, rsp_cons) /\ n = Len(rsp) /\ m = Head(rsp)
    OBVIOUS
  <2>2. rsp' = Tail(rsp) /\ rsp_cons' = (rsp_cons + LEN) % INDICES
    BY <1>3 DEF Client!Thread, LEN
  <2>3. /\ u \in 0..INDICES - 1 /\ rsp_cons' \in 0..INDICES - 1
        /\ u >= LEN => Client!Used(rsp_prod, rsp_cons') = u - LEN
    <3>1. rsp_prod \in 0..INDICES - 1 /\ rsp_cons \in 0..INDICES - 1 /\ LEN \in Nat
      BY ClientConstants DEF ClientType
    <3>2. u = Client!Used(rsp_prod, rsp_cons)
      BY <2>1
    <3>3. PICK p, c, k : p = rsp_prod /\ c = rsp_cons /\ k = LEN
      OBVIOUS
    <3>4. /\ p \in 0..INDICES - 1 /\ c \in 0..INDICES - 1 /\ k \in Nat
          /\ u = Client!Used(p, c)
      BY <3>1, <3>2, <3>3
    <3>5. u \in 0..INDICES - 1 /\ (c + k) % INDICES \in 0..INDICES - 1
      BY <3>4, UsedMoves
    <3>6. ASSUME u >= k PROVE Client!Used(p, (c + k) % INDICES) = u - k
      BY <3>4, <3>6, UsedMoves
    <3> QED BY <2>2, <3>3, <3>5, <3>6
  <2>4. u >= LEN
    BY <1>3, <2>1 DEF Client!Whole, LEN
  <2>5. rsp # <<>> /\ n \in Nat \ {0}
    <3>1. n \in Nat /\ (rsp = <<>> <=> n = 0)
      BY <2>1, EmptySeq, LenProperties DEF ClientType
    <3>2. n = 0 => LEN * n = 0
      BY ClientConstants
    <3> QED BY <2>1, <2>3, <2>4, <3>1, <3>2, ClientConstants DEF RingFits
  <2>6. /\ rsp' \in Seq(Message \cup Event) /\ Len(rsp') = n - 1
        /\ m \in Message \cup Event /\ m = rsp[1]
    BY <2>1, <2>2, <2>5, HeadTailProperties DEF ClientType
  <2>7. RingFits'
    <3>1. u - LEN <= RING_SIZE
      <4>1. u <= RING_SIZE
        BY <2>1 DEF RingFits
      <4> QED BY <2>3, <4>1, ClientConstants
    <3>2. ASSUME u = LEN * n PROVE u - LEN = LEN * (n - 1)
      BY <2>5, <3>2, ClientConstants
    <3>3. ASSUME u = LEN * (n - 1) + 1
          PROVE  rsp' # <<>> /\ u - LEN = LEN * (n - 1 - 1) + 1
      <4>1. n - 1 # 0
        <5>1. LEN * 0 = 0
          BY ClientConstants
        <5> QED BY <2>4, <3>3, <5>1, ClientConstants
      <4>2. rsp' # <<>>
        BY <2>5, <2>6, <4>1, EmptySeq
      <4> QED BY <2>5, <3>3, <4>2, ClientConstants
    <3>4. Client!Used(rsp_prod, rsp_cons') = u - LEN
      BY <2>3, <2>4
    <3>5. (Client!Used(rsp_prod, rsp_cons))' = u - LEN
      BY <1>1, <3>4 DEF Client!Used
    <3> QED BY <2>1, <2>6, <3>1, <3>2, <3>3, <3>5 DEF RingFits
  <2>8. Flight # <<>> /\ Flight' = Tail(Flight) /\ Head(Flight) = m
    <3>1. PICK b : b = outgoing \o req
      OBVIOUS
    <3>2. b \in Seq(Message \cup Event) /\ rsp \in Seq(Message \cup Event)
      BY <3>1, FlightTyped DEF ClientType
    <3> QED BY <1>1, <2>1, <2>2, <2>5, <3>1, <3>2, ConcatTail DEF Flight
  <2>9. PICK F : F = Flight'
    OBVIOUS
  <2>10. /\ Len(Flight) \in Nat \ {0} /\ Len(F) = Len(Flight) - 1
         /\ \A i \in 1..Len(F) : F[i] = Flight[i + 1] /\ i + 1 \in 1..Len(Flight)
         /\ Flight[1] = m /\ 1 \in 1..Len(Flight)
    <3>1. Len(Flight) \in Nat /\ Len(Flight) # 0
      BY <2>8, FlightTyped, EmptySeq
    <3>2. Flight \in Seq(Message \cup Event) /\ Head(Flight) = Flight[1]
      BY <2>8, FlightTyped
    <3> QED BY <2>8, <2>9, <3>1, <3>2, HeadTailProperties
  <2>11. /\ \A i \in 1..Len(F) : F[i].id # NULL => Awaited(F[i])
         /\ \A i, j \in 1..Len(F) :
              i # j /\ F[i].id # NULL /\ F[j].id # NULL => F[i].task # F[j].task
         /\ m.id # NULL =>
              Awaited(m) /\ \A i \in 1..Len(F) : F[i].id # NULL => F[i].task # m.task
    <3>1. \A i \in 1..Len(F) : F[i].id # NULL => Awaited(F[i])
      BY <2>10 DEF FlightOK
    <3>2. ASSUME NEW i \in 1..Len(F), NEW j \in 1..Len(F), i # j,
                 F[i].id # NULL, F[j].id # NULL
          PROVE  F[i].task # F[j].task
      BY <2>10, <3>2 DEF FlightOK
    <3>3. ASSUME m.id # NULL
          PROVE  Awaited(m) /\ \A i \in 1..Len(F) : F[i].id # NULL => F[i].task # m.task
      BY <2>10, <3>3 DEF FlightOK
    <3> QED BY <3>1, <3>2, <3>3
  <2>12. CASE m.id = NULL
    <3>1. UNCHANGED <<in_use, ready, reply, nr_live_reqs, probe>>
      BY <1>3, <2>1, <2>12 DEF Client!Thread, Client!idVars
    <3>2. ClientType' /\ Users' = Users
      BY <1>1, <2>3, <2>6, <3>1 DEF ClientType, Users
    <3>3. FlightOK'
      <4>1. \A x : Awaited(x) => Awaited(x)'
        BY <1>1, <3>1 DEF Awaited
      <4> QED BY <2>9, <2>11, <4>1, FlightBecomes
    <3> QED BY <1>1, <2>7, <3>1, <3>2, <3>3 DEF IdsOwned, RepliesRight
  <2>13. CASE m.id # NULL
    <3>1. /\ reply' = [reply EXCEPT ![m.id] = m] /\ ready' = [ready EXCEPT ![m.id] = TRUE]
          /\ UNCHANGED <<in_use, nr_live_reqs, probe>>
      BY <1>3, <2>1, <2>13 DEF Client!Thread, Client!Deliver
    <3>2. m \in Message /\ m.id \in Id
      BY <2>6, <2>13, FlightTyped
    <3>3. ClientType' /\ Users' = Users
      BY <1>1, <2>3, <2>6, <3>1, <3>2 DEF ClientType, Users
    <3>4. m.task \in Users /\ id[m.task] = m.id
      BY <2>11, <2>13 DEF Awaited, Users, Sent, Using
    <3>5. FlightOK'
      <4>1. ASSUME NEW i \in 1..Len(F), F[i].id # NULL PROVE Awaited(F[i])'
        <5>1. Awaited(F[i]) /\ F[i].task # m.task
          BY <2>11, <2>13, <4>1
        <5>2. F[i].task \in Users
          BY <5>1 DEF Awaited, Users, Sent, Using
        <5>3. F[i].id # m.id
          BY <3>4, <5>1, <5>2 DEF Awaited, IdsOwned
        <5> QED BY <1>1, <3>1, <5>1, <5>3 DEF Awaited
      <4> QED BY <2>9, <2>11, <4>1, FlightBecomes
    <3>6. RepliesRight'
      <4> SUFFICES ASSUME NEW t \in Users, ready'[id[t]]
                   PROVE  /\ pc[t] \in Sent
                          /\ reply'[id[t]].task = t /\ reply'[id[t]].call = call[t]
        BY <1>1, <3>3 DEF RepliesRight
      <4>1. CASE t = m.task
        BY <2>11, <2>13, <3>1, <3>2, <3>4, <4>1 DEF Awaited, ClientType
      <4>2. CASE t # m.task
        <5>1. id[t] # m.id /\ id[t] \in Id
          BY <3>4, <4>2 DEF IdsOwned
        <5>2. ready[id[t]] /\ reply'[id[t]] = reply[id[t]]
          BY <3>1, <5>1 DEF ClientType
        <5> QED BY <5>2 DEF RepliesRight
      <4> QED BY <4>1, <4>2
    <3> QED BY <1>1, <2>7, <3>1, <3>3, <3>5, <3>6 DEF IdsOwned
  <2> QED BY <2>12, <2>13
<1> QED BY <1>2, <1>3

-----------------------------------------------------------------------------
(***************************************************************************)
(* Xenbus: the steps of the store.                                         *)
(***************************************************************************)
LEMMA Regroups ==
    ASSUME NEW a, a \in Seq(Message \cup Event), NEW b, b \in Seq(Message \cup Event),
           NEW c, c \in Seq(Message \cup Event)
    PROVE  a \o (b \o c) = (a \o b) \o c
<1>1. PICK S : S = Message \cup Event
  OBVIOUS
<1>2. a \in Seq(S) /\ b \in Seq(S) /\ c \in Seq(S)
  BY <1>1
<1> QED BY <1>2, ConcatAssociative

\* A step that neither takes a message nor sends one.
LEMMA ClientPasses ==
    ASSUME ClientInv,
           UNCHANGED <<pc, call, id, in_use, ready, reply, nr_live_reqs, probe, rsp_cons>>,
           rsp_prod' \in 0..INDICES - 1,
           req' \in Seq(Message \cup Event), outgoing' \in Seq(Message \cup Event),
           rsp' \in Seq(Message \cup Event), RingFits', Flight' = Flight
    PROVE  ClientInv'
<1> USE DEF ClientInv
<1>1. ClientType'
  BY DEF ClientType
<1>2. Users' = Users
  BY DEF Users
<1>3. IdsOwned' /\ RepliesRight'
  BY <1>2 DEF IdsOwned, RepliesRight
<1>4. FlightOK'
  BY DEF FlightOK, Awaited
<1> QED BY <1>1, <1>3, <1>4

LEMMA ClientServes ==
    ASSUME ClientInv, Client!Serve
    PROVE  ClientInv'
<1>1. /\ req # <<>> /\ req' = Tail(req) /\ outgoing' = Append(outgoing, Head(req))
      /\ UNCHANGED <<pc, call, id, in_use, ready, reply, nr_live_reqs, probe, rsp,
                     rsp_prod, rsp_cons>>
  BY DEF Client!Serve, Client!taskVars, Client!idVars, Client!rspVars
<1>2. /\ req' \in Seq(Message \cup Event) /\ outgoing' \in Seq(Message \cup Event)
      /\ outgoing' \o req' = outgoing \o req
  BY <1>1, HeadMoves DEF ClientInv, ClientType
<1>3. Flight' = Flight
  BY <1>1, <1>2 DEF Flight
<1>4. rsp_prod' \in 0..INDICES - 1 /\ rsp' \in Seq(Message \cup Event) /\ RingFits'
  BY <1>1 DEF ClientInv, ClientType, RingFits, Client!Used
<1> QED BY <1>1, <1>2, <1>3, <1>4, ClientPasses

\* A watch event among the messages answers no request.
LEMMA ClientFires ==
    ASSUME ClientInv, Client!Fire
    PROVE  ClientInv'
<1> USE DEF ClientInv
<1>1. PICK x : x = [id |-> NULL]
  OBVIOUS
<1>2. /\ outgoing' = Append(outgoing, x)
      /\ UNCHANGED <<pc, call, id, in_use, ready, reply, nr_live_reqs, probe, rsp,
                     rsp_prod, rsp_cons, req>>
  BY <1>1 DEF Client!Fire, Client!taskVars, Client!idVars, Client!reqVars,
     Client!rspVars
<1>3. x \in Message \cup Event /\ x.id = NULL
  BY <1>1 DEF Event
<1>4. ClientType'
  <2>1. outgoing' \in Seq(Message \cup Event)
    BY <1>2, <1>3, AppendProperties DEF ClientType
  <2> QED BY <1>2, <2>1 DEF ClientType
<1>5. Users' = Users
  BY <1>2 DEF Users
<1>6. IdsOwned' /\ RingFits' /\ RepliesRight'
  BY <1>2, <1>5 DEF IdsOwned, RingFits, Client!Used, RepliesRight
<1>7. PICK a : a = rsp \o outgoing
  OBVIOUS
<1>8. /\ a \in Seq(Message \cup Event) /\ Len(a) \in Nat
      /\ Flight = a \o req /\ Flight' = Append(a, x) \o req
  <2>1. rsp \in Seq(Message \cup Event) /\ outgoing \in Seq(Message \cup Event)
        /\ req \in Seq(Message \cup Event) /\ outgoing' \in Seq(Message \cup Event)
    BY <1>4, <1>2 DEF ClientType
  <2>2. a \in Seq(Message \cup Event) /\ Len(a) \in Nat
    BY <1>7, <2>1, ConcatProperties, LenProperties
  <2>3. rsp \o (outgoing \o req) = (rsp \o outgoing) \o req
    BY <2>1, Regroups
  <2>4. rsp \o (outgoing' \o req) = (rsp \o outgoing') \o req
    <3>1. PICK o : o = outgoing'
      OBVIOUS
    <3>2. rsp \o (o \o req) = (rsp \o o) \o req
      BY <2>1, <3>1, Regroups
    <3> QED BY <3>1, <3>2
  <2>5. rsp \o Append(outgoing, x) = Append(rsp \o outgoing, x)
    BY <1>3, <2>1, ConcatAppend
  <2> QED BY <1>2, <1>7, <2>2, <2>3, <2>4, <2>5 DEF Flight
<1>9. PICK F, G, k : F = Flight' /\ G = Flight /\ k = Len(a)
  OBVIOUS
<1>10. \A i \in 1..Len(F) :
          \/ i = k + 1 /\ F[i] = x
          \/ i <= k /\ i \in 1..Len(G) /\ F[i] = G[i]
          \/ i > k + 1 /\ i - 1 \in 1..Len(G) /\ F[i] = G[i - 1]
  <2>1. req \in Seq(Message \cup Event)
    BY DEF ClientType
  <2> QED BY <1>3, <1>8, <1>9, <2>1, ConcatBetween
<1>11. \A m : Awaited(m) => Awaited(m)'
  BY <1>2 DEF Awaited
<1>12. FlightOK'
  <2>1. k \in Nat /\ \A i \in 1..Len(F) : i \in Int
    BY <1>8, <1>9
  <2>2. \A i \in 1..Len(F) : F[i].id # NULL => Awaited(F[i])'
    BY <1>3, <1>9, <1>10, <1>11 DEF FlightOK
  <2>3. ASSUME NEW i \in 1..Len(F), NEW j \in 1..Len(F), i # j,
               F[i].id # NULL, F[j].id # NULL
        PROVE  F[i].task # F[j].task
    <3>1. PICK p \in 1..Len(G) :
              F[i] = G[p] /\ ((p = i /\ i <= k) \/ (p = i - 1 /\ i > k + 1))
      BY <1>3, <1>10, <2>3
    <3>2. PICK q \in 1..Len(G) :
              F[j] = G[q] /\ ((q = j /\ j <= k) \/ (q = j - 1 /\ j > k + 1))
      BY <1>3, <1>10, <2>3
    <3>3. p # q
      BY <2>1, <2>3, <3>1, <3>2
    <3> QED BY <1>9, <2>3, <3>1, <3>2, <3>3 DEF FlightOK
  <2> QED BY <1>9, <2>2, <2>3, FlightBecomes
<1> QED BY <1>4, <1>6, <1>12

\* What the ring holds after the store wrote a part of a message.
LEMMA ClientProduces ==
    ASSUME ClientType, RingFits, NEW u, u = Client!Used(rsp_prod, rsp_cons),
           NEW k \in Nat, k < LEN
    PROVE  /\ u \in Nat /\ u <= RING_SIZE
           /\ Client!Used(rsp_prod + k, rsp_cons) = u + k
           /\ Client!Used((rsp_prod + k) % INDICES, rsp_cons) = u + k
           /\ (rsp_prod + k) % INDICES \in 0..INDICES - 1
<1>1. PICK p, c : p = rsp_prod /\ c = rsp_cons
  OBVIOUS
<1>2. p \in 0..INDICES - 1 /\ c \in 0..INDICES - 1 /\ u = Client!Used(p, c)
  BY <1>1 DEF ClientType
<1>3. u \in 0..INDICES - 1 /\ (p + k) % INDICES \in 0..INDICES - 1
  BY <1>2, UsedMoves
<1>4. u <= RING_SIZE
  BY DEF RingFits
<1>5. u + k < INDICES
  BY <1>3, <1>4, ClientConstants
<1>6. Client!Used(p + k, c) = u + k /\ Client!Used((p + k) % INDICES, c) = u + k
  BY <1>2, <1>5, UsedMoves
<1> QED BY <1>1, <1>3, <1>4, <1>6

LEMMA ClientWritesHeader ==
    ASSUME ClientInv, Client!WriteHeader
    PROVE  ClientInv'
<1> USE DEF ClientInv
<1>1. PICK u, n : u = Client!Used(rsp_prod, rsp_cons) /\ n = Len(rsp)
  OBVIOUS
<1>2. /\ outgoing # <<>> /\ ~ (u < LEN * n)
      /\ Client!Used(rsp_prod + 1, rsp_cons) <= RING_SIZE
      /\ rsp' = Append(rsp, Head(outgoing)) /\ outgoing' = Tail(outgoing)
      /\ rsp_prod' = (rsp_prod + 1) % INDICES
      /\ UNCHANGED <<pc, call, id, in_use, ready, reply, nr_live_reqs, probe, rsp_cons,
                     req>>
  BY <1>1 DEF Client!WriteHeader, Client!Partial, Client!taskVars, Client!idVars,
     Client!reqVars, LEN
<1>3. n \in Nat /\ (rsp # <<>> => n # 0) /\ 1 \in Nat /\ 1 < LEN
  BY <1>1, ClientConstants, EmptySeq, LenProperties DEF ClientType
<1>4. /\ u \in Nat /\ Client!Used(rsp_prod + 1, rsp_cons) = u + 1
      /\ Client!Used((rsp_prod + 1) % INDICES, rsp_cons) = u + 1
      /\ (rsp_prod + 1) % INDICES \in 0..INDICES - 1
  BY <1>1, <1>3, ClientProduces
<1>5. u = LEN * n
  <2>1. u = LEN * n \/ u = LEN * (n - 1) + 1
    BY <1>1 DEF RingFits
  <2>2. LEN * (n - 1) + LEN = LEN * n
    BY <1>3, ClientConstants
  <2> QED BY <1>2, <1>3, <1>4, <2>1, <2>2, ClientConstants
<1>6. /\ rsp' \in Seq(Message \cup Event) /\ outgoing' \in Seq(Message \cup Event)
      /\ rsp' \o outgoing' = rsp \o outgoing /\ Len(rsp') = n + 1
  <2>1. rsp \in Seq(Message \cup Event) /\ outgoing \in Seq(Message \cup Event)
    BY DEF ClientType
  <2>2. Head(outgoing) \in Message \cup Event
    BY <1>2, <2>1, HeadTailProperties
  <2> QED BY <1>1, <1>2, <2>1, <2>2, HeadMoves, AppendProperties
<1>7. Flight' = Flight
  <2>1. req \in Seq(Message \cup Event) /\ rsp \in Seq(Message \cup Event)
        /\ outgoing \in Seq(Message \cup Event)
    BY DEF ClientType
  <2>2. rsp' \o (outgoing' \o req) = (rsp' \o outgoing') \o req
    <3>1. PICK a, b : a = rsp' /\ b = outgoing'
      OBVIOUS
    <3>2. a \in Seq(Message \cup Event) /\ b \in Seq(Message \cup Event)
      BY <1>6, <3>1
    <3>3. a \o (b \o req) = (a \o b) \o req
      BY <2>1, <3>2, Regroups
    <3> QED BY <3>1, <3>3
  <2>3. rsp \o (outgoing \o req) = (rsp \o outgoing) \o req
    BY <2>1, Regroups
  <2> QED BY <1>2, <1>6, <2>2, <2>3 DEF Flight
<1>8. RingFits'
  <2>1. (Client!Used(rsp_prod, rsp_cons))' = u + 1
    BY <1>2, <1>4 DEF Client!Used
  <2>2. rsp' # <<>>
    BY <1>3, <1>6, EmptySeq
  <2>3. u + 1 = LEN * ((n + 1) - 1) + 1
    BY <1>3, <1>5, ClientConstants
  <2> QED BY <1>2, <1>4, <1>6, <2>1, <2>2, <2>3 DEF RingFits
<1>9. req' \in Seq(Message \cup Event) /\ rsp_prod' \in 0..INDICES - 1
  BY <1>2, <1>4 DEF ClientType
<1> QED BY <1>2, <1>6, <1>7, <1>8, <1>9, ClientPasses

LEMMA ClientWritesBody ==
    ASSUME ClientInv, Client!WriteBody
    PROVE  ClientInv'
<1> USE DEF ClientInv
<1>1. PICK u, n, k : u = Client!Used(rsp_prod, rsp_cons) /\ n = Len(rsp) /\ k = BODY
  OBVIOUS
<1>2. /\ u < LEN * n
      /\ Client!Used(rsp_prod + k, rsp_cons) <= RING_SIZE
      /\ rsp_prod' = (rsp_prod + k) % INDICES
      /\ UNCHANGED <<pc, call, id, in_use, ready, reply, nr_live_reqs, probe, rsp_cons,
                     req, rsp, outgoing>>
  BY <1>1 DEF Client!WriteBody, Client!Partial, Client!taskVars, Client!idVars,
     Client!reqVars, Client!storeVars, LEN
<1>3. n \in Nat /\ k \in Nat /\ LEN = 1 + k /\ k < LEN
  BY <1>1, ClientConstants, LenProperties DEF ClientType
<1>4. /\ u \in Nat /\ Client!Used(rsp_prod + k, rsp_cons) = u + k
      /\ Client!Used((rsp_prod + k) % INDICES, rsp_cons) = u + k
      /\ (rsp_prod + k) % INDICES \in 0..INDICES - 1
  BY <1>1, <1>3, ClientProduces
<1>5. u + k = LEN * n
  <2>1. u = LEN * n \/ u = LEN * (n - 1) + 1
    BY <1>1 DEF RingFits
  <2>2. LEN * (n - 1) + LEN = LEN * n
    BY <1>3, ClientConstants
  <2>3. LEN * n \in Int /\ LEN * (n - 1) \in Int
    BY <1>3, ClientConstants
  <2> QED BY <1>2, <1>3, <1>4, <2>1, <2>2, <2>3
<1>6. RingFits'
  <2>1. (Client!Used(rsp_prod, rsp_cons))' = u + k
    BY <1>2, <1>4 DEF Client!Used
  <2> QED BY <1>1, <1>2, <1>4, <1>5, <2>1 DEF RingFits
<1>7. Flight' = Flight
  BY <1>2 DEF Flight
<1>8. /\ req' \in Seq(Message \cup Event) /\ outgoing' \in Seq(Message \cup Event)
      /\ rsp' \in Seq(Message \cup Event) /\ rsp_prod' \in 0..INDICES - 1
  BY <1>2, <1>4 DEF ClientType
<1> QED BY <1>2, <1>6, <1>7, <1>8, ClientPasses

LEMMA ClientNext ==
    ASSUME ClientInv, Client!Next
    PROVE  ClientInv'
<1>1. ASSUME NEW t \in Task, Client!Begin(t) PROVE ClientInv'
  <2>1. PICK place \in Using \cup {"run", "allocate", "full"} : place = "allocate"
    OBVIOUS
  <2>2. /\ pc[t] = "run" /\ pc' = [pc EXCEPT ![t] = place]
        /\ call' = [call EXCEPT ![t] = @ + 1]
        /\ UNCHANGED <<id, in_use, ready, reply, nr_live_reqs, probe>>
        /\ UNCHANGED <<rsp, rsp_prod, rsp_cons, outgoing, req>>
    <3>1. /\ Client!At(t, "run") /\ Client!GoTo(t, "allocate")
          /\ call' = [call EXCEPT ![t] = @ + 1]
          /\ UNCHANGED <<id, Client!idVars, Client!reqVars, Client!rspVars,
                         Client!storeVars, bug>>
      BY <1>1, Zenon DEF Client!Begin
    <3> QED BY <2>1, <3>1 DEF Client!At, Client!GoTo, Client!idVars, Client!rspVars,
               Client!storeVars, Client!reqVars
  <2>3. /\ call' \in [Task -> Nat] /\ \A u \in Task \ {t} : call'[u] = call[u]
    BY <2>2 DEF ClientInv, ClientType
  <2>4. pc[t] \notin Using /\ place \notin Using /\ pc[t] \notin Sent /\ place \notin Sent
    BY <2>1, <2>2 DEF Using, Sent
  <2> QED BY <2>2, <2>3, <2>4, ClientMoves
<1>2. ASSUME NEW t \in Task, Client!Full(t) \/ Client!NoLongerFull(t)
             \/ Client!TakeWriteSem(t) \/ Client!Notify(t)
      PROVE  ClientInv'
  <2>1. PICK place \in Using \cup {"run", "allocate", "full"} :
            /\ pc' = [pc EXCEPT ![t] = place]
            /\ pc[t] \in Using <=> place \in Using
            /\ pc[t] \in Sent <=> place \in Sent
    <3>1. ASSUME Client!Full(t) PROVE pc[t] = "allocate" /\ pc' = [pc EXCEPT ![t] = "full"]
      BY <3>1 DEF Client!Full, Client!At, Client!GoTo
    <3>2. ASSUME Client!NoLongerFull(t)
          PROVE  pc[t] = "full" /\ pc' = [pc EXCEPT ![t] = "allocate"]
      BY <3>2 DEF Client!NoLongerFull, Client!At, Client!GoTo
    <3>3. ASSUME Client!TakeWriteSem(t)
          PROVE  pc[t] = "write" /\ pc' = [pc EXCEPT ![t] = "room"]
      BY <3>3 DEF Client!TakeWriteSem, Client!At, Client!GoTo
    <3>4. ASSUME Client!Notify(t)
          PROVE  pc[t] = "notify" /\ pc' = [pc EXCEPT ![t] = "await"]
      BY <3>4 DEF Client!Notify, Client!At, Client!GoTo
    <3> QED BY <1>2, <3>1, <3>2, <3>3, <3>4 DEF Using, Sent
  <2>2. /\ UNCHANGED <<call, id, in_use, ready, reply, nr_live_reqs, probe>>
        /\ UNCHANGED <<rsp, rsp_prod, rsp_cons, outgoing, req>>
    BY <1>2 DEF Client!Full, Client!NoLongerFull, Client!TakeWriteSem, Client!Notify,
       Client!idVars, Client!rspVars, Client!storeVars, Client!reqVars
  <2>3. /\ call' \in [Task -> Nat] /\ call'[t] = call[t]
        /\ \A u \in Task \ {t} : call'[u] = call[u]
    BY <2>2 DEF ClientInv, ClientType
  <2> QED BY <2>1, <2>2, <2>3, ClientMoves
<1>3. ASSUME NEW t \in Task,
             Client!Allocate(t) \/ Client!Publish(t) \/ Client!Receive(t)
      PROVE  ClientInv'
  BY <1>3, ClientAllocates, ClientPublishes, ClientReceives
<1>4. ASSUME Client!Doze PROVE ClientInv'
  <2>1. UNCHANGED <<pc, call, id, in_use, ready, reply, nr_live_reqs, probe, rsp,
                    rsp_prod, rsp_cons, outgoing, req>>
    BY <1>4 DEF Client!Doze, Client!taskVars, Client!idVars, Client!rspVars,
       Client!storeVars
  <2> QED BY <2>1, ClientStill
<1>5. ASSUME Client!Thread \/ Client!Serve \/ Client!Fire \/ Client!WriteHeader
             \/ Client!WriteBody
      PROVE  ClientInv'
  BY <1>5, ClientDelivers, ClientServes, ClientFires, ClientWritesHeader,
     ClientWritesBody
<1> QED BY <1>1, <1>2, <1>3, <1>4, <1>5 DEF Client!Next, Client!Proceed, Client!Store

-----------------------------------------------------------------------------
(***************************************************************************)
(* Ivc: the indices.                                                       *)
(***************************************************************************)
MOD == Channel!MOD
Most == WORD % SIZE       \* of the bytes that a copy takes
Avail == Channel!getAvail
Held == Avail + copied    \* what is in the ring, whether the reader knows of it or not

LEMMA ChannelConstants ==
    /\ SIZE \in Nat \ {0} /\ WORD \in Nat \ {0} /\ MOD \in Nat \ {0} /\ MOD > SIZE
    /\ Most \in Nat /\ Most < SIZE /\ MOD + Most = WORD
    /\ \E q \in Nat : MOD = SIZE * q
    /\ LONG \in Nat \ {0} /\ LONG <= Most
    /\ ItemSizes \subseteq Nat /\ \A n \in ItemSizes : n <= Most
    /\ ITEMS \in Nat \ {0}
<1>1. PICK q, r : q = WORD \div SIZE /\ r = WORD % SIZE
  OBVIOUS
<1>2. /\ SIZE \in Nat \ {0} /\ WORD \in Nat /\ LONG \in Nat \ {0} /\ 2 * SIZE <= WORD
      /\ ItemSizes \subseteq Nat /\ ITEMS \in Nat \ {0} /\ \A n \in ItemSizes : n <= r
      /\ LONG <= r
  BY <1>1, ChannelAssumption
<1>3. q \in Int /\ r \in 0..SIZE - 1 /\ WORD = SIZE * q + r
  BY <1>1, <1>2, Divided
<1>4. PICK b : b = q * SIZE
  OBVIOUS
<1>5. b \in Int /\ b = SIZE * q /\ b + r = WORD /\ b > SIZE /\ b \in 0..WORD - 1
  BY <1>2, <1>3, <1>4
<1>6. q \in Nat
  <2>1. q < 0 => SIZE * q <= 0
    BY <1>2, <1>3
  <2> QED BY <1>2, <1>3, <1>5, <2>1
<1>7. b % WORD = b
  <2>1. WORD \in Nat \ {0} /\ b = WORD * 0 + b
    BY <1>2, <1>5
  <2> QED BY <1>5, <2>1, RemainderIs
<1>8. MOD = b
  BY <1>1, <1>2, <1>4, <1>5, <1>7 DEF MOD, Channel!MOD, Channel!computeModulus
<1> QED BY <1>1, <1>2, <1>3, <1>5, <1>6, <1>8 DEF Most

\* Numbers that are a round of the indices apart are of one place in the ring.
LEMMA SamePlace ==
    ASSUME NEW a \in Int, NEW b \in Int, b = a \/ b = a + MOD \/ b = a - MOD
    PROVE  a % SIZE = b % SIZE
<1>1. PICK q \in Nat : MOD = SIZE * q
  BY ChannelConstants
<1>2. PICK k, r : k = a \div SIZE /\ r = a % SIZE
  OBVIOUS
<1>3. k \in Int /\ r \in 0..SIZE - 1 /\ a = SIZE * k + r
  BY <1>2, ChannelConstants, Divided
<1>4. PICK m \in Int : b = SIZE * m + r
  <2>1. CASE b = a
    BY <1>3, <2>1
  <2>2. CASE b = a + MOD
    <3>1. b = SIZE * (k + q) + r /\ k + q \in Int
      BY <1>1, <1>3, <2>2, ChannelConstants
    <3> QED BY <3>1
  <2>3. CASE b = a - MOD
    <3>1. b = SIZE * (k - q) + r /\ k - q \in Int
      BY <1>1, <1>3, <2>3, ChannelConstants
    <3> QED BY <3>1
  <2> QED BY <2>1, <2>2, <2>3
<1>5. b % SIZE = r
  BY <1>3, <1>4, ChannelConstants, RemainderIs
<1> QED BY <1>2, <1>5

LEMMA AvailIs ==
    ASSUME produced \in 0..MOD - 1, consumed \in 0..MOD - 1
    PROVE  /\ Avail \in 0..MOD - 1
           /\ produced = consumed + Avail \/ produced = consumed + Avail - MOD
BY ChannelConstants DEF Avail, Channel!getAvail, MOD

\* The sum of an index and the length of a copy does not pass its width.
LEMMA Advances ==
    ASSUME NEW i \in 0..MOD - 1, NEW n \in 0..Most
    PROVE  /\ Channel!Advanced(i, n) \in 0..MOD - 1
           /\ Channel!Advanced(i, n) = IF i + n < MOD THEN i + n ELSE i + n - MOD
<1>1. /\ i + n \in 0..WORD - 1 /\ i + n \in Int /\ WORD \in Nat \ {0} /\ MOD \in Nat \ {0}
      /\ i + n - MOD < MOD
  BY ChannelConstants
<1>2. (i + n) % WORD = i + n
  <2>1. i + n = WORD * 0 + (i + n)
    BY <1>1
  <2> QED BY <1>1, <2>1, RemainderIs
<1>3. PICK a : a = i + n
  OBVIOUS
<1>4. Channel!Advanced(i, n) = a % MOD
  BY <1>2, <1>3 DEF Channel!Advanced, MOD
<1>5. CASE a < MOD
  <2>1. a = MOD * 0 + a /\ a \in 0..MOD - 1 /\ a \in Int
    BY <1>1, <1>3, <1>5
  <2>2. a % MOD = a
    BY <1>1, <2>1, RemainderIs
  <2> QED BY <1>3, <1>4, <1>5, <2>1, <2>2
<1>6. CASE ~ (a < MOD)
  <2>1. PICK r : r = a - MOD
    OBVIOUS
  <2>2. a = MOD * 1 + r /\ r \in 0..MOD - 1 /\ a \in Int
    BY <1>1, <1>3, <1>6, <2>1
  <2>3. a % MOD = r
    BY <1>1, <2>2, RemainderIs
  <2>4. Channel!Advanced(i, n) = r
    BY <1>4, <2>3
  <2>5. r = i + n - MOD /\ ~ (i + n < MOD)
    BY <1>1, <1>3, <1>6, <2>1, <2>2
  <2> QED BY <2>2, <2>4, <2>5
<1> QED BY <1>5, <1>6

\* The copy goes to the places behind what is there, and to no other.
LEMMA Writes ==
    ASSUME produced \in 0..MOD - 1, consumed \in 0..MOD - 1, Avail <= SIZE,
           NEW bytes, NEW n \in Nat, Len(bytes) = n, n <= SIZE - Avail,
           NEW p \in 0..SIZE - 1
    PROVE  Channel!Copied(bytes)[(consumed + p) % SIZE] =
              IF Avail <= p /\ p < Avail + n THEN bytes[p - Avail + 1]
              ELSE memory[(consumed + p) % SIZE]
<1>1. PICK a, m, c, x : /\ a = Avail /\ m = -produced /\ c = consumed + p
                        /\ x = IF a <= p THEN p - a ELSE p - a + SIZE
  OBVIOUS
<1>2. /\ a \in Nat /\ a <= SIZE /\ m \in Int /\ c \in Int /\ produced \in Int
      /\ SIZE \in Nat \ {0} /\ x \in 0..SIZE - 1
  BY <1>1, AvailIs, ChannelConstants
<1>3. c % SIZE \in 0..SIZE - 1
  BY <1>2, Divided
<1>4. PICK e : e = c % SIZE
  OBVIOUS
<1>5. (e - (produced % SIZE)) % SIZE = (e - produced) % SIZE
  <2>1. PICK f : f = produced
    OBVIOUS
  <2>2. f \in Int /\ e \in Int
    BY <1>2, <1>3, <1>4, <2>1
  <2>3. (e - (f % SIZE)) % SIZE = (e - f) % SIZE
    BY <1>2, <2>2, RemainderOfSum
  <2> QED BY <2>1, <2>3
<1>6. (e + m) % SIZE = (c + m) % SIZE
  BY <1>2, <1>4, RemainderOfSum
<1>7. (c + m) % SIZE = (p - a) % SIZE
  <2>1. PICK u, v : u = c + m /\ v = p - a
    OBVIOUS
  <2>2. u \in Int /\ v \in Int /\ (u = v \/ u = v + MOD)
    BY <1>1, <1>2, <2>1, AvailIs, ChannelConstants
  <2>3. v % SIZE = u % SIZE
    BY <2>2, SamePlace
  <2> QED BY <2>1, <2>3
<1>8. (p - a) % SIZE = x
  <2>1. PICK v : v = p - a
    OBVIOUS
  <2>2. PICK k \in Int : v = SIZE * k + x
    <3>1. v = SIZE * 0 + x \/ v = SIZE * (-1) + x
      BY <1>1, <1>2, <2>1
    <3>2. -1 \in Int /\ 0 \in Int
      OBVIOUS
    <3> QED BY <3>1, <3>2
  <2>3. v \in Int
    BY <1>2, <2>1
  <2>4. v % SIZE = x
    BY <1>2, <2>2, <2>3, RemainderIs
  <2> QED BY <2>1, <2>4
<1>9. e - produced = e + m
  BY <1>1, <1>2, <1>3, <1>4
<1>10. Channel!Copied(bytes)[e] = IF x + 1 <= n THEN bytes[x + 1] ELSE memory[e]
  <2>1. ((e - (produced % SIZE)) % SIZE) = x
    BY <1>5, <1>6, <1>7, <1>8, <1>9
  <2>2. e \in 0..SIZE - 1
    BY <1>3, <1>4
  <2>3. Channel!Copied(bytes)[e] =
           LET at == ((e - (produced % SIZE)) % SIZE) + 1
           IN  IF at <= Len(bytes) THEN bytes[at] ELSE memory[e]
    BY <2>2 DEF Channel!Copied
  <2> QED BY <2>1, <2>3
<1>11. x + 1 <= n <=> a <= p /\ p < a + n
  BY <1>1, <1>2
<1> QED BY <1>1, <1>4, <1>10, <1>11

LEMMA Reads ==
    ASSUME consumed \in 0..MOD - 1, NEW n \in Nat, NEW i \in 1..n
    PROVE  Channel!Copy(n)[i] = memory[(consumed + (i - 1)) % SIZE]
<1>1. PICK b : b = i - 1
  OBVIOUS
<1>2. b \in Int /\ consumed \in Int /\ SIZE \in Nat \ {0}
  BY <1>1, ChannelConstants
<1>3. ((consumed % SIZE) + b) % SIZE = (consumed + b) % SIZE
  BY <1>2, RemainderOfSum
<1>4. (consumed % SIZE) + i - 1 = (consumed % SIZE) + b
  <2>1. consumed % SIZE \in Int
    BY <1>2, Divided
  <2> QED BY <1>1, <2>1
<1> QED BY <1>1, <1>3, <1>4 DEF Channel!Copy

-----------------------------------------------------------------------------
(***************************************************************************)
(* Ivc: where the items lie in the ring.                                   *)
(***************************************************************************)
Piece == Nat \X Nat       \* a byte of an item
Items == Seq(Seq(Piece))

\* A byte of an item with its size before it, counted from 0.
ByteAt(it, j) == IF j < LONG THEN <<Len(it)>> ELSE it[j - LONG + 1]

\* The items lie one behind the other: each begins where it does by start, counted from
\* the place that is read next, from front, before which bytes of the first item may have
\* been read, to the end of what is held and of what is left to be put; what is
\* held is in the ring.
Laid(start, items, held, left, front, ring, from) ==
    /\ \A k \in 1..Len(items) + 1 : start[k] \in Int
    /\ start[1] = front
    /\ \A k \in 1..Len(items) : start[k + 1] = start[k] + LONG + Len(items[k])
    /\ \A k, l \in 1..Len(items) + 1 : k <= l => start[k] <= start[l]
    /\ start[Len(items) + 1] = held + left
    /\ \A k \in 1..Len(items) : \A j \in Nat :
          j < LONG + Len(items[k]) /\ start[k] + j \in 0..held - 1 =>
              ring[(from + (start[k] + j)) % SIZE] = ByteAt(items[k], j)

LEMMA ItemsTyped ==
    ASSUME NEW items \in Items
    PROVE  /\ Len(items) \in Nat /\ (items = <<>> <=> Len(items) = 0)
           /\ \A k \in 1..Len(items) : items[k] \in Seq(Piece) /\ Len(items[k]) \in Nat
BY ElementOfSeq, LenProperties, EmptySeq DEF Items

\* An item is added, of which nothing is held.
LEMMA LaidAppend ==
    ASSUME NEW start, NEW items \in Items, NEW held \in Nat, NEW front, NEW ring, NEW from,
           Laid(start, items, held, 0, front, ring, from),
           NEW it \in Seq(Piece), NEW m \in Nat, m = Len(it)
    PROVE  \E s : Laid(s, Append(items, it), held, LONG + m, front, ring, from)
<1>1. PICK n, b : n = Len(items) /\ b = Append(items, it)
  OBVIOUS
<1>2. n \in Nat
  BY <1>1, ItemsTyped
<1>3. Len(b) = n + 1 /\ b[n + 1] = it /\ \A k \in 1..n : b[k] = items[k]
  BY <1>1, AppendProperties DEF Items
<1>4. LONG \in Nat \ {0}
  BY ChannelConstants
<1>5. PICK s : s = [k \in 1..n + 2 |-> IF k = n + 2 THEN held + LONG + m ELSE start[k]]
  OBVIOUS
<1>6. /\ s[n + 2] = held + LONG + m /\ s[n + 1] = held
      /\ \A k \in 1..n + 1 : s[k] = start[k] /\ s[k] \in Int
  <2>1. \A k \in 1..n + 1 : start[k] \in Int /\ s[k] = start[k]
    BY <1>1, <1>2, <1>5 DEF Laid
  <2>2. n + 1 \in 1..n + 1 /\ n + 2 \in 1..n + 2
    BY <1>2
  <2>3. start[n + 1] = held
    BY <1>1 DEF Laid
  <2>4. s[n + 2] = held + LONG + m
    BY <1>5, <2>2
  <2> QED BY <2>1, <2>2, <2>3, <2>4
<1>7. s[1] = front
  <2>1. 1 \in 1..n + 1
    BY <1>2
  <2> QED BY <1>6, <2>1 DEF Laid
<1>8. ASSUME NEW k \in 1..n + 1 PROVE s[k + 1] = s[k] + LONG + Len(b[k])
  <2>1. CASE k = n + 1
    <3>1. k + 1 = n + 2 /\ b[k] = it
      BY <1>2, <1>3, <2>1
    <3>2. s[k] = held /\ s[k + 1] = held + LONG + m
      BY <1>6, <2>1, <3>1
    <3> QED BY <3>1, <3>2
  <2>2. CASE k # n + 1
    <3>1. k \in 1..n /\ k + 1 \in 1..n + 1
      BY <1>2, <2>2
    <3>2. start[k + 1] = start[k] + LONG + Len(items[k])
      BY <1>1, <3>1 DEF Laid
    <3> QED BY <1>3, <1>6, <3>1, <3>2
  <2> QED BY <2>1, <2>2
<1>9. ASSUME NEW k \in 1..n + 2, NEW l \in 1..n + 2, k <= l PROVE s[k] <= s[l]
  <2>1. \A i \in 1..n + 1 : start[i] <= start[n + 1]
    <3>1. n + 1 \in 1..n + 1 /\ \A i \in 1..n + 1 : i <= n + 1
      BY <1>2
    <3> QED BY <1>1, <3>1 DEF Laid
  <2>2. CASE l = n + 2
    <3>1. PICK x, y : x = s[k] /\ y = s[l]
      OBVIOUS
    <3>2. y = held + LONG + m
      BY <1>6, <2>2, <3>1
    <3>3. CASE k = n + 2
      <4>1. x = y
        BY <2>2, <3>1, <3>3
      <4> QED BY <1>4, <3>1, <3>2, <4>1
    <3>4. CASE k # n + 2
      <4>1. k \in 1..n + 1 /\ n + 1 \in 1..n + 1
        BY <1>2, <3>4
      <4>2. x \in Int /\ x <= held
        BY <1>6, <2>1, <3>1, <4>1
      <4> QED BY <1>4, <3>1, <3>2, <4>2
    <3> QED BY <3>3, <3>4
  <2>3. CASE l # n + 2
    <3>1. k \in 1..n + 1 /\ l \in 1..n + 1
      BY <1>2, <1>9, <2>3
    <3>2. start[k] <= start[l]
      BY <1>1, <1>9, <3>1 DEF Laid
    <3> QED BY <1>6, <3>1, <3>2
  <2> QED BY <2>2, <2>3
<1>10. ASSUME NEW k \in 1..n + 1, NEW j \in Nat, j < LONG + Len(b[k]),
              s[k] + j \in 0..held - 1
       PROVE  ring[(from + (s[k] + j)) % SIZE] = ByteAt(b[k], j)
  <2>1. k # n + 1
    <3> SUFFICES ASSUME k = n + 1 PROVE FALSE
      OBVIOUS
    <3>1. held + j \in 0..held - 1
      BY <1>6, <1>10
    <3> QED BY <3>1
  <2>2. k \in 1..n
    BY <1>2, <2>1
  <2>3. s[k] = start[k] /\ b[k] = items[k]
    BY <1>3, <1>6, <2>2
  <2> QED BY <1>1, <1>10, <2>2, <2>3 DEF Laid
<1>11. \A k \in 1..n + 2 : s[k] \in Int
  <2>1. \A k \in 1..n + 2 : k = n + 2 \/ k \in 1..n + 1
    BY <1>2
  <2> QED BY <1>4, <1>6, <2>1
<1>12. Laid(s, b, held, LONG + m, front, ring, from)
  <2>1. Len(b) + 1 = n + 2 /\ s[n + 2] = held + (LONG + m)
    BY <1>2, <1>3, <1>4, <1>6
  <2> QED BY <1>3, <1>7, <1>8, <1>9, <1>10, <1>11, <2>1 DEF Laid
<1> QED BY <1>1, <1>12

\* The ring keeps what it held, and has bytes of an item after them.
Keeps(ring, other, from, held) ==
    \A p \in 0..held - 1 : other[(from + p) % SIZE] = ring[(from + p) % SIZE]

Gets(other, from, held, n, it, done) ==
    \A p \in held..held + n - 1 :
        other[(from + p) % SIZE] = ByteAt(it, p - held + done)

\* Where a byte is that is not held yet.
LEMMA InTheLast ==
    ASSUME NEW x \in Int, NEW w \in Nat, NEW y \in Int, NEW j \in Nat, NEW a \in Nat,
           NEW held \in Nat, NEW done \in Nat, y + done = held,
           j < a + w, x + a + w <= y
    PROVE  x + j < held
OBVIOUS

\* More of the last item comes into the ring.
LEMMA LaidGrows ==
    ASSUME NEW start, NEW items \in Items, NEW e, e = Len(items), e # 0,
           NEW held \in Nat, NEW left \in Nat, NEW front, NEW ring, NEW from,
           Laid(start, items, held, left, front, ring, from),
           NEW done \in Nat, LONG + Len(items[e]) = done + left,
           NEW n \in 0..left, NEW other,
           Keeps(ring, other, from, held), Gets(other, from, held, n, items[e], done)
    PROVE  Laid(start, items, held + n, left - n, front, other, from)
<1>1. /\ e \in Nat \ {0} /\ e \in 1..e /\ LONG \in Nat
      /\ \A k \in 1..e : Len(items[k]) \in Nat
  BY ItemsTyped, ChannelConstants
<1>2. start[e] \in Int /\ start[e] + done = held
  <2>1. PICK y, z, w, c : y = start[e] /\ z = start[e + 1] /\ w = Len(items[e]) /\ c = LONG
    OBVIOUS
  <2>2. e \in 1..e + 1 /\ w \in Nat
    BY <1>1, <2>1
  <2>3. y \in Int
    BY <2>1, <2>2 DEF Laid
  <2>4. z = y + c + w
    BY <1>1, <2>1 DEF Laid
  <2>5. z = held + left
    BY <2>1 DEF Laid
  <2>6. c + w = done + left /\ c \in Nat
    BY <1>1, <2>1
  <2>7. y + done = held
    BY <2>2, <2>3, <2>4, <2>5, <2>6
  <2> QED BY <2>1, <2>3, <2>7
<1>3. ASSUME NEW k \in 1..e, NEW j \in Nat, j < LONG + Len(items[k]),
             start[k] + j \in 0..held + n - 1
      PROVE  other[(from + (start[k] + j)) % SIZE] = ByteAt(items[k], j)
  <2>1. PICK x, w : x = start[k] /\ w = Len(items[k])
    OBVIOUS
  <2>2. k \in 1..e + 1 /\ x \in Int /\ w \in Nat
    <3>1. k \in 1..e + 1
      BY <1>1
    <3> QED BY <1>1, <2>1, <3>1 DEF Laid
  <2>3. PICK p : p = x + j
    OBVIOUS
  <2>4. p \in 0..held + n - 1
    BY <1>3, <2>1, <2>3
  <2>5. CASE p < held
    <3>1. p \in 0..held - 1
      BY <2>4, <2>5
    <3>2. ring[(from + p) % SIZE] = ByteAt(items[k], j)
      BY <1>3, <2>1, <2>3, <3>1 DEF Laid
    <3> QED BY <2>1, <2>3, <3>1, <3>2 DEF Keeps
  <2>6. CASE ~ (p < held)
    <3>1. p \in held..held + n - 1 /\ x + j \in Int /\ ~ (x + j < held)
      BY <2>3, <2>4, <2>6
    <3>2. k = e
      <4> SUFFICES ASSUME k # e PROVE FALSE
        OBVIOUS
      <4>1. k + 1 \in 1..e + 1 /\ e \in 1..e + 1 /\ k + 1 <= e
        <5>1. e \in Nat \ {0} /\ k \in 1..e
          BY <1>1
        <5> QED BY <5>1
      <4>2. start[k + 1] <= start[e] /\ start[k + 1] = x + LONG + w
        BY <2>1, <4>1 DEF Laid
      <4>3. PICK y : y = start[e]
        OBVIOUS
      <4>4. y \in Int /\ y + done = held /\ x + LONG + w <= y /\ j < LONG + w
        BY <1>2, <1>3, <2>1, <4>2, <4>3
      <4>5. x + j < held
        BY <1>1, <2>2, <4>4, InTheLast
      <4> QED BY <3>1, <4>5
    <3>3. j = p - held + done
      <4>1. x \in Int /\ x + done = held /\ p = x + j
        BY <1>2, <2>1, <2>3, <3>2
      <4> QED BY <4>1
    <3> QED BY <2>1, <2>3, <3>1, <3>2, <3>3 DEF Gets
  <2> QED BY <2>5, <2>6
<1>4. held + n + (left - n) = held + left
  OBVIOUS
<1>5. PICK h, l : h = held + n /\ l = left - n
  OBVIOUS
<1>6. start[Len(items) + 1] = h + l
  BY <1>4, <1>5 DEF Laid
<1>7. \A k \in 1..Len(items) : \A j \in Nat :
         j < LONG + Len(items[k]) /\ start[k] + j \in 0..h - 1 =>
             other[(from + (start[k] + j)) % SIZE] = ByteAt(items[k], j)
  BY <1>3, <1>5
<1>8. Laid(start, items, h, l, front, other, from)
  BY <1>6, <1>7, Zenon DEF Laid
<1> QED BY <1>5, <1>8

\* The first item is taken away, all of which was read.
LEMMA LaidTail ==
    ASSUME NEW start, NEW items \in Items, Len(items) # 0,
           NEW held, NEW left, NEW front, NEW ring, NEW from,
           Laid(start, items, held, left, front, ring, from),
           front + LONG + Len(items[1]) = 0
    PROVE  \E s : Laid(s, Tail(items), held, left, 0, ring, from)
<1>1. PICK e, b : e = Len(items) /\ b = Tail(items)
  OBVIOUS
<1>2. e \in Nat \ {0} /\ 1 \in 1..e
  BY <1>1, ItemsTyped
<1>3. Len(b) = e - 1 /\ \A k \in 1..e - 1 : b[k] = items[k + 1]
  <2>1. items # <<>> /\ items \in Seq(Seq(Piece))
    BY <1>1, <1>2, EmptySeq DEF Items
  <2> QED BY <1>1, <2>1, HeadTailProperties
<1>4. PICK s : s = [k \in 1..e |-> start[k + 1]]
  OBVIOUS
<1>5. \A k \in 1..e : s[k] = start[k + 1] /\ k + 1 \in 1..e + 1 /\ start[k + 1] \in Int
  <2>1. \A k \in 1..e : k + 1 \in 1..e + 1
    BY <1>2
  <2> QED BY <1>1, <1>4, <2>1 DEF Laid
<1>6. s[1] = 0
  <2>1. start[1 + 1] = start[1] + LONG + Len(items[1]) /\ start[1] = front
    BY <1>1, <1>2 DEF Laid
  <2>2. s[1] = start[1 + 1]
    BY <1>2, <1>5
  <2> QED BY <2>1, <2>2
<1>7. s[e] = held + left
  BY <1>1, <1>2, <1>5 DEF Laid
<1>8. ASSUME NEW k \in 1..e - 1 PROVE s[k + 1] = s[k] + LONG + Len(b[k])
  <2>1. k \in 1..e /\ k + 1 \in 1..e
    BY <1>2
  <2>2. start[(k + 1) + 1] = start[k + 1] + LONG + Len(items[k + 1])
    BY <1>1, <2>1 DEF Laid
  <2>3. s[k + 1] = start[(k + 1) + 1] /\ s[k] = start[k + 1] /\ b[k] = items[k + 1]
    BY <1>3, <1>5, <2>1
  <2> QED BY <2>2, <2>3
<1>9. ASSUME NEW k \in 1..e, NEW l \in 1..e, k <= l PROVE s[k] <= s[l]
  <2>1. k + 1 \in 1..e + 1 /\ l + 1 \in 1..e + 1 /\ k + 1 <= l + 1
    BY <1>2, <1>9
  <2>2. start[k + 1] <= start[l + 1]
    BY <1>1, <2>1 DEF Laid
  <2> QED BY <1>5, <2>2
<1>10. ASSUME NEW k \in 1..e - 1, NEW j \in Nat, j < LONG + Len(b[k]),
              s[k] + j \in 0..held - 1
       PROVE  ring[(from + (s[k] + j)) % SIZE] = ByteAt(b[k], j)
  <2>1. k \in 1..e /\ k + 1 \in 1..e
    BY <1>2
  <2>2. b[k] = items[k + 1] /\ s[k] = start[k + 1]
    BY <1>3, <1>5, <2>1
  <2> QED BY <1>1, <1>10, <2>1, <2>2 DEF Laid
<1>11. Laid(s, b, held, left, 0, ring, from)
  <2>1. Len(b) = e - 1 /\ Len(b) + 1 = e
    BY <1>2, <1>3
  <2> QED BY <1>5, <1>6, <1>7, <1>8, <1>9, <1>10, <2>1 DEF Laid
<1> QED BY <1>1, <1>11

\* The place that is read next moves on.
LEMMA LaidForward ==
    ASSUME NEW start, NEW items \in Items,
           NEW held \in Nat, NEW left \in Nat, NEW front, NEW ring, NEW from \in Int,
           Laid(start, items, held, left, front, ring, from),
           NEW n \in 0..held, NEW to \in Int, to = from + n \/ to = from + n - MOD
    PROVE  \E s : Laid(s, items, held - n, left, front - n, ring, to)
<1>1. PICK e : e = Len(items)
  OBVIOUS
<1>2. e \in Nat /\ LONG \in Nat /\ \A k \in 1..e : Len(items[k]) \in Nat
  BY <1>1, ItemsTyped, ChannelConstants
<1>3. PICK s : s = [k \in 1..e + 1 |-> start[k] - n]
  OBVIOUS
<1>4. \A k \in 1..e + 1 : s[k] = start[k] - n /\ start[k] \in Int /\ s[k] \in Int
  <2>1. \A k \in 1..e + 1 : start[k] \in Int /\ s[k] = start[k] - n
    BY <1>1, <1>3 DEF Laid
  <2> QED BY <2>1
<1>5. s[1] = front - n /\ s[e + 1] = held - n + left
  <2>1. 1 \in 1..e + 1 /\ e + 1 \in 1..e + 1
    BY <1>2
  <2>2. start[1] = front /\ start[e + 1] = held + left
    BY <1>1 DEF Laid
  <2> QED BY <1>4, <2>1, <2>2
<1>6. ASSUME NEW k \in 1..e PROVE s[k + 1] = s[k] + LONG + Len(items[k])
  <2>1. k \in 1..e + 1 /\ k + 1 \in 1..e + 1
    BY <1>2
  <2>2. start[k + 1] = start[k] + LONG + Len(items[k])
    BY <1>1 DEF Laid
  <2>3. PICK x, y, w, c : x = start[k] /\ y = start[k + 1] /\ w = Len(items[k]) /\ c = LONG
    OBVIOUS
  <2>4. x \in Int /\ y \in Int /\ w \in Nat /\ c \in Nat
    BY <1>2, <1>4, <2>1, <2>3
  <2>5. s[k] = x - n /\ s[k + 1] = y - n
    BY <1>4, <2>1, <2>3
  <2>6. y = x + c + w
    BY <2>2, <2>3
  <2>7. y - n = x - n + c + w
    BY <2>4, <2>6
  <2> QED BY <2>3, <2>5, <2>7
<1>7. ASSUME NEW k \in 1..e + 1, NEW l \in 1..e + 1, k <= l PROVE s[k] <= s[l]
  <2>1. start[k] <= start[l]
    BY <1>1, <1>7 DEF Laid
  <2>2. PICK x, y : x = start[k] /\ y = start[l]
    OBVIOUS
  <2>3. x \in Int /\ y \in Int /\ s[k] = x - n /\ s[l] = y - n /\ x <= y
    BY <1>4, <2>1, <2>2
  <2> QED BY <2>3
<1>8. ASSUME NEW k \in 1..e, NEW j \in Nat, j < LONG + Len(items[k]),
             s[k] + j \in 0..held - n - 1
      PROVE  ring[(to + (s[k] + j)) % SIZE] = ByteAt(items[k], j)
  <2>1. PICK x, u, v : x = start[k] /\ u = from + (x + j) /\ v = to + (x - n + j)
    OBVIOUS
  <2>2. x \in Int /\ s[k] = x - n
    <3>1. k \in 1..e + 1
      BY <1>2
    <3> QED BY <1>4, <2>1, <3>1
  <2>3. x + j \in 0..held - 1
    <3>1. x - n + j \in 0..held - n - 1
      BY <1>8, <2>2
    <3> QED BY <2>2, <3>1
  <2>4. ring[u % SIZE] = ByteAt(items[k], j)
    BY <1>1, <1>8, <2>1, <2>3 DEF Laid
  <2>5. u \in Int /\ v \in Int /\ (v = u \/ v = u - MOD)
    <3>1. MOD \in Nat
      BY ChannelConstants
    <3>2. PICK c : c = MOD
      OBVIOUS
    <3>3. c \in Int /\ x \in Int /\ (to = from + n \/ to = from + n - c)
      BY <2>2, <3>1, <3>2
    <3>4. v = u \/ v = u - c
      BY <2>1, <3>3
    <3>5. u \in Int /\ v \in Int
      BY <2>1, <2>2
    <3> QED BY <3>2, <3>4, <3>5
  <2>6. v % SIZE = u % SIZE
    BY <2>5, SamePlace
  <2> QED BY <2>1, <2>2, <2>4, <2>6
<1>9. Laid(s, items, held - n, left, front - n, ring, to)
  BY <1>1, <1>4, <1>5, <1>6, <1>7, <1>8 DEF Laid
<1> QED BY <1>9

-----------------------------------------------------------------------------
(***************************************************************************)
(* Ivc: the inductive invariant.                                           *)
(***************************************************************************)
Between(p, c) == IF p >= c THEN p - c ELSE p + (MOD - c)

ChannelType ==
    /\ produced \in 0..MOD - 1 /\ consumed \in 0..MOD - 1
    /\ putting \in {"idle", "written", "part"}
    /\ getting \in {"idle", "read", "part", "got"}
    /\ copied \in 0..Most /\ taken \in 0..Most /\ Held <= SIZE
    /\ put_left \in Nat /\ item_size \in Nat /\ item \in Nat
    /\ unread \in Items /\ \A k \in 1..Len(unread) : Len(unread[k]) <= Most
    /\ got \in Seq(Piece)

\* What is left to be put is of the last item.
PutOK ==
    /\ putting \in {"idle", "part"} => copied = 0
    /\ putting = "idle" => put_left = 0
    /\ putting = "part" => put_left > 0
    /\ put_left > 0 => unread # <<>> /\ put_left <= Len(unread[Len(unread)])

\* What was read of the first item is its beginning, and item_size is the rest.
Begun ==
    /\ unread # <<>>
    /\ Len(got) + item_size = Len(unread[1])
    /\ \A i \in 1..Len(got) : got[i] = unread[1][i]

GetOK ==
    /\ taken <= Avail
    /\ getting # "read" => taken = 0
    /\ getting = "idle" => got = <<>>
    /\ getting = "part" => item_size > 0
    /\ getting = "got" => item_size = 0
    /\ getting # "idle" => Begun

FirstAt == IF getting = "idle" THEN 0 ELSE taken - LONG - Len(got)

LaidOut == \E start : Laid(start, unread, Held, put_left, FirstAt, memory, consumed)

ChannelInv == ChannelType /\ PutOK /\ GetOK /\ LaidOut

LEMMA AvailMoves ==
    ASSUME NEW p \in 0..MOD - 1, NEW c \in 0..MOD - 1, NEW n \in 0..Most, NEW to \in Int
    PROVE  /\ /\ to = IF p + n < MOD THEN p + n ELSE p + n - MOD
              /\ Between(p, c) + n <= SIZE
              => Between(to, c) = Between(p, c) + n
           /\ /\ to = IF c + n < MOD THEN c + n ELSE c + n - MOD
              /\ n <= Between(p, c)
              => Between(p, to) = Between(p, c) - n
BY ChannelConstants DEF Between

LEMMA AvailBetween ==
    Avail = Between(produced, consumed) /\ Avail' = Between(produced', consumed')
BY DEF Avail, Channel!getAvail, Between, MOD

LEMMA ChannelTyped ==
    ASSUME ChannelInv
    PROVE  /\ Avail \in Nat /\ Held = Avail + copied /\ Held \in Nat
           /\ Avail <= SIZE /\ copied \in Nat /\ taken \in Nat
           /\ Len(got) \in Nat /\ Len(unread) \in Nat
           /\ \A k \in 1..Len(unread) : Len(unread[k]) \in Nat /\ Len(unread[k]) <= Most
           /\ put_left <= Most
           /\ LONG \in Nat \ {0} /\ Most \in Nat /\ SIZE \in Nat
<1>1. Avail \in Nat /\ copied \in Nat /\ taken \in Nat
  BY AvailIs, ChannelConstants DEF ChannelInv, ChannelType
<1>2. Held = Avail + copied /\ Held \in Nat /\ Avail <= SIZE
  BY <1>1, ChannelConstants DEF ChannelInv, ChannelType, Held
<1>3. Len(got) \in Nat
  BY LenProperties DEF ChannelInv, ChannelType
<1>4. /\ Len(unread) \in Nat /\ (unread = <<>> <=> Len(unread) = 0)
      /\ \A k \in 1..Len(unread) : Len(unread[k]) \in Nat /\ Len(unread[k]) <= Most
  BY ItemsTyped DEF ChannelInv, ChannelType
<1>5. put_left <= Most
  <2>1. /\ put_left \in Nat
        /\ put_left > 0 => unread # <<>> /\ put_left <= Len(unread[Len(unread)])
    BY DEF ChannelInv, ChannelType, PutOK
  <2>2. CASE put_left > 0
    <3>1. Len(unread) \in 1..Len(unread)
      BY <1>4, <2>1, <2>2
    <3>2. PICK m : m = Len(unread[Len(unread)])
      OBVIOUS
    <3>3. m \in Nat /\ m <= Most /\ put_left <= m
      BY <1>4, <2>1, <2>2, <3>1, <3>2
    <3> QED BY <2>1, <3>3, ChannelConstants
  <2> QED BY <2>1, <2>2, ChannelConstants
<1> QED BY <1>1, <1>2, <1>3, <1>4, <1>5, ChannelConstants

LEMMA ChannelInit == Channel!Init => ChannelInv
<1> SUFFICES ASSUME Channel!Init PROVE ChannelInv
  OBVIOUS
<1>1. Avail = 0 /\ Held = 0 /\ FirstAt = 0
  BY DEF Channel!Init, Avail, Channel!getAvail, Held, FirstAt
<1>2. <<>> \in Items /\ <<>> \in Seq(Piece) /\ Len(<<>>) = 0
  BY EmptySeq DEF Items
<1>3. ChannelType
  BY <1>1, <1>2, ChannelConstants DEF Channel!Init, ChannelType
<1>4. PutOK
  BY DEF Channel!Init, PutOK
<1>5. GetOK
  BY <1>1 DEF Channel!Init, GetOK
<1>6. LaidOut
  <2>1. PICK s : s = [k \in 1..1 |-> 0]
    OBVIOUS
  <2>2. \A k \in 1..1 : s[k] = 0
    BY <2>1
  <2>3. Laid(s, <<>>, 0, 0, 0, memory, consumed)
    BY <1>2, <2>2 DEF Laid
  <2> QED BY <1>1, <2>3 DEF LaidOut, Channel!Init
<1> QED BY <1>3, <1>4, <1>5, <1>6 DEF ChannelInv

\* The bytes are in the ring, and the reader learns of them.
LEMMA ChannelProduces ==
    ASSUME ChannelInv, Channel!Produce
    PROVE  ChannelInv'
<1> USE DEF Channel!Produce, Channel!getVars
<1>1. produced' \in 0..MOD - 1 /\ Avail' = Avail + copied
  <2>1. /\ produced \in 0..MOD - 1 /\ consumed \in 0..MOD - 1 /\ copied \in 0..Most
        /\ Avail + copied <= SIZE
    BY ChannelTyped DEF ChannelInv, ChannelType
  <2>2. /\ produced' \in 0..MOD - 1
        /\ produced' = IF produced + copied < MOD THEN produced + copied
                       ELSE produced + copied - MOD
    BY <2>1, Advances
  <2>3. produced' \in Int /\ consumed' = consumed
    BY <2>2, ChannelConstants
  <2>4. Between(produced', consumed) = Between(produced, consumed) + copied
    BY <2>1, <2>2, <2>3, AvailBetween, AvailMoves
  <2> QED BY <2>2, <2>3, <2>4, AvailBetween
<1>2. Held' = Held /\ FirstAt' = FirstAt
  BY <1>1, ChannelTyped DEF Held, FirstAt
<1>3. ChannelType'
  BY <1>1, <1>2, ChannelConstants DEF ChannelInv, ChannelType
<1>4. PutOK'
  BY DEF ChannelInv, ChannelType, PutOK
<1>5. GetOK'
  <2>1. taken <= Avail'
    <3>1. PICK a, c : a = Avail /\ c = Avail'
      OBVIOUS
    <3>2. taken <= a /\ c = a + copied
      BY <1>1, <3>1 DEF ChannelInv, GetOK
    <3>3. a \in Nat /\ copied \in Nat /\ taken \in Nat
      BY <3>1, ChannelTyped
    <3>4. taken <= c
      BY <3>2, <3>3
    <3> QED BY <3>1, <3>4
  <2> QED BY <2>1 DEF ChannelInv, GetOK, Begun
<1>6. LaidOut'
  BY <1>2 DEF ChannelInv, LaidOut
<1> QED BY <1>3, <1>4, <1>5, <1>6 DEF ChannelInv

LEMMA ChannelConsumes ==
    ASSUME ChannelInv, Channel!Consume
    PROVE  ChannelInv'
<1> USE DEF Channel!Consume, Channel!putVars
<1>1. /\ consumed' \in 0..MOD - 1 /\ Avail' = Avail - taken
      /\ consumed' = consumed + taken \/ consumed' = consumed + taken - MOD
  <2>1. /\ produced \in 0..MOD - 1 /\ consumed \in 0..MOD - 1 /\ taken \in 0..Most
        /\ taken <= Avail
    BY DEF ChannelInv, ChannelType, GetOK
  <2>2. /\ consumed' \in 0..MOD - 1
        /\ consumed' = IF consumed + taken < MOD THEN consumed + taken
                       ELSE consumed + taken - MOD
    BY <2>1, Advances
  <2>3. consumed' \in Int /\ produced' = produced
    BY <2>2, ChannelConstants
  <2>4. Between(produced, consumed') = Between(produced, consumed) - taken
    BY <2>1, <2>2, <2>3, AvailBetween, AvailMoves
  <2> QED BY <2>2, <2>3, <2>4, AvailBetween
<1>2. Held' = Held - taken /\ Held' <= SIZE
  <2>1. taken <= Avail /\ Held <= SIZE
    BY DEF ChannelInv, ChannelType, GetOK
  <2>2. PICK a, c : a = Avail /\ c = Avail'
    OBVIOUS
  <2>3. a \in Nat /\ copied \in Nat /\ taken \in Nat /\ Held = a + copied /\ c = a - taken
    BY <1>1, <2>2, ChannelTyped
  <2>4. copied' = copied /\ Held' = c + copied'
    BY <2>2 DEF Held
  <2> QED BY <2>1, <2>3, <2>4, ChannelConstants
<1>3. FirstAt' = FirstAt - taken
  BY ChannelTyped DEF FirstAt
<1>4. ChannelType'
  BY <1>1, <1>2, ChannelConstants DEF ChannelInv, ChannelType
<1>5. PutOK'
  BY DEF ChannelInv, PutOK
<1>6. GetOK'
  <2>1. taken' <= Avail'
    <3>1. PICK a, c : a = Avail /\ c = Avail'
      OBVIOUS
    <3>2. taken <= a /\ c = a - taken /\ taken' = 0
      BY <1>1, <3>1 DEF ChannelInv, GetOK
    <3>3. a \in Nat /\ taken \in Nat
      BY <3>1, ChannelTyped
    <3>4. 0 <= c
      BY <3>2, <3>3
    <3> QED BY <3>1, <3>2, <3>4
  <2>2. item_size \in Nat
    BY DEF ChannelInv, ChannelType
  <2> QED BY <2>1, <2>2 DEF ChannelInv, GetOK, Begun
<1>7. LaidOut'
  <2>1. PICK s : Laid(s, unread, Held, put_left, FirstAt, memory, consumed)
    BY DEF ChannelInv, LaidOut
  <2>2. /\ unread \in Items /\ Held \in Nat /\ put_left \in Nat /\ taken \in 0..Held
        /\ consumed \in Int /\ consumed' \in Int
    BY <1>1, ChannelTyped, ChannelConstants DEF ChannelInv, ChannelType, GetOK
  <2>3. PICK r : Laid(r, unread, Held - taken, put_left, FirstAt - taken, memory, consumed')
    BY <1>1, <2>1, <2>2, LaidForward
  <2> QED BY <1>2, <1>3, <2>3 DEF LaidOut
<1> QED BY <1>4, <1>5, <1>6, <1>7 DEF ChannelInv

\* The size that is read is that of the first item.
LEMMA ChannelGetsSize ==
    ASSUME ChannelInv, Channel!GetSize
    PROVE  ChannelInv'
<1> USE DEF Channel!GetSize, Channel!putVars, Channel!shared
<1>1. Avail' = Avail /\ Held' = Held
  BY DEF Avail, Channel!getAvail, Held
<1>2. got = <<>> /\ Len(got) = 0 /\ FirstAt = 0 /\ LONG <= Avail
  BY EmptySeq DEF ChannelInv, GetOK, FirstAt, Avail
<1>3. FirstAt' = FirstAt
  <2>1. LONG - LONG - 0 = 0
    BY ChannelConstants
  <2>2. taken' = LONG /\ Len(got') = 0 /\ getting' # "idle"
    BY <1>2
  <2>3. FirstAt' = LONG - LONG - 0
    BY <2>2 DEF FirstAt
  <2> QED BY <1>2, <2>1, <2>3
<1>4. PICK s : Laid(s, unread, Held, put_left, FirstAt, memory, consumed)
  BY DEF ChannelInv, LaidOut
<1>5. Held >= LONG /\ Held \in Nat /\ Held - 1 \in Nat
  <2>1. PICK a : a = Avail
    OBVIOUS
  <2>2. a \in Nat /\ copied \in Nat /\ LONG \in Nat \ {0} /\ LONG <= a /\ Held = a + copied
    BY <1>2, <2>1, ChannelTyped
  <2> QED BY <2>2
<1>6. unread # <<>>
  <2> SUFFICES ASSUME unread = <<>> PROVE FALSE
    OBVIOUS
  <2>1. Len(unread) = 0
    BY EmptySeq
  <2>2. s[1] = 0 /\ s[0 + 1] = Held + put_left
    BY <1>2, <1>4, <2>1 DEF Laid
  <2>3. put_left \in Nat /\ LONG \in Nat \ {0} /\ 0 = Held + put_left
    BY <2>2, ChannelTyped DEF ChannelInv, ChannelType
  <2> QED BY <1>5, <2>3
<1>7. 1 \in 1..Len(unread) /\ Len(unread[1]) \in Nat /\ Len(unread[1]) <= Most
  <2>1. unread \in Items
    BY DEF ChannelInv, ChannelType
  <2>2. Len(unread) \in Nat /\ Len(unread) # 0
    BY <1>6, <2>1, ItemsTyped
  <2>3. 1 \in 1..Len(unread)
    BY <2>2
  <2> QED BY <2>3, ChannelTyped
<1>8. item_size' = Len(unread[1])
  <2>1. Channel!Copy(LONG)[1] = memory[(consumed + 0) % SIZE]
    <3>1. LONG \in Nat /\ 1 \in 1..LONG /\ 1 - 1 = 0 /\ consumed \in 0..MOD - 1
      BY ChannelConstants DEF ChannelInv, ChannelType
    <3> QED BY <3>1, Reads
  <2>2. memory[(consumed + 0) % SIZE] = ByteAt(unread[1], 0)
    <3>1. s[1] = 0
      BY <1>2, <1>4 DEF Laid
    <3>2. 0 + 0 \in 0..Held - 1 /\ 0 + 0 = 0 /\ 0 \in Nat /\ 0 < LONG + Len(unread[1])
      BY <1>5, <1>7, ChannelConstants
    <3>3. memory[(consumed + (0 + 0)) % SIZE] = ByteAt(unread[1], 0)
      BY <1>4, <1>7, <3>1, <3>2 DEF Laid
    <3> QED BY <3>2, <3>3
  <2>3. ByteAt(unread[1], 0) = <<Len(unread[1])>>
    BY ChannelConstants DEF ByteAt
  <2> QED BY <2>1, <2>2, <2>3
<1>9. ChannelType'
  BY <1>1, <1>7, <1>8, ChannelConstants DEF ChannelInv, ChannelType
<1>10. PutOK'
  BY DEF ChannelInv, PutOK
<1>11. GetOK'
  <2>1. Begun'
    <3>1. Len(got') + item_size' = Len(unread'[1])
      BY <1>2, <1>7, <1>8
    <3>2. \A i \in 1..Len(got') : FALSE
      BY <1>2
    <3> QED BY <1>6, <3>1, <3>2 DEF Begun
  <2>2. taken' <= Avail'
    BY <1>1, <1>2
  <2> QED BY <1>2, <2>1, <2>2 DEF GetOK
<1>12. LaidOut'
  BY <1>1, <1>3 DEF ChannelInv, LaidOut
<1> QED BY <1>9, <1>10, <1>11, <1>12 DEF ChannelInv

\* The bytes that are read go on where the first item's were left.
LEMMA ChannelGetsPart ==
    ASSUME ChannelInv, Channel!GetPart
    PROVE  ChannelInv'
<1> USE DEF Channel!GetPart, Channel!putVars, Channel!shared
<1>1. PICK n, g, it, c : /\ n = Channel!Lacking /\ g = Len(got) /\ it = unread[1]
                         /\ c = Channel!Copy(n)
  OBVIOUS
<1>2. Avail' = Avail /\ Held' = Held
  BY DEF Avail, Channel!getAvail, Held
<1>3. /\ unread # <<>> /\ g + item_size = Len(it) /\ g \in Nat /\ item_size \in Nat
      /\ taken = 0 /\ 1 \in 1..Len(unread) /\ it \in Seq(Piece)
      /\ Len(it) \in Nat /\ Len(it) <= Most
  <2>1. Begun /\ taken = 0
    BY DEF ChannelInv, GetOK
  <2>2. unread \in Items /\ unread # <<>>
    BY <2>1 DEF ChannelInv, ChannelType, Begun
  <2>3. Len(unread) \in Nat /\ Len(unread) # 0
    BY <2>2, ItemsTyped
  <2>4. 1 \in 1..Len(unread)
    BY <2>3
  <2>5. it \in Seq(Piece)
    BY <1>1, <2>2, <2>4, ItemsTyped
  <2>6. Len(it) \in Nat /\ Len(it) <= Most /\ g \in Nat
    BY <1>1, <2>4, ChannelTyped
  <2>7. g + item_size = Len(it)
    BY <1>1, <2>1 DEF Begun
  <2> QED BY <2>1, <2>2, <2>4, <2>5, <2>6, <2>7 DEF ChannelInv, ChannelType
<1>4. n \in 1..item_size /\ n <= Avail /\ n <= Most
  <2>1. PICK a : a = Avail
    OBVIOUS
  <2>2. a \in Nat
    BY <2>1, ChannelTyped
  <2>3. n = IF a < item_size THEN a ELSE item_size
    BY <1>1, <2>1 DEF Channel!Lacking, Channel!AtMost, Avail
  <2>4. n > 0
    BY <1>1
  <2> QED BY <1>3, <2>1, <2>2, <2>3, <2>4, ChannelConstants
<1>5. PICK s : Laid(s, unread, Held, put_left, FirstAt, memory, consumed)
  BY DEF ChannelInv, LaidOut
<1>6. ASSUME NEW i \in 1..n
      PROVE  c[i] = it[g + i] /\ g + i \in 1..Len(it)
  <2>1. PICK j : j = LONG + g + i - 1
    OBVIOUS
  <2>2. j \in Nat /\ j < LONG + Len(it) /\ ~ (j < LONG) /\ j - LONG + 1 = g + i
    BY <1>3, <1>4, <2>1, ChannelConstants
  <2>3. s[1] = -LONG - g
    <3>1. s[1] = taken - LONG - g
      BY <1>1, <1>5 DEF Laid, FirstAt
    <3> QED BY <1>3, <3>1, ChannelConstants
  <2>4. s[1] + j = i - 1
    BY <1>3, <2>1, <2>3, ChannelConstants
  <2>5. i - 1 \in 0..Held - 1
    <3>1. PICK a : a = Avail
      OBVIOUS
    <3>2. a \in Nat /\ copied \in Nat /\ Held = a + copied /\ n <= a
      BY <1>4, <3>1, ChannelTyped
    <3> QED BY <1>3, <1>4, <3>2
  <2>6. s[1] + j \in 0..Held - 1
    BY <2>4, <2>5
  <2>7. memory[(consumed + (s[1] + j)) % SIZE] = ByteAt(unread[1], j)
    BY <1>1, <1>3, <1>5, <2>2, <2>6 DEF Laid
  <2>8. Channel!Copy(n)[i] = memory[(consumed + (i - 1)) % SIZE]
    <3>1. n \in Nat /\ consumed \in 0..MOD - 1
      BY <1>3, <1>4 DEF ChannelInv, ChannelType
    <3> QED BY <3>1, Reads
  <2>9. ByteAt(it, j) = it[g + i]
    BY <2>2 DEF ByteAt
  <2>10. g + i \in 1..Len(it)
    BY <1>3, <1>4
  <2> QED BY <1>1, <2>4, <2>7, <2>8, <2>9, <2>10
<1>7. c \in Seq(Piece) /\ Len(c) = n
  <2>1. n \in Nat
    BY <1>3, <1>4
  <2>2. \A i \in 1..n : c[i] \in Piece
    BY <1>3, <1>6, ElementOfSeq
  <2>3. c = [i \in 1..n |-> c[i]]
    BY <1>1 DEF Channel!Copy
  <2>4. [i \in 1..n |-> c[i]] \in Seq(Piece)
    BY <2>1, <2>2, IsASeq
  <2>5. c \in Seq(Piece) /\ DOMAIN c = 1..n
    BY <2>3, <2>4
  <2> QED BY <2>1, <2>5, LenProperties
<1>8. /\ got' \in Seq(Piece) /\ Len(got') = g + n
      /\ \A i \in 1..g + n : got'[i] = IF i <= g THEN got[i] ELSE c[i - g]
  <2>1. got \in Seq(Piece) /\ got' = got \o c
    BY <1>1 DEF ChannelInv, ChannelType
  <2>2. /\ got \o c \in Seq(Piece) /\ Len(got \o c) = Len(got) + Len(c)
        /\ \A i \in 1..Len(got) + Len(c) :
              (got \o c)[i] = IF i <= Len(got) THEN got[i] ELSE c[i - Len(got)]
    BY <1>7, <2>1, ConcatProperties
  <2> QED BY <1>1, <1>7, <2>1, <2>2
<1>9. FirstAt' = FirstAt
  <2>1. FirstAt = taken - LONG - g /\ FirstAt' = n - LONG - (g + n)
    BY <1>1, <1>8 DEF FirstAt
  <2> QED BY <1>3, <1>4, <2>1, ChannelConstants
<1>10. item_size' = item_size - n /\ item_size' \in Nat
  BY <1>1, <1>3, <1>4
<1>11. ChannelType'
  <2>1. taken' \in 0..Most
    BY <1>1, <1>3, <1>4, ChannelConstants
  <2> QED BY <1>2, <1>8, <1>10, <2>1 DEF ChannelInv, ChannelType
<1>12. PutOK'
  BY DEF ChannelInv, PutOK
<1>13. GetOK'
  <2>1. Begun'
    <3>1. Len(got') + item_size' = Len(unread'[1])
      <4>1. g \in Nat /\ item_size \in Nat /\ n \in Nat /\ g + item_size = Len(it)
        BY <1>3, <1>4
      <4>2. g + n + (item_size - n) = g + item_size
        BY <4>1
      <4> QED BY <1>1, <1>8, <1>10, <4>1, <4>2
    <3>2. ASSUME NEW i \in 1..Len(got') PROVE got'[i] = unread'[1][i]
      <4>1. i \in 1..g + n
        BY <1>8
      <4>2. CASE i <= g
        <5>1. i \in 1..Len(got)
          BY <1>1, <1>3, <4>1, <4>2
        <5>2. got[i] = unread[1][i]
          BY <5>1 DEF ChannelInv, GetOK, Begun
        <5> QED BY <1>8, <4>1, <4>2, <5>2
      <4>3. CASE ~ (i <= g)
        <5>1. i - g \in 1..n /\ g + (i - g) = i
          BY <1>3, <1>4, <4>1, <4>3
        <5>2. c[i - g] = it[i]
          BY <1>6, <5>1
        <5> QED BY <1>1, <1>8, <4>1, <4>3, <5>2
      <4> QED BY <4>2, <4>3
    <3> QED BY <1>3, <3>1, <3>2 DEF Begun
  <2>2. taken' <= Avail'
    BY <1>1, <1>2, <1>4
  <2> QED BY <2>1, <2>2 DEF GetOK
<1>14. LaidOut'
  BY <1>2, <1>9 DEF ChannelInv, LaidOut
<1> QED BY <1>11, <1>12, <1>13, <1>14 DEF ChannelInv

\* The item that was read whole is returned.
LEMMA ChannelGets ==
    ASSUME ChannelInv, Channel!Get
    PROVE  ChannelInv'
<1> USE DEF Channel!Get, Channel!putVars, Channel!shared
<1>1. Avail' = Avail /\ Held' = Held /\ FirstAt' = 0
  BY DEF Avail, Channel!getAvail, Held, FirstAt
<1>2. PICK e, m : e = Len(unread) /\ m = Len(unread[1])
  OBVIOUS
<1>3. unread \in Items /\ Begun /\ taken = 0 /\ item_size = 0
  BY DEF ChannelInv, ChannelType, GetOK
<1>4. e \in Nat \ {0} /\ 1 \in 1..e /\ m \in Nat
  <2>1. e \in Nat /\ e # 0
    BY <1>2, <1>3, ItemsTyped DEF Begun
  <2>2. 1 \in 1..e
    BY <2>1
  <2> QED BY <1>2, <2>1, <2>2, ChannelTyped
<1>5. Len(got) = m
  <2>1. Len(got) + 0 = m /\ Len(got) \in Nat
    BY <1>2, <1>3, ChannelTyped DEF Begun
  <2> QED BY <2>1
<1>6. FirstAt + LONG + m = 0
  <2>1. FirstAt = 0 - LONG - m
    BY <1>3, <1>5 DEF FirstAt
  <2> QED BY <1>4, <2>1, ChannelConstants
<1>7. /\ unread' \in Items /\ Len(unread') = e - 1
      /\ \A k \in 1..e - 1 : unread'[k] = unread[k + 1]
  <2>1. unread \in Seq(Seq(Piece)) /\ unread # <<>>
    BY <1>3 DEF Items, Begun
  <2> QED BY <1>2, <2>1, HeadTailProperties DEF Items
<1>8. PICK s : Laid(s, unread, Held, put_left, FirstAt, memory, consumed)
  BY DEF ChannelInv, LaidOut
<1>9. ChannelType'
  <2>1. ASSUME NEW k \in 1..Len(unread') PROVE Len(unread'[k]) <= Most
    <3>1. k + 1 \in 1..Len(unread) /\ k \in 1..e - 1
      BY <1>2, <1>4, <1>7
    <3> QED BY <1>7, <3>1, ChannelTyped
  <2>2. got' \in Seq(Piece)
    BY EmptySeq
  <2> QED BY <1>1, <1>7, <2>1, <2>2 DEF ChannelInv, ChannelType
<1>10. PutOK'
  <2>1. ASSUME put_left > 0
        PROVE  unread' # <<>> /\ put_left <= Len(unread'[Len(unread')])
    <3>1. e # 1
      <4> SUFFICES ASSUME e = 1 PROVE FALSE
        OBVIOUS
      <4>1. s[1 + 1] = s[1] + LONG + m /\ s[1] = FirstAt /\ s[1 + 1] = Held + put_left
        BY <1>2, <1>4, <1>8 DEF Laid
      <4>2. Held + put_left = 0
        BY <1>6, <4>1
      <4>3. Held \in Nat /\ put_left \in Nat
        BY ChannelTyped DEF ChannelInv, ChannelType
      <4> QED BY <2>1, <4>2, <4>3
    <3>2. e - 1 \in 1..e - 1 /\ e - 1 + 1 = e /\ e - 1 # 0
      BY <1>4, <3>1
    <3>3. unread'[e - 1] = unread[e]
      BY <1>7, <3>2
    <3>4. put_left <= Len(unread[e])
      BY <1>2, <2>1 DEF ChannelInv, PutOK
    <3>5. unread' # <<>>
      BY <1>7, <3>2, EmptySeq
    <3> QED BY <1>7, <3>3, <3>4, <3>5
  <2> QED BY <2>1 DEF ChannelInv, PutOK
<1>11. GetOK'
  <2>1. taken' <= Avail'
    BY <1>1, <1>3 DEF ChannelInv, GetOK
  <2> QED BY <1>3, <2>1 DEF GetOK
<1>12. LaidOut'
  <2>1. PICK r : Laid(r, Tail(unread), Held, put_left, 0, memory, consumed)
    <3>1. Len(unread) # 0
      BY <1>2, <1>4
    <3> QED BY <1>2, <1>3, <1>6, <1>8, <3>1, LaidTail
  <2> QED BY <1>1, <2>1 DEF LaidOut
<1> QED BY <1>9, <1>10, <1>11, <1>12 DEF ChannelInv

\* A copy leaves what the ring holds and puts the bytes behind it.
LEMMA CopyKeeps ==
    ASSUME ChannelInv, copied = 0,
           NEW bytes, NEW n \in Nat, Len(bytes) = n, n <= SIZE - Avail
    PROVE  /\ Keeps(memory, Channel!Copied(bytes), consumed, Avail)
           /\ \A p \in Avail..Avail + n - 1 :
                 Channel!Copied(bytes)[(consumed + p) % SIZE] = bytes[p - Avail + 1]
<1>1. /\ produced \in 0..MOD - 1 /\ consumed \in 0..MOD - 1
      /\ Avail \in Nat /\ Avail <= SIZE /\ SIZE \in Nat
  BY ChannelTyped DEF ChannelInv, ChannelType
<1>2. PICK a : a = Avail
  OBVIOUS
<1>3. a \in Nat /\ a <= SIZE /\ n <= SIZE - a /\ SIZE \in Nat
  BY <1>1, <1>2
<1>4. \A p \in 0..a - 1 : p \in 0..SIZE - 1 /\ ~ (a <= p)
  BY <1>3
<1>5. \A p \in a..a + n - 1 : p \in 0..SIZE - 1 /\ a <= p /\ p < a + n
  BY <1>3
<1>6. \A p \in 0..SIZE - 1 : Channel!Copied(bytes)[(consumed + p) % SIZE] =
         IF a <= p /\ p < a + n THEN bytes[p - a + 1] ELSE memory[(consumed + p) % SIZE]
  BY <1>1, <1>2, Writes
<1> QED BY <1>2, <1>4, <1>5, <1>6 DEF Keeps

\* The size of an item goes into the ring, and the item is one that is unread.
LEMMA ChannelPutsSize ==
    ASSUME ChannelInv, NEW n \in ItemSizes, Channel!PutSize(n)
    PROVE  ChannelInv'
<1> USE DEF Channel!PutSize, Channel!getVars
<1>1. PICK it, bytes, e : /\ it = [i \in 1..n |-> Channel!Byte(item', i)]
                          /\ bytes = [i \in 1..LONG |-> Channel!SizeByte(n)]
                          /\ e = Len(unread)
  OBVIOUS
<1>2. /\ n \in Nat /\ n <= Most /\ LONG \in Nat \ {0} /\ LONG <= Most /\ Most \in Nat
      /\ item' \in Nat
  <2>1. item' \in Nat
    <3>1. item + 1 \in Int /\ ITEMS \in Nat \ {0}
      BY ChannelConstants DEF ChannelInv, ChannelType
    <3>2. (item + 1) % ITEMS \in 0..ITEMS - 1
      BY <3>1, Divided
    <3> QED BY <3>1, <3>2
  <2> QED BY <2>1, ChannelConstants
<1>3. it \in Seq(Piece) /\ Len(it) = n
  <2>1. \A i \in 1..n : Channel!Byte(item', i) \in Piece
    BY <1>2 DEF Channel!Byte, Piece
  <2>2. it \in Seq(Piece) /\ DOMAIN it = 1..n
    BY <1>1, <1>2, <2>1, IsASeq
  <2> QED BY <1>2, <2>2, LenProperties
<1>4. Len(bytes) = LONG /\ \A i \in 1..LONG : bytes[i] = <<n>>
  <2>1. \A i \in 1..LONG : bytes[i] = <<n>> /\ bytes[i] \in Seq(Nat)
    BY <1>1, <1>2 DEF Channel!SizeByte
  <2>2. bytes \in Seq(Seq(Nat)) /\ DOMAIN bytes = 1..LONG
    <3>1. bytes = [i \in 1..LONG |-> bytes[i]]
      BY <1>1
    <3>2. [i \in 1..LONG |-> bytes[i]] \in Seq(Seq(Nat))
      BY <1>2, <2>1, IsASeq
    <3> QED BY <3>1, <3>2
  <2> QED BY <1>2, <2>1, <2>2, LenProperties
<1>5. /\ unread' \in Items /\ Len(unread') = e + 1 /\ e \in Nat /\ unread \in Items
      /\ unread'[e + 1] = it /\ \A k \in 1..e : unread'[k] = unread[k]
  <2>1. unread \in Seq(Seq(Piece)) /\ unread' = Append(unread, it)
    BY <1>1 DEF ChannelInv, ChannelType, Items
  <2>2. e \in Nat
    BY <1>1, ChannelTyped
  <2> QED BY <1>1, <1>3, <2>1, <2>2, AppendProperties DEF Items
<1>6. copied = 0 /\ put_left = 0 /\ LONG <= SIZE - Avail
  BY DEF ChannelInv, PutOK, Channel!Room, Avail
<1>7. Avail' = Avail /\ FirstAt' = FirstAt
  BY DEF Avail, Channel!getAvail, FirstAt
<1>8. Held = Avail /\ Held' = Held + LONG /\ Held' <= SIZE /\ Held \in Nat
  <2>1. PICK a : a = Avail
    OBVIOUS
  <2>2. a \in Nat /\ SIZE \in Nat /\ LONG <= SIZE - a
    BY <1>6, <2>1, ChannelTyped
  <2>3. Held = a + 0 /\ Held' = a + LONG
    BY <1>6, <1>7, <2>1 DEF Held
  <2>4. a + LONG <= SIZE /\ a + 0 = a
    BY <1>2, <2>2
  <2> QED BY <2>1, <2>2, <2>3, <2>4
<1>9. ChannelType'
  <2>1. ASSUME NEW k \in 1..Len(unread') PROVE Len(unread'[k]) <= Most
    <3>1. k = e + 1 \/ k \in 1..e
      BY <1>5
    <3>2. CASE k = e + 1
      BY <1>2, <1>3, <1>5, <3>2
    <3>3. CASE k \in 1..e
      BY <1>1, <1>5, <3>3, ChannelTyped
    <3> QED BY <3>1, <3>2, <3>3
  <2>2. copied' \in 0..Most /\ put_left' \in Nat
    BY <1>2
  <2> QED BY <1>2, <1>5, <1>8, <2>1, <2>2 DEF ChannelInv, ChannelType
<1>10. PutOK'
  <2>1. unread' # <<>>
    BY <1>5, EmptySeq
  <2>2. put_left' <= Len(unread'[Len(unread')])
    BY <1>2, <1>3, <1>5
  <2> QED BY <2>1, <2>2 DEF PutOK
<1>11. GetOK'
  <2>1. Begun => Begun'
    <3> SUFFICES ASSUME Begun PROVE Begun'
      OBVIOUS
    <3>1. e # 0
      BY <1>1, <1>5, ItemsTyped DEF Begun
    <3>2. unread' # <<>>
      BY <1>5, EmptySeq
    <3>3. 1 \in 1..e
      BY <1>5, <3>1
    <3>4. unread'[1] = unread[1]
      BY <1>5, <3>3
    <3> QED BY <3>2, <3>4 DEF Begun
  <2> QED BY <1>7, <2>1 DEF ChannelInv, GetOK
<1>12. LaidOut'
  <2>1. PICK s : Laid(s, unread, Held, put_left, FirstAt, memory, consumed)
    BY DEF ChannelInv, LaidOut
  <2>2. PICK r : Laid(r, unread', Held, LONG + n, FirstAt, memory, consumed)
    <3>1. unread' = Append(unread, it)
      BY <1>1
    <3>2. Laid(s, unread, Held, 0, FirstAt, memory, consumed)
      BY <1>6, <2>1
    <3>3. /\ n \in Nat /\ n = Len(it) /\ it \in Seq(Piece)
          /\ unread \in Items /\ Held \in Nat
      BY <1>2, <1>3, <1>5, <1>8
    <3>4. \E r : Laid(r, Append(unread, it), Held, LONG + n, FirstAt, memory, consumed)
      BY <3>2, <3>3, LaidAppend
    <3> QED BY <3>1, <3>4
  <2>3. Keeps(memory, memory', consumed, Held) /\ Gets(memory', consumed, Held, LONG, it, 0)
    <3>1. memory' = Channel!Copied(bytes) /\ LONG \in Nat
      BY <1>1, <1>2
    <3>2. /\ Keeps(memory, memory', consumed, Held)
          /\ \A p \in Held..Held + LONG - 1 :
                memory'[(consumed + p) % SIZE] = bytes[p - Held + 1]
      BY <1>4, <1>6, <1>8, <3>1, CopyKeeps
    <3>3. ASSUME NEW p \in Held..Held + LONG - 1
          PROVE  bytes[p - Held + 1] = ByteAt(it, p - Held + 0)
      <4>1. PICK h : h = Held
        OBVIOUS
      <4>2. h \in Nat /\ p \in h..h + LONG - 1
        BY <1>8, <4>1
      <4>3. p - h + 1 \in 1..LONG /\ p - h + 0 < LONG
        BY <1>2, <4>2
      <4> QED BY <1>3, <1>4, <4>1, <4>3 DEF ByteAt
    <3> QED BY <3>2, <3>3 DEF Gets
  <2>4. PICK d, l, u, ring, h, f, c : /\ d = e + 1 /\ l = LONG + n /\ u = unread'
                                      /\ ring = memory' /\ h = Held /\ f = FirstAt
                                      /\ c = consumed
    OBVIOUS
  <2>5. l \in Nat /\ LONG \in 0..l /\ l - LONG = n
    BY <1>2, <2>4
  <2>6. d = Len(u) /\ d # 0 /\ u \in Items /\ h \in Nat /\ u[d] = it
    BY <1>5, <1>8, <2>4
  <2>7. LONG + Len(u[d]) = 0 + l
    BY <1>2, <1>3, <2>4, <2>6
  <2>8. /\ Laid(r, u, h, l, f, memory, c)
        /\ Keeps(memory, ring, c, h) /\ Gets(ring, c, h, LONG, u[d], 0)
    BY <2>2, <2>3, <2>4, <2>6
  <2>9. Laid(r, u, h + LONG, l - LONG, f, ring, c)
    BY <2>5, <2>6, <2>7, <2>8, LaidGrows
  <2>10. Laid(r, unread', Held', put_left', FirstAt', memory', consumed')
    BY <1>7, <1>8, <2>4, <2>5, <2>9
  <2> QED BY <2>10 DEF LaidOut
<1> QED BY <1>9, <1>10, <1>11, <1>12 DEF ChannelInv

\* More of the last item goes into the ring.
LEMMA ChannelPutsPart ==
    ASSUME ChannelInv, Channel!PutPart
    PROVE  ChannelInv'
<1>1. PICK e, it, n, done, bytes :
          /\ e = Len(unread) /\ it = unread[e] /\ n = Channel!AtMost(SIZE - Avail, put_left)
          /\ done = Len(it) - put_left /\ bytes = SubSeq(it, done + 1, done + n)
  OBVIOUS
<1>2. /\ putting = "part" /\ n > 0 /\ memory' = Channel!Copied(bytes) /\ copied' = n
      /\ put_left' = put_left - n /\ putting' = "written"
      /\ UNCHANGED <<produced, consumed, item, getting, got, item_size, taken, unread>>
  BY <1>1 DEF Channel!PutPart, Channel!getVars, Channel!Last, Channel!Room, Avail
<1>3. /\ copied = 0 /\ put_left > 0 /\ put_left \in Nat /\ unread # <<>>
      /\ put_left <= Len(unread[Len(unread)]) /\ unread \in Items
  BY <1>2 DEF ChannelInv, ChannelType, PutOK
<1>4. /\ e \in Nat \ {0} /\ e \in 1..e /\ it \in Seq(Piece) /\ Len(it) \in Nat
      /\ Len(it) <= Most /\ put_left <= Len(it) /\ done \in Nat /\ done + put_left = Len(it)
  <2>1. e \in Nat /\ e # 0
    BY <1>1, <1>3, ItemsTyped
  <2>2. e \in 1..e
    BY <2>1
  <2>3. it \in Seq(Piece) /\ Len(it) \in Nat /\ Len(it) <= Most
    BY <1>1, <1>3, <2>2, ItemsTyped, ChannelTyped
  <2>4. put_left <= Len(it)
    BY <1>1, <1>3
  <2>5. done \in Nat /\ done + put_left = Len(it)
    BY <1>1, <1>3, <2>3, <2>4
  <2> QED BY <2>1, <2>2, <2>3, <2>4, <2>5
<1>5. n \in 1..put_left /\ n \in Nat /\ n <= SIZE - Avail /\ n <= Most
  <2>1. PICK a : a = Avail
    OBVIOUS
  <2>2. a \in Nat /\ a <= SIZE /\ SIZE \in Nat
    BY <2>1, ChannelTyped
  <2>3. n = IF SIZE - a < put_left THEN SIZE - a ELSE put_left
    BY <1>1, <2>1 DEF Channel!AtMost
  <2>4. n > 0 /\ put_left <= Most /\ Most \in Nat
    BY <1>2, ChannelTyped
  <2> QED BY <1>3, <2>1, <2>2, <2>3, <2>4
<1>6. Len(bytes) = n /\ \A i \in 1..n : bytes[i] = it[done + i]
  <2>1. \A i \in done + 1..done + n : it[i] \in Piece
    <3>1. \A i \in done + 1..done + n : i \in 1..Len(it)
      BY <1>3, <1>4, <1>5
    <3> QED BY <1>4, <3>1, ElementOfSeq
  <2>2. PICK m, h : m = done + 1 /\ h = done + n
    OBVIOUS
  <2>3. m \in Int /\ h \in Int /\ m <= h /\ h - m + 1 = n
    BY <1>4, <1>5, <2>2
  <2>4. bytes = SubSeq(it, m, h) /\ \A i \in m..h : it[i] \in Piece
    BY <1>1, <2>1, <2>2
  <2>5. Len(bytes) = h - m + 1 /\ \A i \in 1..h - m + 1 : bytes[i] = it[m + i - 1]
    BY <2>3, <2>4, SubSeqProperties
  <2>6. \A i \in 1..n : m + i - 1 = done + i
    BY <1>4, <2>2
  <2> QED BY <2>3, <2>5, <2>6
<1>7. Avail' = Avail /\ FirstAt' = FirstAt
  BY <1>2 DEF Avail, Channel!getAvail, FirstAt
<1>8. Held = Avail /\ Held' = Held + n /\ Held' <= SIZE /\ Held \in Nat
  <2>1. PICK a : a = Avail
    OBVIOUS
  <2>2. a \in Nat /\ SIZE \in Nat /\ n <= SIZE - a
    BY <1>5, <2>1, ChannelTyped
  <2>3. Held = a + 0 /\ Held' = a + n
    BY <1>2, <1>3, <1>7, <2>1 DEF Held
  <2>4. a + n <= SIZE /\ a + 0 = a
    BY <1>5, <2>2
  <2> QED BY <2>1, <2>2, <2>3, <2>4
<1>9. put_left' \in Nat /\ put_left' <= Len(it)
  BY <1>2, <1>3, <1>4, <1>5
<1>10. ChannelType'
  <2>1. copied' \in 0..Most
    BY <1>2, <1>5, ChannelConstants
  <2> QED BY <1>2, <1>8, <1>9, <2>1 DEF ChannelInv, ChannelType
<1>11. PutOK'
  <2>1. unread' # <<>> /\ put_left' <= Len(unread'[Len(unread')])
    BY <1>1, <1>2, <1>3, <1>9
  <2> QED BY <1>2, <2>1 DEF PutOK
<1>12. GetOK'
  BY <1>2, <1>7 DEF ChannelInv, GetOK, Begun
<1>13. LaidOut'
  <2>1. PICK s : Laid(s, unread, Held, put_left, FirstAt, memory, consumed)
    BY DEF ChannelInv, LaidOut
  <2>2. PICK before, ring, h, f, c : /\ before = LONG + done /\ ring = memory'
                                     /\ h = Held /\ f = FirstAt /\ c = consumed
    OBVIOUS
  <2>3. before \in Nat /\ LONG \in Nat /\ LONG + Len(it) = before + put_left
    <3>1. PICK w : w = Len(it)
      OBVIOUS
    <3>2. /\ w \in Nat /\ done \in Nat /\ put_left \in Nat /\ LONG \in Nat
          /\ done + put_left = w
      BY <1>3, <1>4, <3>1, ChannelConstants
    <3> QED BY <2>2, <3>1, <3>2
  <2>4. Keeps(memory, ring, c, h) /\ Gets(ring, c, h, n, it, before)
    <3>1. /\ Keeps(memory, ring, c, h)
          /\ \A p \in h..h + n - 1 : ring[(c + p) % SIZE] = bytes[p - h + 1]
      BY <1>2, <1>3, <1>5, <1>6, <1>8, <2>2, CopyKeeps
    <3>2. ASSUME NEW p \in h..h + n - 1
          PROVE  bytes[p - h + 1] = ByteAt(it, p - h + before)
      <4>1. h \in Nat
        BY <1>8, <2>2
      <4>2. p - h + 1 \in 1..n
        BY <1>5, <4>1
      <4>3. PICK j, k : j = p - h + before /\ k = p - h + 1
        OBVIOUS
      <4>4. ~ (j < LONG) /\ j - LONG + 1 = done + k
        BY <1>4, <1>5, <2>2, <2>3, <4>1, <4>3
      <4>5. bytes[k] = it[done + k]
        BY <1>6, <4>2, <4>3
      <4>6. ByteAt(it, j) = it[done + k]
        BY <4>4 DEF ByteAt
      <4> QED BY <4>3, <4>5, <4>6
    <3> QED BY <3>1, <3>2 DEF Gets
  <2>5. e = Len(unread) /\ e # 0 /\ h \in Nat /\ n \in 0..put_left
    BY <1>1, <1>4, <1>5, <1>8, <2>2
  <2>6. LONG + Len(unread[e]) = before + put_left /\ Gets(ring, c, h, n, unread[e], before)
    BY <1>1, <2>3, <2>4
  <2>7. Laid(s, unread, h, put_left, f, memory, c)
    BY <2>1, <2>2
  <2>8. Laid(s, unread, h + n, put_left - n, f, ring, c)
    BY <1>3, <2>3, <2>4, <2>5, <2>6, <2>7, LaidGrows
  <2>9. Laid(s, unread', Held', put_left', FirstAt', memory', consumed')
    BY <1>2, <1>7, <1>8, <2>2, <2>8
  <2> QED BY <2>9 DEF LaidOut
<1> QED BY <1>10, <1>11, <1>12, <1>13 DEF ChannelInv

LEMMA ChannelStill == ChannelInv /\ UNCHANGED channel => ChannelInv'
BY DEF ChannelInv, ChannelType, PutOK, GetOK, Begun, LaidOut, FirstAt, Held, Avail,
       Channel!getAvail, channel

LEMMA ChannelNext ==
    ASSUME ChannelInv, Channel!Next
    PROVE  ChannelInv'
<1>1. ASSUME NEW n \in ItemSizes, Channel!PutSize(n) PROVE ChannelInv'
  BY <1>1, ChannelPutsSize
<1>2. CASE Channel!PutPart
  BY <1>2, ChannelPutsPart
<1>3. CASE Channel!Produce
  BY <1>3, ChannelProduces
<1>4. CASE Channel!GetSize
  BY <1>4, ChannelGetsSize
<1>5. CASE Channel!GetPart
  BY <1>5, ChannelGetsPart
<1>6. CASE Channel!Consume
  BY <1>6, ChannelConsumes
<1>7. CASE Channel!Get
  BY <1>7, ChannelGets
<1> QED BY <1>1, <1>2, <1>3, <1>4, <1>5, <1>6, <1>7 DEF Channel!Next

-----------------------------------------------------------------------------
(***************************************************************************)
(* The composition.                                                        *)
(***************************************************************************)
LEMMA ClientHolds == FairSpec => []ClientInv
<1>1. Init => ClientInv
  BY ClientInit DEF Init
<1>2. ClientInv /\ [Next]_vars => ClientInv'
  <2> SUFFICES ASSUME ClientInv, [Next]_vars PROVE ClientInv'
    OBVIOUS
  <2>1. CASE Client!Next
    BY <2>1, ClientNext
  <2>2. CASE UNCHANGED client
    <3>1. UNCHANGED <<pc, call, id, in_use, ready, reply, nr_live_reqs, probe, rsp,
                      rsp_prod, rsp_cons, outgoing, req>>
      BY <2>2 DEF client
    <3> QED BY <3>1, ClientStill
  <2> QED BY <2>1, <2>2 DEF Next, vars
<1> QED BY <1>1, <1>2, PTL DEF FairSpec

\* The identifiers in use are those of the requests under way, no two with the same,
\* and nr_live_reqs counts them: allocate_xenbus_id and release_xenbus_id, xenbus.c:300.
THEOREM XenIdsAreCounted == FairSpec => []IdsAreCounted
<1>1. ClientInv => IdsAreCounted
  <2> SUFFICES ASSUME ClientInv PROVE Client!IdsAreCounted
    BY DEF IdsAreCounted
  <2>1. Users = {t \in Task : pc[t] \in {"write", "room", "notify", "await"}}
    BY DEF Users, Using
  <2>2. /\ \A t, u \in Users : id[t] = id[u] => t = u
        /\ nr_live_reqs = Client!Cardinality(Users)
    BY ClientOperators DEF ClientInv, IdsOwned
  <2>3. {i \in Client!Id : in_use[i]} = {id[t] : t \in Users}
    BY DEF ClientInv, IdsOwned, Id
  <2> QED BY <2>1, <2>2, <2>3 DEF Client!IdsAreCounted
<1> QED BY <1>1, ClientHolds, PTL

\* A task that finds its request ready has the reply to that request, not to an earlier
\* one of the same identifier: xenbus_msg_reply and the thread's delivery, xenbus.c:466.
THEOREM XenRepliesMatch == FairSpec => []RepliesMatch
<1>1. ClientInv => RepliesMatch
  BY DEF ClientInv, RepliesRight, Users, Using, RepliesMatch, Client!RepliesMatch
<1> QED BY <1>1, ClientHolds, PTL

LEMMA ChannelHolds == FairSpec => []ChannelInv
<1>1. Init => ChannelInv
  BY ChannelInit DEF Init
<1>2. ChannelInv /\ [Next]_vars => ChannelInv'
  <2> SUFFICES ASSUME ChannelInv, [Next]_vars PROVE ChannelInv'
    OBVIOUS
  <2>1. CASE Channel!Next
    BY <2>1, ChannelNext
  <2>2. CASE UNCHANGED channel
    BY <2>2, ChannelStill
  <2> QED BY <2>1, <2>2 DEF Next, vars
<1> QED BY <1>1, <1>2, PTL DEF FairSpec

\* getData returns the items of putData whole and in their order, for every size of the
\* pages and of the items that a copy cannot carry past the width of the indices: writeRaw
\* and readRaw, libIVC.c:617.
THEOREM XenItemsArriveWhole == FairSpec => []ItemsArriveWhole
<1>1. ChannelInv => ItemsArriveWhole
  <2> SUFFICES ASSUME ChannelInv, getting = "got" PROVE got = Head(unread)
    BY DEF ItemsArriveWhole, Channel!ItemsArriveWhole
  <2>1. Begun /\ item_size = 0 /\ unread \in Items /\ got \in Seq(Piece)
    BY DEF ChannelInv, ChannelType, GetOK
  <2>2. Len(unread) \in Nat /\ Len(unread) # 0
    BY <2>1, ItemsTyped DEF Begun
  <2>3. 1 \in 1..Len(unread)
    BY <2>2
  <2>4. unread[1] \in Seq(Piece)
    BY <2>1, <2>3, ItemsTyped
  <2>5. Len(got) = Len(unread[1])
    <3>1. Len(got) + 0 = Len(unread[1]) /\ Len(got) \in Nat
      BY <2>1, LenProperties DEF Begun
    <3> QED BY <3>1
  <2>6. \A i \in 1..Len(got) : got[i] = unread[1][i]
    BY <2>1 DEF Begun
  <2>7. got = unread[1]
    BY <2>1, <2>4, <2>5, <2>6, SeqEqual
  <2>8. Head(unread) = unread[1]
    BY <2>1, HeadTailProperties DEF Begun, Items
  <2> QED BY <2>7, <2>8
<1> QED BY <1>1, ChannelHolds, PTL

=============================================================================
