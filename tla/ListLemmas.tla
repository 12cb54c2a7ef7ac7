----------------------------- MODULE ListLemmas -----------------------------
(***************************************************************************)
(* What the operators of Lists return, for the proofs about the modules    *)
(* that use them: each keeps a list free of repetitions, and its set of    *)
(* items is the one expected.                                              *)
(***************************************************************************)
EXTENDS Lists, SequenceLemmas

LEMMA EmptyList ==
    ASSUME NEW S
    PROVE  IsList(<<>>, S) /\ ToSet(<<>>) = {}
BY DEF IsList, NoRepeats, ToSet

-----------------------------------------------------------------------------
(***************************************************************************)
(* The lists after an operation.                                           *)
(***************************************************************************)
LEMMA RemoveFirstList ==
    ASSUME NEW S, NEW s, IsList(s, S), NEW x
    PROVE  /\ IsList(RemoveFirst(s, x), S)
           /\ ToSet(RemoveFirst(s, x)) = ToSet(s) \ {x}
<1>1. s \in Seq(S) /\ NoRepeats(s) /\ Len(s) \in Nat
  BY LenProperties DEF IsList
<1>2. CASE x \notin ToSet(s) /\ RemoveFirst(s, x) = s
  BY <1>2
<1>3. ASSUME NEW i \in 1..Len(s), s[i] = x, RemoveFirst(s, x) = RemoveAt(s, i)
      PROVE  /\ IsList(RemoveFirst(s, x), S)
             /\ ToSet(RemoveFirst(s, x)) = ToSet(s) \ {x}
  <2> DEFINE r == RemoveAt(s, i)
  <2>1. /\ r \in Seq(S) /\ Len(r) = Len(s) - 1
        /\ \A j \in 1..Len(s) - 1 : r[j] = IF j < i THEN s[j] ELSE s[j + 1]
    BY <1>1, RemoveAtElements
  <2> HIDE DEF r
  <2>2. NoRepeats(r)
    BY <1>1, <2>1 DEF NoRepeats
  <2>3. ASSUME NEW y \in ToSet(r) PROVE y \in ToSet(s) /\ y # x
    <3>1. PICK j \in 1..Len(s) - 1 : r[j] = y
      BY <2>1, ToSetByIndex
    <3>2. PICK k \in 1..Len(s) : s[k] = y /\ k # i
      BY <1>1, <2>1, <3>1
    <3> QED BY <1>1, <1>3, <3>2, ToSetByIndex DEF NoRepeats
  <2>4. ASSUME NEW y \in ToSet(s), y # x PROVE y \in ToSet(r)
    <3>1. PICK k \in 1..Len(s) : s[k] = y
      BY <1>1, ToSetByIndex
    <3>2. CASE k < i
      BY <1>1, <2>1, <3>1, <3>2, ToSetByIndex
    <3>3. CASE k > i
      <4>1. k - 1 \in 1..Len(s) - 1 /\ r[k - 1] = y
        BY <1>1, <2>1, <3>1, <3>3
      <4> QED BY <2>1, <4>1, ToSetByIndex
    <3> QED BY <1>1, <1>3, <2>4, <3>1, <3>2, <3>3
  <2> QED BY <1>3, <2>1, <2>2, <2>3, <2>4 DEF r, IsList
<1> QED BY <1>1, <1>2, <1>3, RemoveFirstCases

LEMMA InsertAtList ==
    ASSUME NEW S, NEW s, IsList(s, S), NEW i \in 1..Len(s) + 1,
           NEW x \in S, x \notin ToSet(s)
    PROVE  /\ IsList(InsertAt(s, i, x), S)
           /\ ToSet(InsertAt(s, i, x)) = ToSet(s) \cup {x}
<1>1. s \in Seq(S) /\ NoRepeats(s) /\ Len(s) \in Nat
  BY LenProperties DEF IsList
<1>2. /\ InsertAt(s, i, x) \in Seq(S)
      /\ Len(InsertAt(s, i, x)) = Len(s) + 1
      /\ InsertAt(s, i, x)[i] = x
      /\ \A j \in 1..i - 1 : InsertAt(s, i, x)[j] = s[j]
      /\ \A j \in i + 1..Len(s) + 1 : InsertAt(s, i, x)[j] = s[j - 1]
  BY <1>1, InsertAtElements, SMTT(30)
<1> DEFINE r == InsertAt(s, i, x)
<1>3. /\ r \in Seq(S) /\ Len(r) = Len(s) + 1
      /\ r[i] = x
      /\ \A j \in 1..i - 1 : r[j] = s[j]
      /\ \A j \in i + 1..Len(s) + 1 : r[j] = s[j - 1]
  BY <1>2, Zenon
<1> HIDE DEF r
<1>4. \A k \in 1..Len(s) : s[k] # x
  BY <1>1, ToSetByIndex
<1>5. NoRepeats(r)
  <2> SUFFICES ASSUME NEW j \in 1..Len(s) + 1, NEW k \in 1..Len(s) + 1, j < k,
                      r[j] = r[k]
               PROVE  FALSE
    BY <1>1, <1>3 DEF NoRepeats
  <2>1. CASE k < i
    BY <1>1, <1>3, <2>1 DEF NoRepeats
  <2>2. CASE k = i
    BY <1>1, <1>3, <1>4, <2>2
  <2>3. CASE k > i /\ j = i
    <3>1. k \in i + 1..Len(s) + 1 /\ k - 1 \in 1..Len(s)
      BY <1>1, <2>3
    <3>2. r[k] = s[k - 1]
      BY <1>3, <3>1
    <3> QED BY <1>3, <1>4, <2>3, <3>1, <3>2
  <2>4. CASE k > i /\ j < i
    <3>1. k - 1 \in 1..Len(s) /\ r[k] = s[k - 1] /\ r[j] = s[j] /\ k - 1 # j
      BY <1>1, <1>3, <2>4
    <3> QED BY <1>1, <3>1 DEF NoRepeats
  <2>5. CASE k > i /\ j > i
    <3>1. /\ k - 1 \in 1..Len(s) /\ r[k] = s[k - 1]
          /\ j - 1 \in 1..Len(s) /\ r[j] = s[j - 1] /\ k - 1 # j - 1
      BY <1>1, <1>3, <2>5
    <3> QED BY <1>1, <3>1 DEF NoRepeats
  <2> QED BY <2>1, <2>2, <2>3, <2>4, <2>5
<1>6. ASSUME NEW y \in ToSet(r) PROVE y \in ToSet(s) \cup {x}
  <2>1. PICK j \in 1..Len(s) + 1 : r[j] = y
    BY <1>3, ToSetByIndex
  <2>2. CASE j < i
    BY <1>1, <1>3, <2>1, <2>2, ToSetByIndex
  <2>3. CASE j = i
    BY <1>3, <2>1, <2>3
  <2>4. CASE j > i
    <3>1. j - 1 \in 1..Len(s) /\ s[j - 1] = y
      BY <1>1, <1>3, <2>1, <2>4
    <3> QED BY <1>1, <3>1, ToSetByIndex
  <2> QED BY <2>2, <2>3, <2>4
<1>7. ASSUME NEW y \in ToSet(s) PROVE y \in ToSet(r)
  <2>1. PICK k \in 1..Len(s) : s[k] = y
    BY <1>1, ToSetByIndex
  <2>2. CASE k < i
    BY <1>1, <1>3, <2>1, <2>2, ToSetByIndex
  <2>3. CASE k >= i
    <3>1. k + 1 \in 1..Len(s) + 1 /\ r[k + 1] = y
      BY <1>1, <1>3, <2>1, <2>3
    <3> QED BY <1>3, <3>1, ToSetByIndex
  <2> QED BY <1>1, <2>2, <2>3
<1>8. x \in ToSet(r)
  BY <1>1, <1>3, ToSetByIndex
<1> QED BY <1>3, <1>5, <1>6, <1>7, <1>8 DEF r, IsList

LEMMA AppendList ==
    ASSUME NEW S, NEW s, IsList(s, S), NEW x \in S, x \notin ToSet(s)
    PROVE  /\ IsList(Append(s, x), S)
           /\ ToSet(Append(s, x)) = ToSet(s) \cup {x}
<1>1. s \in Seq(S) /\ NoRepeats(s) /\ Len(s) \in Nat
  BY LenProperties DEF IsList
<1> DEFINE r == Append(s, x)
<1>2. /\ r \in Seq(S) /\ Len(r) = Len(s) + 1
      /\ \A j \in 1..Len(s) : r[j] = s[j]
      /\ r[Len(s) + 1] = x
  BY <1>1, AppendProperties
<1> HIDE DEF r
<1>3. \A k \in 1..Len(s) : s[k] # x
  BY <1>1, ToSetByIndex
<1>4. NoRepeats(r)
  BY <1>1, <1>2, <1>3 DEF NoRepeats
<1>5. ASSUME NEW y PROVE y \in ToSet(r) <=> y \in ToSet(s) \cup {x}
  BY <1>1, <1>2, ToSetByIndex
<1> QED BY <1>2, <1>4, <1>5 DEF r, IsList

LEMMA TailList ==
    ASSUME NEW S, NEW s, IsList(s, S), s # <<>>
    PROVE  /\ IsList(Tail(s), S)
           /\ Head(s) \in ToSet(s)
           /\ ToSet(Tail(s)) = ToSet(s) \ {Head(s)}
<1>1. s \in Seq(S) /\ NoRepeats(s) /\ Len(s) \in Nat \ {0} /\ Head(s) = s[1]
  BY LenProperties, EmptySeq DEF IsList
<1> DEFINE r == Tail(s)
<1>2. /\ r \in Seq(S) /\ Len(r) = Len(s) - 1
      /\ \A j \in 1..Len(s) - 1 : r[j] = s[j + 1]
  BY <1>1, HeadTailProperties
<1> HIDE DEF r
<1>3. NoRepeats(r)
  BY <1>1, <1>2 DEF NoRepeats
<1>4. ASSUME NEW y \in ToSet(r) PROVE y \in ToSet(s) /\ y # Head(s)
  <2>1. PICK j \in 1..Len(s) - 1 : r[j] = y
    BY <1>2, ToSetByIndex
  <2>2. j + 1 \in 1..Len(s) /\ s[j + 1] = y /\ j + 1 # 1
    BY <1>1, <1>2, <2>1
  <2> QED BY <1>1, <2>2, ToSetByIndex DEF NoRepeats
<1>5. ASSUME NEW y \in ToSet(s), y # Head(s) PROVE y \in ToSet(r)
  <2>1. PICK k \in 1..Len(s) : s[k] = y
    BY <1>1, ToSetByIndex
  <2>2. k - 1 \in 1..Len(s) - 1 /\ r[k - 1] = y
    BY <1>1, <1>2, <1>5, <2>1
  <2> QED BY <1>2, <2>2, ToSetByIndex
<1>6. Head(s) \in ToSet(s)
  BY <1>1, ToSetByIndex
<1> QED BY <1>2, <1>3, <1>4, <1>5, <1>6 DEF r, IsList

\* A list without its first n items.
FirstItems(s, n) == {s[i] : i \in 1..n}
ItemsAfter(s, n) == SubSeq(s, n + 1, Len(s))

LEMMA SuffixList ==
    ASSUME NEW S, NEW s, IsList(s, S), NEW n \in 0..Len(s)
    PROVE  /\ IsList(ItemsAfter(s, n), S)
           /\ FirstItems(s, n) \subseteq ToSet(s)
           /\ ToSet(ItemsAfter(s, n)) = ToSet(s) \ FirstItems(s, n)
           /\ ItemsAfter(s, n) = <<>> <=> n = Len(s)
<1> DEFINE first == {s[i] : i \in 1..n}
           r == SubSeq(s, n + 1, Len(s))
<1>1. s \in Seq(S) /\ NoRepeats(s) /\ Len(s) \in Nat /\ \A i \in 1..Len(s) : s[i] \in S
  BY LenProperties, ElementOfSeq DEF IsList
<1>2. /\ r \in Seq(S) /\ Len(r) = Len(s) - n
      /\ \A i \in 1..Len(s) - n : r[i] = s[n + i]
  <2>1. n + 1 \in Int /\ Len(s) \in Int /\ \A i \in n + 1..Len(s) : s[i] \in S
    BY <1>1
  <2>2. /\ r \in Seq(S) /\ Len(r) = IF n + 1 <= Len(s) THEN Len(s) - (n + 1) + 1 ELSE 0
        /\ \A i \in 1..Len(s) - (n + 1) + 1 : r[i] = s[(n + 1) + i - 1]
    BY <2>1, SubSeqProperties
  <2> HIDE DEF r
  <2>3. Len(r) = Len(s) - n
    BY <1>1, <2>2
  <2>4. ASSUME NEW i \in 1..Len(s) - n PROVE r[i] = s[n + i]
    <3>1. i \in 1..Len(s) - (n + 1) + 1 /\ (n + 1) + i - 1 = n + i
      BY <1>1
    <3> QED BY <2>2, <3>1
  <2> QED BY <2>2, <2>3, <2>4
<1> HIDE DEF r
<1>3. NoRepeats(r)
  BY <1>1, <1>2 DEF NoRepeats
<1>4. first \subseteq ToSet(s)
  BY <1>1, ToSetByIndex
<1>5. ASSUME NEW y \in ToSet(r) PROVE y \in ToSet(s) \ first
  <2>1. PICK j \in 1..Len(s) - n : r[j] = y
    BY <1>2, ToSetByIndex
  <2>2. n + j \in 1..Len(s) /\ s[n + j] = y /\ n + j \notin 1..n
    BY <1>1, <1>2, <2>1
  <2>3. y \in ToSet(s)
    BY <1>1, <2>2, ToSetByIndex
  <2> QED BY <1>1, <2>2, <2>3 DEF NoRepeats
<1>6. ASSUME NEW y \in ToSet(s) \ first PROVE y \in ToSet(r)
  <2>1. PICK k \in 1..Len(s) : s[k] = y
    BY <1>1, ToSetByIndex
  <2>2. k \notin 1..n
    BY <1>6, <2>1
  <2>3. k - n \in 1..Len(s) - n /\ n + (k - n) = k
    BY <1>1, <2>2
  <2>4. r[k - n] = y
    BY <1>2, <2>1, <2>3
  <2> QED BY <1>2, <2>3, <2>4, ToSetByIndex
<1>7. r = <<>> <=> n = Len(s)
  BY <1>1, <1>2, EmptySeq
<1>8. ItemsAfter(s, n) = r /\ FirstItems(s, n) = first
  BY DEF r, ItemsAfter, FirstItems
<1> QED BY <1>2, <1>3, <1>4, <1>5, <1>6, <1>7, <1>8 DEF IsList

\* A list turned by one.
LEMMA AdvanceList ==
    ASSUME NEW S, NEW s, IsList(s, S), s # <<>>
    PROVE  /\ IsList(Advance(s), S)
           /\ ToSet(Advance(s)) = ToSet(s)
           /\ Len(Advance(s)) = Len(s)
           /\ Last(Advance(s)) = Head(s)
           /\ Advance(s) # <<>>
           /\ Len(s) > 1 => Head(Advance(s)) # Head(s)
<1>1. /\ s \in Seq(S) /\ NoRepeats(s) /\ Len(s) \in Nat \ {0}
      /\ Head(s) \in S /\ Head(s) = s[1]
  BY LenProperties, EmptySeq, HeadTailProperties DEF IsList
<1>2. /\ Tail(s) \in Seq(S) /\ Len(Tail(s)) = Len(s) - 1
      /\ \A j \in 1..Len(s) - 1 : Tail(s)[j] = s[j + 1]
  BY <1>1, HeadTailProperties
<1>3. Advance(s) = Append(Tail(s), Head(s))
  BY <1>1, <1>2, AppendIsConcat DEF Advance
<1>4. /\ IsList(Tail(s), S) /\ Head(s) \in ToSet(s)
      /\ ToSet(Tail(s)) = ToSet(s) \ {Head(s)}
  BY TailList
<1>5. IsList(Advance(s), S) /\ ToSet(Advance(s)) = ToSet(s)
  <2>1. Head(s) \notin ToSet(Tail(s))
    BY <1>4
  <2>2. /\ IsList(Append(Tail(s), Head(s)), S)
        /\ ToSet(Append(Tail(s), Head(s))) = ToSet(Tail(s)) \cup {Head(s)}
    BY <1>1, <1>4, <2>1, AppendList
  <2> QED BY <1>3, <1>4, <2>2
<1>6. /\ Len(Advance(s)) = Len(s) /\ Advance(s)[Len(s)] = Head(s)
      /\ \A j \in 1..Len(s) - 1 : Advance(s)[j] = s[j + 1]
  <2>1. /\ Len(Append(Tail(s), Head(s))) = Len(Tail(s)) + 1
        /\ Append(Tail(s), Head(s))[Len(Tail(s)) + 1] = Head(s)
        /\ \A j \in 1..Len(Tail(s)) : Append(Tail(s), Head(s))[j] = Tail(s)[j]
    BY <1>1, <1>2, AppendProperties
  <2> QED BY <1>1, <1>2, <1>3, <2>1
<1>7. Advance(s) \in Seq(S) /\ Advance(s) # <<>>
  BY <1>1, <1>2, <1>3, AppendProperties
<1>8. ASSUME Len(s) > 1 PROVE Head(Advance(s)) # Head(s)
  <2>1. Head(Advance(s)) = Advance(s)[1] /\ Advance(s)[1] = s[2]
    BY <1>1, <1>6, <1>7, <1>8
  <2> QED BY <1>1, <1>8, <2>1 DEF NoRepeats
<1> QED BY <1>1, <1>5, <1>6, <1>7, <1>8 DEF Last

\* The position is found among the items or at the end.
LEMMA InsertPositionType ==
    ASSUME NEW S, NEW s \in Seq(S), NEW v, NEW value
    PROVE  InsertPosition(s, v, value) \in 1..Len(s) + 1
<1>1. Len(s) \in Nat
  BY LenProperties
<1> DEFINE P == {i \in 1..Len(s) : value[s[i]] > v} \cup {Len(s) + 1}
<1>2. P \in SUBSET Nat /\ P # {} /\ P \subseteq 1..Len(s) + 1
  BY <1>1
<1> HIDE DEF P
<1>3. Min(P) \in P
  BY <1>2, MinOfNat
<1>4. InsertPosition(s, v, value) = Min(P)
  BY DEF InsertPosition, P
<1> QED BY <1>2, <1>3, <1>4

LEMMA vListInsertList ==
    ASSUME NEW S, NEW s, IsList(s, S), NEW x \in S, x \notin ToSet(s), NEW value
    PROVE  /\ IsList(vListInsert(s, x, value), S)
           /\ ToSet(vListInsert(s, x, value)) = ToSet(s) \cup {x}
<1>1. InsertPosition(s, value[x], value) \in 1..Len(s) + 1
  BY InsertPositionType DEF IsList
<1> QED BY <1>1, InsertAtList DEF vListInsert

-----------------------------------------------------------------------------
(***************************************************************************)
(* The removal of several items, and the order of sorted lists.            *)
(***************************************************************************)
\* The function that Without is defined by exists.
LEMMA WithoutUnfolds ==
    ASSUME NEW S, NEW s \in Seq(S), NEW T
    PROVE  \E kept :
              /\ kept = [i \in 0..Len(s) |->
                            IF i = 0 THEN <<>>
                            ELSE IF s[i] \in T THEN kept[i - 1]
                            ELSE Append(kept[i - 1], s[i])]
              /\ Without(s, T) = kept[Len(s)]
<1> DEFINE N == Len(s)
           Fits(f, n) == f = [i \in 0..n |->
                                 IF i = 0 THEN <<>>
                                 ELSE IF s[i] \in T THEN f[i - 1]
                                 ELSE Append(f[i - 1], s[i])]
           Bad == {n \in 0..N : ~ \E f : Fits(f, n)}
<1>1. N \in Nat
  BY LenProperties
<1>2. Bad = {}
  <2> SUFFICES ASSUME Bad # {} PROVE FALSE
    OBVIOUS
  <2> DEFINE n == Min(Bad)
  <2>1. Bad \in SUBSET Nat
    BY <1>1
  <2> HIDE DEF Bad
  <2>2. n \in Bad /\ \A y \in Bad : n <= y
    BY <2>1, MinOfNat
  <2> HIDE DEF n
  <2>3. n \in 0..N /\ ~ \E f : Fits(f, n)
    BY <2>2 DEF Bad
  <2>4. n # 0
    <3>1. Fits([i \in 0..0 |-> <<>>], 0)
      OBVIOUS
    <3> QED BY <2>3, <3>1
  <2>5. n - 1 \in 0..N /\ n - 1 \notin Bad
    BY <1>1, <2>2, <2>3, <2>4
  <2>6. PICK g : Fits(g, n - 1)
    BY <2>5 DEF Bad
  <2> DEFINE f == [i \in 0..n |->
                      IF i < n THEN g[i]
                      ELSE IF s[i] \in T THEN g[i - 1] ELSE Append(g[i - 1], s[i])]
  <2>7. \A i \in 0..n : f[i] = IF i = 0 THEN <<>>
                               ELSE IF s[i] \in T THEN f[i - 1]
                               ELSE Append(f[i - 1], s[i])
    <3> TAKE i \in 0..n
    <3>1. CASE i < n
      <4>1. i \in 0..n - 1 /\ (i # 0 => i - 1 \in 0..n - 1)
        BY <1>1, <2>3, <3>1
      <4>2. g[i] = IF i = 0 THEN <<>>
                   ELSE IF s[i] \in T THEN g[i - 1] ELSE Append(g[i - 1], s[i])
        BY <2>6, <4>1
      <4>3. f[i] = g[i] /\ (i # 0 => f[i - 1] = g[i - 1])
        BY <2>3, <3>1, <4>1
      <4> QED BY <4>2, <4>3
    <3>2. CASE i = n
      <4>1. i - 1 \in 0..n /\ i - 1 < n /\ i # 0 /\ ~ (i < n)
        BY <2>3, <2>4, <3>2
      <4>2. f[i - 1] = g[i - 1]
        BY <4>1
      <4>3. f[i] = IF s[i] \in T THEN g[i - 1] ELSE Append(g[i - 1], s[i])
        BY <4>1
      <4> QED BY <4>1, <4>2, <4>3
    <3> QED BY <2>3, <3>1, <3>2
  <2>8. DOMAIN f = 0..n
    OBVIOUS
  <2>9. Fits(f, n)
    <3>1. f = [i \in 0..n |-> f[i]]
      OBVIOUS
    <3> HIDE DEF f
    <3>2. [i \in 0..n |-> f[i]] = [i \in 0..n |-> IF i = 0 THEN <<>>
                               ELSE IF s[i] \in T THEN f[i - 1]
                               ELSE Append(f[i - 1], s[i])]
      BY <2>7, Zenon
    <3> QED BY <3>1, <3>2
  <2> QED BY <2>3, <2>9
<1>3. \E f : Fits(f, N)
  <2> HIDE DEF Fits
  <2>1. N \in 0..N
    BY <1>1
  <2> HIDE DEF N
  <2> QED BY <1>2, <2>1, Zenon
<1> DEFINE kept == CHOOSE f : Fits(f, N)
<1>4. Fits(kept, N)
  BY <1>3, Zenon
<1>5. Without(s, T) = kept[Len(s)]
  BY Zenon DEF Without
<1> HIDE DEF kept
<1> QED BY <1>4, <1>5, Zenon

\* The members of T are gone, and the others keep their order.
LEMMA WithoutElements ==
    ASSUME NEW S, NEW s \in Seq(S), NEW T
    PROVE  LET r == Without(s, T)
           IN  /\ r \in Seq(S)
               /\ \A x : x \in ToSet(r) <=> x \in ToSet(s) /\ x \notin T
               /\ \A a, b \in 1..Len(r) : a < b =>
                     \E j, k \in 1..Len(s) : j < k /\ r[a] = s[j] /\ r[b] = s[k]
<1> DEFINE N == Len(s)
<1>1. N \in Nat /\ \A i \in 1..N : s[i] \in S
  BY LenProperties, ElementOfSeq
<1>2. PICK kept :
         /\ kept = [i \in 0..N |->
                       IF i = 0 THEN <<>>
                       ELSE IF s[i] \in T THEN kept[i - 1]
                       ELSE Append(kept[i - 1], s[i])]
         /\ Without(s, T) = kept[N]
  BY WithoutUnfolds
<1>3. /\ kept[0] = <<>>
      /\ \A i \in 1..N : kept[i] = IF s[i] \in T THEN kept[i - 1]
                                   ELSE Append(kept[i - 1], s[i])
  <2>1. \A i \in 0..N : kept[i] = IF i = 0 THEN <<>>
                                  ELSE IF s[i] \in T THEN kept[i - 1]
                                  ELSE Append(kept[i - 1], s[i])
    BY <1>2, Zenon
  <2>2. 0 \in 0..N /\ \A i \in 1..N : i \in 0..N /\ i # 0
    BY <1>1
  <2> QED BY <2>1, <2>2, Zenon
<1> DEFINE Fine(r, n) ==
              /\ r \in Seq(S)
              /\ \A a \in 1..Len(r) : \E j \in 1..n : r[a] = s[j] /\ s[j] \notin T
              /\ \A j \in 1..n : s[j] \notin T => \E a \in 1..Len(r) : r[a] = s[j]
              /\ \A a, b \in 1..Len(r) : a < b =>
                    \E j, k \in 1..n : j < k /\ r[a] = s[j] /\ r[b] = s[k]
           Bad == {n \in 0..N : ~ Fine(kept[n], n)}
<1>4. Fine(kept[0], 0)
  BY <1>3
<1>5. ASSUME NEW n \in 1..N, Fine(kept[n - 1], n - 1)
      PROVE  Fine(kept[n], n)
  <2>1. n \in Nat /\ n - 1 \in Nat /\ 1..n - 1 \subseteq 1..n /\ n \in 1..n
    BY <1>1
  <2>2. CASE s[n] \in T
    <3>1. kept[n] = kept[n - 1]
      BY <1>3, <2>2
    <3>2. \A j \in 1..n : s[j] \notin T => j \in 1..n - 1
      BY <2>1, <2>2
    <3> QED BY <1>5, <2>1, <3>1, <3>2
  <2>3. CASE s[n] \notin T
    <3> DEFINE q == kept[n - 1]
               r == kept[n]
    <3>1. r = Append(q, s[n])
      BY <1>3, <2>3
    <3>2. q \in Seq(S) /\ s[n] \in S /\ Len(q) \in Nat
      BY <1>1, <1>5, LenProperties
    <3> HIDE DEF q, r
    <3>3. /\ r \in Seq(S) /\ Len(r) = Len(q) + 1
          /\ \A a \in 1..Len(q) : r[a] = q[a]
          /\ r[Len(q) + 1] = s[n]
      BY <3>1, <3>2, AppendProperties
    <3>4. Fine(q, n - 1)
      BY <1>5 DEF q
    <3>5. ASSUME NEW a \in 1..Len(r)
          PROVE  \E j \in 1..n : r[a] = s[j] /\ s[j] \notin T
      <4>1. CASE a \in 1..Len(q)
        <5>1. PICK j \in 1..n - 1 : q[a] = s[j] /\ s[j] \notin T
          BY <3>4, <4>1
        <5> QED BY <2>1, <3>3, <4>1, <5>1
      <4>2. CASE a = Len(q) + 1
        BY <2>1, <2>3, <3>3, <4>2
      <4> QED BY <3>2, <3>3, <4>1, <4>2
    <3>6. ASSUME NEW j \in 1..n, s[j] \notin T
          PROVE  \E a \in 1..Len(r) : r[a] = s[j]
      <4>1. CASE j \in 1..n - 1
        <5>1. PICK a \in 1..Len(q) : q[a] = s[j]
          BY <3>4, <3>6, <4>1
        <5> QED BY <3>2, <3>3, <5>1
      <4>2. CASE j = n
        BY <3>2, <3>3, <4>2
      <4> QED BY <2>1, <4>1, <4>2
    <3>7. ASSUME NEW a \in 1..Len(r), NEW b \in 1..Len(r), a < b
          PROVE  \E j, k \in 1..n : j < k /\ r[a] = s[j] /\ r[b] = s[k]
      <4>1. a \in 1..Len(q)
        BY <3>2, <3>3, <3>7
      <4>2. CASE b \in 1..Len(q)
        <5>1. PICK j \in 1..n - 1, k \in 1..n - 1 :
                 j < k /\ q[a] = s[j] /\ q[b] = s[k]
          BY <3>4, <3>7, <4>1, <4>2
        <5> QED BY <2>1, <3>3, <4>1, <4>2, <5>1
      <4>3. CASE b = Len(q) + 1
        <5>1. PICK j \in 1..n - 1 : q[a] = s[j]
          BY <3>4, <4>1
        <5>2. j < n /\ j \in 1..n
          BY <2>1
        <5> QED BY <2>1, <3>3, <4>1, <4>3, <5>1, <5>2
      <4> QED BY <3>2, <3>3, <4>2, <4>3
    <3> QED BY <3>3, <3>5, <3>6, <3>7 DEF r
  <2> QED BY <2>2, <2>3
<1> HIDE DEF Fine
<1>6. Bad = {}
  <2> SUFFICES ASSUME Bad # {} PROVE FALSE
    OBVIOUS
  <2>1. Bad \in SUBSET Nat
    BY <1>1
  <2>2. PICK n \in Bad : \A m \in Bad : n <= m
    <3> HIDE DEF Bad
    <3> QED BY <2>1, MinOfNat
  <2>3. n \in 1..N
    BY <1>1, <1>4, <2>2
  <2>4. n - 1 \in 0..N /\ ~ (n <= n - 1)
    BY <1>1, <2>3
  <2>5. Fine(kept[n - 1], n - 1)
    BY <2>2, <2>4
  <2> QED BY <1>5, <2>2, <2>3, <2>5
<1>7. Fine(Without(s, T), N)
  <2>1. N \in 0..N
    BY <1>1
  <2> QED BY <1>2, <1>6, <2>1
<1> DEFINE r == Without(s, T)
<1>8. Fine(r, N)
  BY <1>7
<1> HIDE DEF r
<1>9. ASSUME NEW x PROVE x \in ToSet(r) <=> x \in ToSet(s) /\ x \notin T
  <2>1. /\ x \in ToSet(r) <=> \E a \in 1..Len(r) : r[a] = x
        /\ x \in ToSet(s) <=> \E j \in 1..Len(s) : s[j] = x
    BY <1>8, ToSetByIndex DEF Fine
  <2> QED BY <1>8, <2>1 DEF Fine
<1> QED BY <1>8, <1>9 DEF Fine, r

LEMMA WithoutList ==
    ASSUME NEW S, NEW s, IsList(s, S), NEW T
    PROVE  /\ IsList(Without(s, T), S)
           /\ ToSet(Without(s, T)) = ToSet(s) \ T
           /\ \A value : Sorted(s, value) => Sorted(Without(s, T), value)
<1> DEFINE r == Without(s, T)
<1>1. s \in Seq(S) /\ NoRepeats(s) /\ Len(s) \in Nat
  BY LenProperties DEF IsList
<1>2. /\ r \in Seq(S)
      /\ \A x : x \in ToSet(r) <=> x \in ToSet(s) /\ x \notin T
      /\ \A a, b \in 1..Len(r) : a < b =>
            \E j, k \in 1..Len(s) : j < k /\ r[a] = s[j] /\ r[b] = s[k]
  BY <1>1, WithoutElements
<1> HIDE DEF r
<1>3. Len(r) \in Nat
  BY <1>2, LenProperties
<1>4. \A a, b \in 1..Len(r) : a < b => r[a] # r[b]
  BY <1>1, <1>2 DEF NoRepeats
<1>5. NoRepeats(r)
  BY <1>3, <1>4 DEF NoRepeats
<1>6. ASSUME NEW value, Sorted(s, value) PROVE Sorted(r, value)
  BY <1>2, <1>6 DEF Sorted
<1> QED BY <1>2, <1>5, <1>6 DEF r, IsList

\* Sorted insertion keeps a list sorted.
LEMMA vListInsertSorted ==
    ASSUME NEW S, NEW s, IsList(s, S), NEW x \in S,
           NEW value, \A y \in S : value[y] \in Int, Sorted(s, value)
    PROVE  Sorted(vListInsert(s, x, value), value)
<1> DEFINE v == value[x]
           P == {i \in 1..Len(s) : value[s[i]] > v} \cup {Len(s) + 1}
           p == Min(P)
<1>1. s \in Seq(S) /\ Len(s) \in Nat /\ \A i \in 1..Len(s) : s[i] \in S
  BY LenProperties, ElementOfSeq DEF IsList
<1>2. P \in SUBSET Nat /\ P # {} /\ P \subseteq 1..Len(s) + 1
  BY <1>1
<1> HIDE DEF P
<1>3. p \in P /\ \A q \in P : p <= q
  BY <1>2, MinOfNat
<1> HIDE DEF p
<1>4. p \in 1..Len(s) + 1
  BY <1>2, <1>3
<1> DEFINE r == InsertAt(s, p, x)
<1>5. /\ r \in Seq(S) /\ Len(r) = Len(s) + 1
      /\ r[p] = x
      /\ \A j \in 1..p - 1 : r[j] = s[j]
      /\ \A j \in p + 1..Len(s) + 1 : r[j] = s[j - 1]
  <2>1. /\ InsertAt(s, p, x) \in Seq(S)
        /\ Len(InsertAt(s, p, x)) = Len(s) + 1
        /\ InsertAt(s, p, x)[p] = x
        /\ \A j \in 1..p - 1 : InsertAt(s, p, x)[j] = s[j]
        /\ \A j \in p + 1..Len(s) + 1 : InsertAt(s, p, x)[j] = s[j - 1]
    BY <1>1, <1>4, InsertAtElements, SMTT(30)
  <2> QED BY <2>1, Zenon
<1>6. vListInsert(s, x, value) = r
  BY DEF vListInsert, InsertPosition, p, P, v
<1> HIDE DEF r
<1>7. ASSUME NEW j \in 1..p - 1 PROVE j \in 1..Len(s) /\ value[s[j]] <= v
  <2>1. j \in 1..Len(s) /\ j \notin P
    BY <1>1, <1>3, <1>4
  <2> QED BY <1>1, <2>1 DEF P, v
<1>8. ASSUME NEW j \in p..Len(s) PROVE j \in 1..Len(s) /\ v <= value[s[j]]
  <2>1. j \in 1..Len(s) /\ p \in 1..Len(s)
    BY <1>1, <1>4
  <2>2. value[s[p]] > v
    BY <1>1, <1>3, <2>1 DEF P
  <2>3. value[s[p]] <= value[s[j]]
    BY <1>1, <2>1 DEF Sorted
  <2> QED BY <1>1, <2>1, <2>2, <2>3
<1>9. ASSUME NEW j \in 1..Len(r), NEW k \in 1..Len(r), j < k
      PROVE  value[r[j]] <= value[r[k]]
  <2>1. CASE k < p
    BY <1>1, <1>4, <1>5, <1>9, <2>1 DEF Sorted
  <2>2. CASE k = p
    <3>1. j \in 1..p - 1
      BY <1>4, <1>9, <2>2
    <3> QED BY <1>5, <1>7, <2>2, <3>1 DEF v
  <2>3. CASE j = p
    <3>1. k - 1 \in p..Len(s) /\ r[k] = s[k - 1]
      BY <1>1, <1>4, <1>5, <1>9, <2>3
    <3> QED BY <1>5, <1>8, <2>3, <3>1 DEF v
  <2>4. CASE j < p /\ k > p
    <3>1. /\ j \in 1..Len(s) /\ r[j] = s[j] /\ k - 1 \in 1..Len(s)
          /\ r[k] = s[k - 1] /\ j < k - 1
      BY <1>1, <1>4, <1>5, <1>9, <2>4
    <3> QED BY <3>1 DEF Sorted
  <2>5. CASE j > p
    <3>1. /\ j - 1 \in 1..Len(s) /\ r[j] = s[j - 1] /\ k - 1 \in 1..Len(s)
          /\ r[k] = s[k - 1] /\ j - 1 < k - 1
      BY <1>1, <1>4, <1>5, <1>9, <2>5
    <3> QED BY <3>1 DEF Sorted
  <2> QED BY <1>4, <1>9, <2>1, <2>2, <2>3, <2>4, <2>5
<1> QED BY <1>6, <1>9 DEF Sorted

\* A list sorted by one value is sorted by another that agrees on its items.
LEMMA SameSorted ==
    ASSUME NEW S, NEW s \in Seq(S), NEW value, NEW new, Sorted(s, value),
           \A x \in ToSet(s) : new[x] = value[x]
    PROVE  Sorted(s, new)
<1>1. \A i \in 1..Len(s) : s[i] \in ToSet(s)
  BY ToSetByIndex
<1> QED BY <1>1 DEF Sorted

LEMMA RemoveFirstSorted ==
    ASSUME NEW S, NEW s \in Seq(S), NEW x, NEW value, Sorted(s, value)
    PROVE  Sorted(RemoveFirst(s, x), value)
<1>1. CASE RemoveFirst(s, x) = s
  BY <1>1
<1>2. ASSUME NEW i \in 1..Len(s), RemoveFirst(s, x) = RemoveAt(s, i)
      PROVE  Sorted(RemoveFirst(s, x), value)
  <2> DEFINE r == RemoveAt(s, i)
  <2>1. /\ Len(r) = Len(s) - 1 /\ Len(s) \in Nat
        /\ \A j \in 1..Len(s) - 1 : r[j] = IF j < i THEN s[j] ELSE s[j + 1]
    BY RemoveAtElements, LenProperties
  <2> HIDE DEF r
  <2>2. ASSUME NEW j \in 1..Len(r), NEW k \in 1..Len(r), j < k
        PROVE  value[r[j]] <= value[r[k]]
    <3>1. PICK a \in 1..Len(s), b \in 1..Len(s) :
             a < b /\ r[j] = s[a] /\ r[k] = s[b]
      <4>1. CASE k < i
        BY <2>1, <2>2, <4>1
      <4>2. CASE j < i /\ ~ (k < i)
        <5>1. /\ j \in 1..Len(s) /\ k + 1 \in 1..Len(s) /\ j < k + 1
              /\ r[j] = s[j] /\ r[k] = s[k + 1]
          BY <2>1, <2>2, <4>2
        <5> QED BY <5>1
      <4>3. CASE ~ (j < i)
        <5>1. /\ j + 1 \in 1..Len(s) /\ k + 1 \in 1..Len(s) /\ j + 1 < k + 1
              /\ r[j] = s[j + 1] /\ r[k] = s[k + 1]
          BY <2>1, <2>2, <4>3
        <5> QED BY <5>1
      <4> QED BY <4>1, <4>2, <4>3
    <3> QED BY <3>1 DEF Sorted
  <2> QED BY <1>2, <2>2 DEF Sorted, r
<1> QED BY <1>1, <1>2, RemoveFirstCases

LEMMA TailSorted ==
    ASSUME NEW S, NEW s \in Seq(S), s # <<>>, NEW value, Sorted(s, value)
    PROVE  Sorted(Tail(s), value)
<1> DEFINE r == Tail(s)
<1>1. /\ r \in Seq(S) /\ Len(r) = Len(s) - 1 /\ Len(s) \in Nat
      /\ \A j \in 1..Len(s) - 1 : r[j] = s[j + 1]
  BY HeadTailProperties, LenProperties
<1> HIDE DEF r
<1>2. ASSUME NEW j \in 1..Len(r), NEW k \in 1..Len(r), j < k
      PROVE  value[r[j]] <= value[r[k]]
  <2>1. /\ j + 1 \in 1..Len(s) /\ k + 1 \in 1..Len(s) /\ j + 1 < k + 1
        /\ r[j] = s[j + 1] /\ r[k] = s[k + 1]
    BY <1>1, <1>2
  <2> QED BY <2>1 DEF Sorted
<1> QED BY <1>2 DEF Sorted, r

\* The head of a sorted list has the least value.
LEMMA HeadIsLeast ==
    ASSUME NEW S, NEW s \in Seq(S), s # <<>>, NEW value, Sorted(s, value),
           \A x \in S : value[x] \in Int
    PROVE  \A x \in ToSet(s) : value[Head(s)] <= value[x]
<1>1. Head(s) = s[1] /\ Len(s) \in Nat \ {0} /\ 1 \in 1..Len(s)
  BY HeadTailProperties, LenProperties, EmptySeq
<1>2. ASSUME NEW x \in ToSet(s) PROVE value[Head(s)] <= value[x]
  <2>1. PICK i \in 1..Len(s) : s[i] = x
    BY ToSetByIndex
  <2>2. x \in S
    BY ToSetByIndex
  <2>3. CASE i = 1
    BY <1>1, <2>1, <2>2, <2>3
  <2>4. CASE 1 < i
    BY <1>1, <2>1, <2>4 DEF Sorted
  <2> QED BY <1>1, <2>3, <2>4
<1> QED BY <1>2

-----------------------------------------------------------------------------
(***************************************************************************)
(* Rings: lists with the marker among their nodes.                         *)
(***************************************************************************)
LEMMA EmptyRing ==
    ASSUME NEW S
    PROVE  IsRing(vListInitialise, S) /\ ItemsOf(vListInitialise) = {}
<1>1. vListInitialise \in Seq(S \cup {ListEnd})
  BY DEF vListInitialise
<1>2. NoRepeats(vListInitialise)
  BY DEF vListInitialise, NoRepeats
<1>3. ToSet(vListInitialise) = {ListEnd}
  BY DEF vListInitialise, ToSet
<1> QED BY <1>1, <1>2, <1>3 DEF IsRing, IsList, ItemsOf

LEMMA RingItems ==
    ASSUME NEW S, ListEnd \notin S, NEW ring, IsRing(ring, S)
    PROVE  /\ ItemsOf(ring) \subseteq S
           /\ \A x \in S : x \in ItemsOf(ring) <=> x \in ToSet(ring)
           /\ Len(ring) \in Nat \ {0}
           /\ listLIST_IS_EMPTY(ring) <=> ItemsOf(ring) = {}
<1>1. ring \in Seq(S \cup {ListEnd}) /\ NoRepeats(ring) /\ ListEnd \in ToSet(ring)
  BY DEF IsRing, IsList
<1>2. ToSet(ring) \subseteq S \cup {ListEnd}
  BY <1>1, ToSetByIndex
<1>3. Len(ring) \in Nat
  BY <1>1, LenProperties
<1>4. PICK e \in 1..Len(ring) : ring[e] = ListEnd
  BY <1>1, ToSetByIndex
<1>5. ASSUME Len(ring) = 1 PROVE ItemsOf(ring) = {}
  <2>1. \A i \in 1..Len(ring) : ring[i] = ListEnd
    BY <1>4, <1>5
  <2> QED BY <1>1, <2>1, ToSetByIndex DEF ItemsOf
<1>6. ASSUME Len(ring) # 1 PROVE ItemsOf(ring) # {}
  <2>1. PICK i \in 1..Len(ring) : i # e
    <3>1. 1 \in 1..Len(ring) /\ 2 \in 1..Len(ring)
      BY <1>3, <1>4, <1>6
    <3> QED BY <3>1
  <2>2. ring[i] # ListEnd
    BY <1>1, <1>4, <2>1 DEF NoRepeats
  <2>3. ring[i] \in ToSet(ring)
    BY <1>1, ToSetByIndex
  <2> QED BY <2>2, <2>3 DEF ItemsOf
<1>7. listLIST_IS_EMPTY(ring) <=> Len(ring) = 1
  BY <1>3 DEF listLIST_IS_EMPTY, listCURRENT_LIST_LENGTH
<1> QED BY <1>2, <1>3, <1>4, <1>5, <1>6, <1>7 DEF ItemsOf

LEMMA InsertEndRing ==
    ASSUME NEW S, ListEnd \notin S, NEW ring, IsRing(ring, S),
           NEW x \in S, x \notin ItemsOf(ring)
    PROVE  /\ IsRing(vListInsertEnd(ring, x), S)
           /\ ItemsOf(vListInsertEnd(ring, x)) = ItemsOf(ring) \cup {x}
<1>1. Len(ring) \in 1..Len(ring) + 1 /\ x \notin ToSet(ring) /\ x # ListEnd
  BY RingItems
<1>2. /\ IsList(vListInsertEnd(ring, x), S \cup {ListEnd})
      /\ ToSet(vListInsertEnd(ring, x)) = ToSet(ring) \cup {x}
  BY <1>1, InsertAtList DEF IsRing, vListInsertEnd
<1> QED BY <1>1, <1>2 DEF IsRing, ItemsOf

LEMMA RemoveRing ==
    ASSUME NEW S, ListEnd \notin S, NEW ring, IsRing(ring, S), NEW x \in S
    PROVE  /\ IsRing(uxListRemove(ring, x), S)
           /\ ItemsOf(uxListRemove(ring, x)) = ItemsOf(ring) \ {x}
<1>1. /\ IsList(uxListRemove(ring, x), S \cup {ListEnd})
      /\ ToSet(uxListRemove(ring, x)) = ToSet(ring) \ {x}
  BY RemoveFirstList DEF IsRing, uxListRemove
<1> QED BY <1>1 DEF IsRing, ItemsOf

\* The walk of a ring with items ends at one of them and loses none.
LEMMA NextEntryRing ==
    ASSUME NEW S, ListEnd \notin S, NEW ring, IsRing(ring, S),
           ItemsOf(ring) # {}
    PROVE  LET next == listGET_OWNER_OF_NEXT_ENTRY(ring)
           IN  /\ IsRing(next, S)
               /\ ItemsOf(next) = ItemsOf(ring)
               /\ Index(next) \in ItemsOf(ring)
<1> DEFINE N == S \cup {ListEnd}
           once == Advance(ring)
           twice == Advance(once)
<1>1. IsList(ring, N) /\ ring # <<>> /\ Len(ring) > 1
  <2>1. Len(ring) \in Nat \ {0} /\ Len(ring) # 1
    BY RingItems DEF listLIST_IS_EMPTY, listCURRENT_LIST_LENGTH
  <2>2. ring \in Seq(N) /\ IsList(ring, N)
    BY DEF IsRing, IsList
  <2>3. ring # <<>>
    BY <2>1, <2>2, EmptySeq
  <2>4. Len(ring) > 1
    BY <2>1
  <2> QED BY <2>2, <2>3, <2>4
<1>2. /\ IsList(once, N) /\ ToSet(once) = ToSet(ring) /\ once # <<>>
      /\ Last(once) = Head(ring) /\ Head(once) # Head(ring)
  BY <1>1, AdvanceList
<1>3. /\ IsList(twice, N) /\ ToSet(twice) = ToSet(once)
      /\ Last(twice) = Head(once)
  BY <1>2, AdvanceList
<1>4. Head(ring) \in ToSet(ring) /\ Head(once) \in ToSet(ring)
  BY <1>1, <1>2, TailList
<1> HIDE DEF N, once, twice
<1>5. CASE Head(ring) = ListEnd
  <2>1. listGET_OWNER_OF_NEXT_ENTRY(ring) = twice
    BY <1>5 DEF listGET_OWNER_OF_NEXT_ENTRY, once, twice
  <2> QED BY <1>2, <1>3, <1>4, <1>5, <2>1 DEF IsRing, ItemsOf, Index, N
<1>6. CASE Head(ring) # ListEnd
  <2>1. listGET_OWNER_OF_NEXT_ENTRY(ring) = once
    BY <1>6 DEF listGET_OWNER_OF_NEXT_ENTRY, once
  <2> QED BY <1>2, <1>4, <1>6, <2>1 DEF IsRing, ItemsOf, Index, N
<1> QED BY <1>5, <1>6
=============================================================================
