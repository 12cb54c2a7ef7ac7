--------------------------- MODULE HeapTimersProofs ---------------------------
(***************************************************************************)
(* The heap of MCParts, for every size of it, of its blocks' structure, of *)
(* the alignment and of the requests; and its timers, for any of them, any *)
(* width of the tick count and any lag of the daemon that it can stand.    *)
(***************************************************************************)
EXTENDS MCParts, SequenceLemmas, FiniteSetTheorems

Address == Allocating!Address
pxEnd == Allocating!pxEnd
Aligned(n) == n % portBYTE_ALIGNMENT = 0

\* The bytes of a block, and of a set of blocks.
Bytes(sizes, a) == a..a + sizes[a] - 1
Covered(sizes, blocks) == UNION {Bytes(sizes, a) : a \in blocks}

\* The blocks have bytes, and every byte before the end is in one of them.
Tiling(sizes, blocks) ==
    /\ \A a \in blocks : /\ sizes[a] > 0 /\ Aligned(sizes[a])
                         /\ a + sizes[a] <= pxEnd
    /\ \A a, c \in blocks : a < c => a + sizes[a] <= c
    /\ \A x \in 0..pxEnd - 1 : \E a \in blocks : x \in Bytes(sizes, a)

\* The list of free blocks is in order of address.
InOrder(list) ==
    /\ list \in Seq(Address)
    /\ \A i, j \in 1..Len(list) : i < j => list[i] < list[j]

HeapOK(list, sizes, taken) ==
    /\ sizes \in [Address -> Nat]
    /\ taken \in SUBSET Address
    /\ InOrder(list)
    /\ taken \cap ToSet(list) = {}
    /\ Tiling(sizes, taken \cup ToSet(list))

\* The i-th free block ends where the next one begins.
Touching(list, sizes, i) ==
    i \in 1..Len(list) - 1 /\ list[i] + sizes[list[i]] = list[i + 1]

\* No two free blocks touch, and the count is that of the free bytes.
HeapInv ==
    /\ HeapOK(free, xBlockSize, allocated)
    /\ \A i \in Int : ~ Touching(free, xBlockSize, i)
    /\ xFreeBytesRemaining = Cardinality(Covered(xBlockSize, ToSet(free)))

-----------------------------------------------------------------------------
(***************************************************************************)
(* Alignment.                                                              *)
(***************************************************************************)
LEMMA MultipleIsAligned ==
    ASSUME NEW T \in Nat \ {0}, NEW k \in Int
    PROVE  (T * k) % T = 0
<1> DEFINE a == T * k
<1>1. a \in Int /\ a = T * k + 0 /\ 0 \in 0..T - 1
  OBVIOUS
<1> HIDE DEF a
<1>2. a % T = 0
  BY <1>1, RemainderIs
<1> QED BY <1>2 DEF a

LEMMA AlignedSum ==
    ASSUME NEW a \in Int, NEW b \in Int, Aligned(a), Aligned(b)
    PROVE  Aligned(a + b) /\ Aligned(a - b)
<1> DEFINE T == portBYTE_ALIGNMENT
<1>0. T \in Nat \ {0}
  BY HeapAssumption
<1>1. PICK j, k : j = a \div T /\ k = b \div T
  OBVIOUS
<1>2. j \in Int /\ k \in Int /\ a = T * j + (a % T) /\ b = T * k + (b % T)
  BY <1>0, <1>1, Divided
<1> HIDE DEF T
<1>3. a = T * j /\ b = T * k
  BY <1>0, <1>2 DEF Aligned, T
<1>4. a + b = T * (j + k) /\ a - b = T * (j - k) /\ j + k \in Int /\ j - k \in Int
  BY <1>0, <1>2, <1>3
<1> QED BY <1>0, <1>4, MultipleIsAligned DEF Aligned, T

\* The module's operators are those of the library.
LEMMA HeapOperators ==
    /\ \A s, i : Allocating!RemoveAt(s, i) = RemoveAt(s, i)
    /\ \A s, i, x : Allocating!InsertAt(s, i, x) = InsertAt(s, i, x)
    /\ \A S : Allocating!Min(S) = Min(S)
    /\ \A S : Allocating!Cardinality(S) = Cardinality(S)
BY DEF Allocating!RemoveAt, RemoveAt, Allocating!InsertAt, InsertAt, Allocating!Min,
       Min, Allocating!Cardinality, Cardinality

LEMMA HeapConstants ==
    /\ portBYTE_ALIGNMENT \in Nat \ {0} /\ pxEnd \in Nat \ {0} /\ Aligned(pxEnd)
    /\ heapSTRUCT_SIZE \in Nat \ {0} /\ Aligned(heapSTRUCT_SIZE)
    /\ WantedSizes \subseteq Nat
    /\ Address = {a \in 0..pxEnd - 1 : Aligned(a)}
    /\ 0 \in Address
<1>1. pxEnd = xTotalHeapSize - heapSTRUCT_SIZE
  BY DEF pxEnd, Allocating!pxEnd
<1>2. Aligned(pxEnd)
  <2>1. /\ xTotalHeapSize \in Int /\ heapSTRUCT_SIZE \in Int
        /\ Aligned(xTotalHeapSize) /\ Aligned(heapSTRUCT_SIZE)
    BY HeapAssumption DEF Aligned
  <2>2. Aligned(xTotalHeapSize - heapSTRUCT_SIZE)
    BY <2>1, AlignedSum
  <2> QED BY <1>1, <2>2
<1>3. Aligned(0)
  <2>1. heapSTRUCT_SIZE - heapSTRUCT_SIZE = 0
    BY HeapAssumption
  <2> QED BY <2>1, AlignedSum, HeapAssumption DEF Aligned
<1> QED BY <1>1, <1>2, <1>3, HeapAssumption
        DEF Address, Allocating!Address, pxEnd, Aligned

-----------------------------------------------------------------------------
(***************************************************************************)
(* Two blocks made one.                                                    *)
(***************************************************************************)
LEMMA MergedTiles ==
    ASSUME NEW sizes \in [Address -> Nat], NEW blocks \in SUBSET Address,
           Tiling(sizes, blocks),
           NEW a \in blocks, NEW c \in blocks, a + sizes[a] = c,
           NEW merged, merged = Allocating!Merged(sizes, a, c)
    PROVE  /\ merged \in [Address -> Nat]
           /\ Tiling(merged, blocks \ {c})
           /\ \A b \in blocks \ {a, c} : merged[b] = sizes[b]
           /\ merged[a] = sizes[a] + sizes[c] /\ a < c
           /\ \A some \in SUBSET blocks : a \in some /\ c \in some =>
                 Covered(merged, some \ {c}) = Covered(sizes, some)
<1>0. Address \subseteq Nat /\ pxEnd \in Nat
  BY HeapConstants
<1>1. /\ merged \in [Address -> Nat] /\ a < c
      /\ merged[a] = sizes[a] + sizes[c]
      /\ \A b \in blocks \ {a, c} : merged[b] = sizes[b]
  BY <1>0 DEF Allocating!Merged, Tiling
<1>2. Bytes(merged, a) = Bytes(sizes, a) \cup Bytes(sizes, c)
  BY <1>0, <1>1 DEF Bytes
<1>3. \A b \in blocks \ {a, c} : Bytes(merged, b) = Bytes(sizes, b)
  BY <1>1 DEF Bytes
<1>4. Tiling(merged, blocks \ {c})
  <2>1. \A b \in blocks \ {c} : /\ merged[b] > 0 /\ Aligned(merged[b])
                                /\ b + merged[b] <= pxEnd
    <3>1. Aligned(sizes[a] + sizes[c])
      BY AlignedSum DEF Tiling
    <3>2. a + merged[a] = c + sizes[c]
      BY <1>0, <1>1
    <3> QED BY <1>0, <1>1, <3>1, <3>2 DEF Tiling
  <2>2. ASSUME NEW b \in blocks \ {c}, NEW d \in blocks \ {c}, b < d
        PROVE  b + merged[b] <= d
    <3>1. CASE b # a
      BY <1>1, <2>2, <3>1 DEF Tiling
    <3>2. CASE b = a
      <4>1. a + sizes[a] <= d /\ d # c
        BY <2>2, <3>2 DEF Tiling
      <4>2. c < d
        BY <1>0, <4>1
      <4>3. c + sizes[c] <= d
        BY <4>2 DEF Tiling
      <4> QED BY <1>0, <1>1, <3>2, <4>3
    <3> QED BY <3>1, <3>2
  <2>3. ASSUME NEW x \in 0..pxEnd - 1
        PROVE  \E b \in blocks \ {c} : x \in Bytes(merged, b)
    <3>1. PICK b \in blocks : x \in Bytes(sizes, b)
      BY DEF Tiling
    <3>2. CASE b \in {a, c}
      <4>1. a \in blocks \ {c} /\ x \in Bytes(merged, a)
        BY <1>0, <1>1, <1>2, <3>1, <3>2
      <4> QED BY <4>1
    <3>3. CASE b \notin {a, c}
      BY <1>3, <3>1, <3>3
    <3> QED BY <3>2, <3>3
  <2> QED BY <2>1, <2>2, <2>3 DEF Tiling
<1>5. ASSUME NEW some \in SUBSET blocks, a \in some, c \in some
      PROVE  Covered(merged, some \ {c}) = Covered(sizes, some)
  <2>1. ASSUME NEW x \in Covered(merged, some \ {c}) PROVE x \in Covered(sizes, some)
    <3>1. PICK b \in some \ {c} : x \in Bytes(merged, b)
      BY <2>1 DEF Covered
    <3> QED BY <1>2, <1>3, <1>5, <3>1 DEF Covered
  <2>2. ASSUME NEW x \in Covered(sizes, some) PROVE x \in Covered(merged, some \ {c})
    <3>1. PICK b \in some : x \in Bytes(sizes, b)
      BY <2>2 DEF Covered
    <3>2. \E d \in some \ {c} : x \in Bytes(merged, d)
      <4>1. CASE b \in {a, c}
        <5>1. a \in some \ {c} /\ x \in Bytes(merged, a)
          BY <1>0, <1>1, <1>2, <1>5, <3>1, <4>1
        <5> QED BY <5>1
      <4>2. CASE b \notin {a, c}
        BY <1>3, <3>1, <4>2
      <4> QED BY <4>1, <4>2
    <3> QED BY <3>2 DEF Covered
  <2> QED BY <2>1, <2>2
<1> QED BY <1>1, <1>4, <1>5

-----------------------------------------------------------------------------
(***************************************************************************)
(* The list, with two blocks of it made one.                               *)
(***************************************************************************)
LEMMA OrderTyped ==
    ASSUME NEW list, InOrder(list)
    PROVE  /\ list \in Seq(Address) /\ Len(list) \in Nat
           /\ \A i \in 1..Len(list) : list[i] \in Address /\ list[i] \in ToSet(list)
           /\ \A x : x \in ToSet(list) <=> \E i \in 1..Len(list) : list[i] = x
           /\ ToSet(list) \in SUBSET Address
           /\ \A i, j \in 1..Len(list) : list[i] = list[j] => i = j
<1>1. list \in Seq(Address) /\ Len(list) \in Nat
  BY LenProperties DEF InOrder
<1>2. \A i \in 1..Len(list) : list[i] \in Address
  BY <1>1, ElementOfSeq
<1>3. ASSUME NEW i \in 1..Len(list), NEW j \in 1..Len(list), list[i] = list[j]
      PROVE  i = j
  <2>1. list[i] \in Nat /\ ~ (i < j) /\ ~ (j < i)
    BY <1>2, <1>3, HeapConstants DEF InOrder
  <2> QED BY <1>1, <2>1
<1> QED BY <1>1, <1>2, <1>3, ToSetByIndex

LEMMA RemovedOrder ==
    ASSUME NEW list, InOrder(list), NEW i \in 1..Len(list)
    PROVE  /\ InOrder(RemoveAt(list, i))
           /\ Len(RemoveAt(list, i)) = Len(list) - 1
           /\ ToSet(RemoveAt(list, i)) = ToSet(list) \ {list[i]}
           /\ \A j \in 1..Len(list) - 1 :
                 RemoveAt(list, i)[j] = IF j < i THEN list[j] ELSE list[j + 1]
<1> DEFINE r == RemoveAt(list, i)
<1>1. /\ list \in Seq(Address) /\ Len(list) \in Nat
      /\ \A x : x \in ToSet(list) <=> \E j \in 1..Len(list) : list[j] = x
      /\ \A j, k \in 1..Len(list) : list[j] = list[k] => j = k
  BY OrderTyped
<1>2. /\ r \in Seq(Address) /\ Len(r) = Len(list) - 1
      /\ \A j \in 1..Len(list) - 1 : r[j] = IF j < i THEN list[j] ELSE list[j + 1]
  BY <1>1, RemoveAtElements
<1> HIDE DEF r
<1>3. InOrder(r)
  <2>1. ASSUME NEW j \in 1..Len(r), NEW k \in 1..Len(r), j < k PROVE r[j] < r[k]
    <3>1. PICK x \in 1..Len(list), y \in 1..Len(list) :
             x < y /\ r[j] = list[x] /\ r[k] = list[y]
      <4> DEFINE x == IF j < i THEN j ELSE j + 1
                 y == IF k < i THEN k ELSE k + 1
      <4>1. x \in 1..Len(list) /\ y \in 1..Len(list) /\ x < y
        BY <1>1, <1>2, <2>1
      <4>2. r[j] = list[x] /\ r[k] = list[y]
        BY <1>1, <1>2, <2>1
      <4> QED BY <4>1, <4>2
    <3> QED BY <3>1 DEF InOrder
  <2> QED BY <1>2, <2>1 DEF InOrder
<1>4. \A x : x \in ToSet(r) <=> \E j \in 1..Len(r) : r[j] = x
  BY <1>2, ToSetByIndex
<1>5. ASSUME NEW x \in ToSet(r) PROVE x \in ToSet(list) \ {list[i]}
  <2>1. PICK j \in 1..Len(r) : r[j] = x
    BY <1>4, <1>5
  <2>2. CASE j < i
    BY <1>1, <1>2, <2>1, <2>2
  <2>3. CASE j >= i
    <3>1. j + 1 \in 1..Len(list) /\ list[j + 1] = x /\ j + 1 # i
      BY <1>1, <1>2, <2>1, <2>3
    <3> QED BY <1>1, <3>1
  <2> QED BY <1>2, <2>2, <2>3
<1>6. ASSUME NEW x \in ToSet(list) \ {list[i]} PROVE x \in ToSet(r)
  <2>1. PICK j \in 1..Len(list) : list[j] = x /\ j # i
    BY <1>1, <1>6
  <2>2. CASE j < i
    <3>1. j \in 1..Len(r) /\ r[j] = x
      BY <1>1, <1>2, <2>1, <2>2
    <3> QED BY <1>4, <3>1
  <2>3. CASE j > i
    <3>1. j - 1 \in 1..Len(list) - 1 /\ ~ (j - 1 < i) /\ (j - 1) + 1 = j
      BY <1>1, <2>1, <2>3
    <3>2. j - 1 \in 1..Len(r) /\ r[j - 1] = x
      BY <1>2, <2>1, <3>1
    <3> QED BY <1>4, <3>2
  <2> QED BY <1>1, <2>1, <2>2, <2>3
<1> QED BY <1>2, <1>3, <1>5, <1>6 DEF r

LEMMA PassedSplits ==
    ASSUME NEW list, InOrder(list), NEW b \in Address, b \notin ToSet(list),
           NEW i, i = Allocating!Passed(list, b)
    PROVE  /\ i \in 0..Len(list)
           /\ \A j \in 1..i : list[j] < b
           /\ \A j \in i + 1..Len(list) : b < list[j]
<1> DEFINE Stops(k) == /\ \A j \in 1..k : list[j] < b
                       /\ k < Len(list) => list[k + 1] >= b
           X == {j \in 1..Len(list) : list[j] >= b}
<1>1. /\ Len(list) \in Nat /\ b \in Nat
      /\ \A j \in 1..Len(list) : list[j] \in Nat /\ list[j] # b
  <2>1. /\ Len(list) \in Nat
        /\ \A j \in 1..Len(list) : list[j] \in Address /\ list[j] \in ToSet(list)
    BY OrderTyped
  <2>2. Address \subseteq Nat
    BY HeapConstants
  <2> QED BY <2>1, <2>2
<1>2. \E k \in 0..Len(list) : Stops(k)
  <2>1. CASE X = {}
    <3>1. Stops(Len(list)) /\ Len(list) \in 0..Len(list)
      BY <1>1, <2>1
    <3> QED BY <3>1
  <2>2. CASE X # {}
    <3>1. X \in SUBSET Nat
      BY <1>1
    <3>2. PICK m : m = Min(X)
      OBVIOUS
    <3>3. m \in X /\ \A y \in X : m <= y
      BY <2>2, <3>1, <3>2, MinOfNat
    <3>4. m \in 1..Len(list) /\ list[m] >= b
      BY <3>3
    <3>5. ASSUME NEW j \in 1..m - 1 PROVE list[j] < b
      <4>1. j \in 1..Len(list) /\ ~ (m <= j)
        BY <1>1, <3>4
      <4>2. j \notin X
        BY <3>3, <4>1
      <4> QED BY <1>1, <4>1, <4>2
    <3>6. m - 1 \in 0..Len(list) /\ (m - 1) + 1 = m
      BY <1>1, <3>4
    <3>7. Stops(m - 1)
      BY <3>4, <3>5, <3>6
    <3> QED BY <3>6, <3>7
  <2> QED BY <2>1, <2>2
<1>3. i \in 0..Len(list) /\ Stops(i)
  BY <1>2 DEF Allocating!Passed
<1>4. ASSUME NEW j \in i + 1..Len(list) PROVE b < list[j]
  <2>1. /\ i + 1 \in 1..Len(list) /\ i < Len(list) /\ j \in 1..Len(list)
        /\ i + 1 < j \/ i + 1 = j
    BY <1>1, <1>3, <1>4
  <2>2. list[i + 1] >= b /\ list[i + 1] # b
    BY <1>1, <1>3, <2>1
  <2>3. list[i + 1] < list[j] \/ i + 1 = j
    BY <2>1 DEF InOrder
  <2> QED BY <1>1, <2>1, <2>2, <2>3
<1> QED BY <1>3, <1>4

LEMMA InsertedOrder ==
    ASSUME NEW list, InOrder(list), NEW b \in Address, NEW i \in 0..Len(list),
           \A j \in 1..i : list[j] < b, \A j \in i + 1..Len(list) : b < list[j],
           NEW r, r = InsertAt(list, i + 1, b)
    PROVE  /\ InOrder(r)
           /\ Len(r) = Len(list) + 1
           /\ ToSet(r) = ToSet(list) \cup {b}
           /\ r[i + 1] = b
           /\ \A j \in 1..i : r[j] = list[j]
           /\ \A j \in i + 2..Len(list) + 1 : r[j] = list[j - 1]
<1>1. /\ list \in Seq(Address) /\ Len(list) \in Nat
      /\ \A x : x \in ToSet(list) <=> \E j \in 1..Len(list) : list[j] = x
      /\ i + 1 \in 1..Len(list) + 1 /\ (i + 1) + 1 = i + 2 /\ (i + 1) - 1 = i
  BY OrderTyped
<1>2. /\ r \in Seq(Address) /\ Len(r) = Len(list) + 1 /\ r[i + 1] = b
      /\ \A j \in 1..i : r[j] = list[j]
      /\ \A j \in i + 2..Len(list) + 1 : r[j] = list[j - 1]
  <2>1. PICK k : k = i + 1
    OBVIOUS
  <2>2. k \in 1..Len(list) + 1 /\ r = InsertAt(list, k, b) /\ k - 1 = i /\ k + 1 = i + 2
    BY <1>1, <2>1
  <2>3. /\ InsertAt(list, k, b) \in Seq(Address)
        /\ Len(InsertAt(list, k, b)) = Len(list) + 1
        /\ InsertAt(list, k, b)[k] = b
        /\ \A j \in 1..k - 1 : InsertAt(list, k, b)[j] = list[j]
        /\ \A j \in k + 1..Len(list) + 1 : InsertAt(list, k, b)[j] = list[j - 1]
    <3>1. list \in Seq(Address) /\ k \in 1..Len(list) + 1
      BY <1>1, <2>2
    <3> QED BY <3>1, InsertAtElements
  <2> QED BY <2>1, <2>2, <2>3
<1>3. \A x : x \in ToSet(r) <=> \E j \in 1..Len(r) : r[j] = x
  BY <1>2, ToSetByIndex
<1>4. ASSUME NEW j \in 1..Len(r), NEW k \in 1..Len(r), j < k PROVE r[j] < r[k]
  <2>1. CASE k <= i
    <3>1. j \in 1..Len(list) /\ k \in 1..Len(list) /\ r[j] = list[j] /\ r[k] = list[k]
      BY <1>1, <1>2, <1>4, <2>1
    <3> QED BY <1>4, <3>1 DEF InOrder
  <2>2. CASE k = i + 1
    <3>1. j \in 1..i /\ r[j] = list[j] /\ r[k] = b
      BY <1>1, <1>2, <1>4, <2>2
    <3> QED BY <3>1
  <2>3. CASE k > i + 1
    <3>1. k - 1 \in i + 1..Len(list) /\ r[k] = list[k - 1] /\ k - 1 \in 1..Len(list)
      BY <1>1, <1>2, <1>4, <2>3
    <3>2. CASE j <= i
      <4>1. j \in 1..Len(list) /\ r[j] = list[j] /\ j < k - 1
        BY <1>1, <1>2, <1>4, <2>3, <3>2
      <4> QED BY <3>1, <4>1 DEF InOrder
    <3>3. CASE j = i + 1
      BY <1>2, <3>1, <3>3
    <3>4. CASE j > i + 1
      <4>1. j - 1 \in 1..Len(list) /\ r[j] = list[j - 1] /\ j - 1 < k - 1
        BY <1>1, <1>2, <1>4, <3>4
      <4> QED BY <3>1, <4>1 DEF InOrder
    <3> QED BY <3>2, <3>3, <3>4
  <2> QED BY <1>1, <1>2, <2>1, <2>2, <2>3
<1>5. InOrder(r)
  BY <1>2, <1>4 DEF InOrder
<1>6. ASSUME NEW x \in ToSet(r) PROVE x \in ToSet(list) \cup {b}
  <2>1. PICK j \in 1..Len(r) : r[j] = x
    BY <1>3, <1>6
  <2>2. CASE j <= i
    <3>1. j \in 1..Len(list) /\ list[j] = x
      BY <1>1, <1>2, <2>1, <2>2
    <3> QED BY <1>1, <3>1
  <2>3. CASE j = i + 1
    BY <1>2, <2>1, <2>3
  <2>4. CASE j > i + 1
    <3>1. j - 1 \in 1..Len(list) /\ list[j - 1] = x
      BY <1>1, <1>2, <2>1, <2>4
    <3> QED BY <1>1, <3>1
  <2> QED BY <1>1, <1>2, <2>2, <2>3, <2>4
<1>7. ASSUME NEW x \in ToSet(list) PROVE x \in ToSet(r)
  <2>1. PICK j \in 1..Len(list) : list[j] = x
    BY <1>1, <1>7
  <2>2. CASE j <= i
    <3>1. j \in 1..Len(r) /\ r[j] = x
      BY <1>1, <1>2, <2>1, <2>2
    <3> QED BY <1>3, <3>1
  <2>3. CASE j > i
    <3>1. j + 1 \in 1..Len(r) /\ j + 1 \in i + 2..Len(list) + 1 /\ (j + 1) - 1 = j
      BY <1>1, <1>2, <2>1, <2>3
    <3>2. r[j + 1] = x
      BY <1>2, <2>1, <3>1
    <3> QED BY <1>3, <3>1, <3>2
  <2> QED BY <1>1, <2>2, <2>3
<1>8. b \in ToSet(r)
  <2>1. i + 1 \in 1..Len(r)
    BY <1>1, <1>2
  <2> QED BY <1>2, <1>3, <2>1
<1>9. ToSet(r) = ToSet(list) \cup {b}
  BY <1>6, <1>7, <1>8
<1> QED BY <1>2, <1>5, <1>9

\* Two free blocks that touch made one: the heap is as good, with the same free
\* bytes, and what touches of the list is what did before, but for them.
LEMMA JoinKeeps ==
    ASSUME NEW list, NEW sizes, NEW taken, HeapOK(list, sizes, taken),
           NEW i, Touching(list, sizes, i),
           NEW r, r = RemoveAt(list, i + 1),
           NEW merged, merged = Allocating!Merged(sizes, list[i], list[i + 1])
    PROVE  /\ HeapOK(r, merged, taken)
           /\ \A a \in taken : merged[a] = sizes[a]
           /\ Covered(merged, ToSet(r)) = Covered(sizes, ToSet(list))
           /\ \A p \in Int : Touching(r, merged, p) =>
                 Touching(list, sizes, IF p >= i THEN p + 1 ELSE p)
<1>1. /\ list \in Seq(Address) /\ Len(list) \in Nat
      /\ \A j \in 1..Len(list) : list[j] \in Address /\ list[j] \in ToSet(list)
      /\ ToSet(list) \in SUBSET Address
      /\ \A j, k \in 1..Len(list) : list[j] = list[k] => j = k
  BY OrderTyped DEF HeapOK
<1>2. i \in 1..Len(list) /\ i + 1 \in 1..Len(list) /\ i \in Int
  BY <1>1 DEF Touching
<1>3. PICK a, c : a = list[i] /\ c = list[i + 1]
  OBVIOUS
<1>4. /\ a \in ToSet(list) /\ c \in ToSet(list) /\ a + sizes[a] = c
      /\ merged = Allocating!Merged(sizes, a, c)
  BY <1>1, <1>2, <1>3 DEF Touching
<1>5. /\ InOrder(r) /\ Len(r) = Len(list) - 1
      /\ ToSet(r) = ToSet(list) \ {c}
      /\ \A j \in 1..Len(list) - 1 :
            r[j] = IF j < i + 1 THEN list[j] ELSE list[j + 1]
  BY <1>2, <1>3, RemovedOrder DEF HeapOK
<1> DEFINE blocks == taken \cup ToSet(list)
<1>6. /\ sizes \in [Address -> Nat] /\ blocks \in SUBSET Address
      /\ Tiling(sizes, blocks) /\ taken \cap ToSet(list) = {}
      /\ taken \in SUBSET Address
  BY <1>1 DEF HeapOK
<1>7. /\ merged \in [Address -> Nat]
      /\ Tiling(merged, blocks \ {c})
      /\ \A b \in blocks \ {a, c} : merged[b] = sizes[b]
      /\ merged[a] = sizes[a] + sizes[c] /\ a < c
      /\ \A some \in SUBSET blocks : a \in some /\ c \in some =>
            Covered(merged, some \ {c}) = Covered(sizes, some)
  <2>1. a \in blocks /\ c \in blocks
    BY <1>4
  <2> HIDE DEF blocks
  <2> QED BY <1>4, <1>6, <2>1, MergedTiles
<1>8. taken \cup ToSet(r) = blocks \ {c}
  BY <1>4, <1>5, <1>6
<1>9. HeapOK(r, merged, taken)
  BY <1>5, <1>6, <1>7, <1>8 DEF HeapOK
<1>10. \A b \in taken : merged[b] = sizes[b]
  BY <1>4, <1>6, <1>7
<1>11. Covered(merged, ToSet(r)) = Covered(sizes, ToSet(list))
  BY <1>4, <1>5, <1>7
<1>12. ASSUME NEW p \in Int, Touching(r, merged, p)
       PROVE  Touching(list, sizes, IF p >= i THEN p + 1 ELSE p)
  <2>1. /\ p \in 1..Len(list) - 2 /\ p \in 1..Len(list) - 1
        /\ p + 1 \in 1..Len(list) - 1
        /\ r[p] + merged[r[p]] = r[p + 1]
    BY <1>1, <1>5, <1>12 DEF Touching
  <2>2. CASE p < i
    <3>1. /\ p \in 1..Len(list) /\ p # i /\ p # i + 1
          /\ r[p] = list[p] /\ r[p + 1] = list[p + 1]
      BY <1>1, <1>2, <1>5, <2>1, <2>2
    <3>2. list[p] \in blocks \ {a, c}
      BY <1>1, <1>2, <1>3, <3>1
    <3>3. Touching(list, sizes, p)
      BY <1>7, <2>1, <3>1, <3>2 DEF Touching
    <3> QED BY <1>2, <2>2, <3>3
  <2>3. CASE p = i
    <3>1. r[p] = a /\ r[p + 1] = list[(p + 1) + 1] /\ p + 1 \in 1..Len(list) - 1
      BY <1>1, <1>2, <1>3, <1>5, <2>1, <2>3
    <3>2. a \in Nat /\ sizes[a] \in Nat /\ sizes[c] \in Nat /\ c \in Nat
      BY <1>1, <1>4, <1>6, HeapConstants
    <3>3. list[p + 1] = c /\ c + sizes[c] = list[(p + 1) + 1]
      BY <1>3, <1>4, <1>7, <2>1, <2>3, <3>1, <3>2
    <3>4. Touching(list, sizes, p + 1)
      BY <3>1, <3>3 DEF Touching
    <3> QED BY <2>3, <3>4
  <2>4. CASE p > i
    <3>1. /\ r[p] = list[p + 1] /\ r[p + 1] = list[(p + 1) + 1]
          /\ p + 1 \in 1..Len(list) /\ p + 1 # i /\ p + 1 # i + 1
      BY <1>1, <1>2, <1>5, <2>1, <2>4
    <3>2. list[p + 1] \in blocks \ {a, c}
      BY <1>1, <1>2, <1>3, <3>1
    <3>3. Touching(list, sizes, p + 1)
      BY <1>7, <2>1, <3>1, <3>2 DEF Touching
    <3> QED BY <1>2, <2>4, <3>3
  <2> QED BY <1>2, <2>2, <2>3, <2>4
<1> QED BY <1>9, <1>10, <1>11, <1>12

TouchesNear(h, i) ==
    \A p \in Int : Touching(h.list, h.sizes, p) => p = i \/ p = i + 1

JoinedWell(new, h, taken, i) ==
    /\ HeapOK(new.list, new.sizes, taken)
    /\ \A a \in taken : new.sizes[a] = h.sizes[a]
    /\ Covered(new.sizes, ToSet(new.list)) = Covered(h.sizes, ToSet(h.list))
    /\ \A p \in Int : Touching(new.list, new.sizes, p) =>
          /\ Touching(h.list, h.sizes, i + 1)
          /\ p = IF Touching(h.list, h.sizes, i) THEN i ELSE i + 1

LEMMA JoinNextKeeps ==
    ASSUME NEW h, NEW taken, HeapOK(h.list, h.sizes, taken), NEW i \in Int,
           TouchesNear(h, i), NEW new, new = Allocating!JoinNext(h, i)
    PROVE  JoinedWell(new, h, taken, i)
<1> USE DEF TouchesNear, JoinedWell
<1>1. PICK list, sizes : list = h.list /\ sizes = h.sizes
  OBVIOUS
<1>2. Allocating!MeetsNext(h, i) <=> Touching(list, sizes, i)
  BY <1>1 DEF Allocating!MeetsNext, Allocating!Touches, Touching
<1>3. CASE Touching(list, sizes, i)
  <2>1. /\ new.list = RemoveAt(list, i + 1)
        /\ new.sizes = Allocating!Merged(sizes, list[i], list[i + 1])
    <3>1. new = [list |-> RemoveAt(h.list, i + 1),
                 sizes |-> Allocating!Merged(h.sizes, h.list[i], h.list[i + 1])]
      BY <1>1, <1>2, <1>3, HeapOperators DEF Allocating!JoinNext
    <3>2. PICK x, y : /\ x = RemoveAt(h.list, i + 1)
                      /\ y = Allocating!Merged(h.sizes, h.list[i], h.list[i + 1])
      OBVIOUS
    <3>3. new.list = x /\ new.sizes = y
      BY <3>1, <3>2
    <3> QED BY <1>1, <3>2, <3>3
  <2>2. PICK r, merged : r = new.list /\ merged = new.sizes
    OBVIOUS
  <2>3. /\ HeapOK(r, merged, taken)
        /\ \A a \in taken : merged[a] = sizes[a]
        /\ Covered(merged, ToSet(r)) = Covered(sizes, ToSet(list))
        /\ \A p \in Int : Touching(r, merged, p) =>
              Touching(list, sizes, IF p >= i THEN p + 1 ELSE p)
    BY <1>1, <1>3, <2>1, <2>2, JoinKeeps
  <2>4. ASSUME NEW p \in Int, Touching(r, merged, p)
        PROVE  p = i /\ Touching(list, sizes, i + 1)
    <3>1. CASE p >= i
      <4>1. Touching(list, sizes, p + 1) /\ p + 1 \in Int
        BY <2>3, <2>4, <3>1
      <4>2. p + 1 = i \/ p + 1 = i + 1
        BY <1>1, <4>1
      <4> QED BY <3>1, <4>1, <4>2
    <3>2. CASE ~ (p >= i)
      <4>1. Touching(list, sizes, p)
        BY <2>3, <2>4, <3>2
      <4> QED BY <1>1, <3>2, <4>1
    <3> QED BY <3>1, <3>2
  <2> QED BY <1>1, <1>3, <2>2, <2>3, <2>4
<1>4. CASE ~ Touching(list, sizes, i)
  <2>1. new = h
    BY <1>2, <1>4 DEF Allocating!JoinNext
  <2> QED BY <1>1, <1>4, <2>1
<1> QED BY <1>3, <1>4

\* A block put into the list: the heap is good, with its bytes free too, and no
\* two blocks of the list touch.
InsertedWell(new, list, sizes, taken, b) ==
    /\ HeapOK(new.list, new.sizes, taken)
    /\ \A p \in Int : ~ Touching(new.list, new.sizes, p)
    /\ \A a \in taken : new.sizes[a] = sizes[a]
    /\ Covered(new.sizes, ToSet(new.list)) =
          Covered(sizes, ToSet(list)) \cup Bytes(sizes, b)

LEMMA InsertedKeeps ==
    ASSUME NEW list, NEW sizes \in [Address -> Nat], NEW taken \in SUBSET Address,
           InOrder(list), taken \cap ToSet(list) = {},
           NEW b \in Address, b \notin taken, b \notin ToSet(list),
           Tiling(sizes, taken \cup ToSet(list) \cup {b}),
           \A p \in Int : ~ Touching(list, sizes, p),
           NEW new, new = Allocating!Inserted(list, sizes, b)
    PROVE  InsertedWell(new, list, sizes, taken, b)
<1> USE DEF InsertedWell
<1>1. PICK i : i = Allocating!Passed(list, b)
  OBVIOUS
<1>2. /\ i \in 0..Len(list) /\ i \in Int
      /\ \A j \in 1..i : list[j] < b
      /\ \A j \in i + 1..Len(list) : b < list[j]
  BY <1>1, PassedSplits
<1>3. PICK r : r = InsertAt(list, i + 1, b)
  OBVIOUS
<1>4. /\ InOrder(r) /\ Len(r) = Len(list) + 1
      /\ ToSet(r) = ToSet(list) \cup {b}
      /\ \A j \in 1..i : r[j] = list[j]
      /\ \A j \in i + 2..Len(list) + 1 : r[j] = list[j - 1]
  BY <1>2, <1>3, InsertedOrder
<1>5. taken \cup ToSet(r) = taken \cup ToSet(list) \cup {b}
  BY <1>4
<1>6. HeapOK(r, sizes, taken)
  BY <1>4, <1>5 DEF HeapOK
<1>7. Covered(sizes, ToSet(r)) = Covered(sizes, ToSet(list)) \cup Bytes(sizes, b)
  BY <1>4 DEF Covered
<1>8. ASSUME NEW p \in Int, Touching(r, sizes, p) PROVE p = i \/ p = i + 1
  <2>0. Len(list) \in Nat
    BY OrderTyped
  <2>1. p \in 1..Len(list) /\ r[p] + sizes[r[p]] = r[p + 1]
    BY <1>4, <1>8, <2>0 DEF Touching
  <2>2. ASSUME p < i PROVE FALSE
    <3>1. /\ p \in 1..i /\ p + 1 \in 1..i /\ p \in 1..Len(list) - 1
      BY <1>2, <2>0, <2>1, <2>2
    <3>2. r[p] = list[p] /\ r[p + 1] = list[p + 1]
      BY <1>4, <3>1
    <3>3. Touching(list, sizes, p)
      BY <2>1, <3>1, <3>2 DEF Touching
    <3> QED BY <3>3
  <2>3. ASSUME p > i + 1 PROVE FALSE
    <3>1. /\ p \in i + 2..Len(list) + 1 /\ p + 1 \in i + 2..Len(list) + 1
          /\ p - 1 \in 1..Len(list) - 1 /\ (p + 1) - 1 = (p - 1) + 1
      BY <1>2, <2>0, <2>1, <2>3
    <3>2. r[p] = list[p - 1] /\ r[p + 1] = list[(p + 1) - 1]
      BY <1>4, <3>1
    <3>3. Touching(list, sizes, p - 1) /\ p - 1 \in Int
      BY <2>1, <3>1, <3>2 DEF Touching
    <3> QED BY <3>3
  <2> QED BY <1>2, <2>2, <2>3
<1>9. PICK placed : placed = [list |-> r, sizes |-> sizes]
  OBVIOUS
<1>10. PICK joined, k :
          /\ joined = Allocating!JoinNext(placed, i)
          /\ k = IF Touching(r, sizes, i) THEN i ELSE i + 1
  OBVIOUS
<1>11. placed.list = r /\ placed.sizes = sizes /\ k \in Int
  BY <1>2, <1>9, <1>10
<1>12. /\ HeapOK(joined.list, joined.sizes, taken)
       /\ \A a \in taken : joined.sizes[a] = sizes[a]
       /\ Covered(joined.sizes, ToSet(joined.list)) = Covered(sizes, ToSet(r))
       /\ \A p \in Int : Touching(joined.list, joined.sizes, p) => p = k
  <2>1. HeapOK(placed.list, placed.sizes, taken)
    BY <1>6, <1>11
  <2>2. TouchesNear(placed, i)
    BY <1>8, <1>11 DEF TouchesNear
  <2>3. JoinedWell(joined, placed, taken, i)
    BY <1>2, <1>10, <2>1, <2>2, JoinNextKeeps
  <2> QED BY <1>10, <1>11, <2>3 DEF JoinedWell
<1>13. new = Allocating!JoinNext(joined, k)
  <2>1. Allocating!MeetsNext(placed, i) <=> Touching(r, sizes, i)
    BY <1>11 DEF Allocating!MeetsNext, Allocating!Touches, Touching
  <2>2. new = Allocating!JoinNext(Allocating!JoinNext(placed, i),
                 IF Allocating!MeetsNext(placed, i) THEN i ELSE i + 1)
    <3>1. placed = [list |-> Allocating!InsertAt(list, i + 1, b), sizes |-> sizes]
      BY <1>3, <1>9, HeapOperators
    <3> QED BY <1>1, <3>1, Zenon DEF Allocating!Inserted
  <2> QED BY <1>10, <2>1, <2>2
<1>14. /\ HeapOK(new.list, new.sizes, taken)
       /\ \A a \in taken : new.sizes[a] = joined.sizes[a]
       /\ Covered(new.sizes, ToSet(new.list)) =
             Covered(joined.sizes, ToSet(joined.list))
       /\ \A p \in Int : Touching(new.list, new.sizes, p) =>
             Touching(joined.list, joined.sizes, k + 1)
  <2>1. TouchesNear(joined, k)
    BY <1>12 DEF TouchesNear
  <2>2. HeapOK(joined.list, joined.sizes, taken)
    BY <1>12
  <2>3. JoinedWell(new, joined, taken, k)
    BY <1>11, <1>13, <2>1, <2>2, JoinNextKeeps
  <2> QED BY <2>3 DEF JoinedWell
<1>15. ~ Touching(joined.list, joined.sizes, k + 1)
  BY <1>11, <1>12
<1> QED BY <1>7, <1>12, <1>14, <1>15

-----------------------------------------------------------------------------
(***************************************************************************)
(* The bytes of a tiling.                                                  *)
(***************************************************************************)
LEMMA TilesApart ==
    ASSUME NEW sizes \in [Address -> Nat], NEW blocks \in SUBSET Address,
           Tiling(sizes, blocks), NEW a \in blocks, NEW c \in blocks, a # c
    PROVE  Bytes(sizes, a) \cap Bytes(sizes, c) = {}
<1>1. a \in Nat /\ c \in Nat /\ sizes[a] \in Nat /\ sizes[c] \in Nat
  BY HeapConstants
<1>2. a + sizes[a] <= c \/ c + sizes[c] <= a
  BY <1>1 DEF Tiling
<1> QED BY <1>1, <1>2 DEF Bytes

LEMMA CoveredFinite ==
    ASSUME NEW sizes \in [Address -> Nat], NEW blocks \in SUBSET Address,
           Tiling(sizes, blocks), NEW some \in SUBSET blocks
    PROVE  /\ IsFiniteSet(Covered(sizes, some))
           /\ Cardinality(Covered(sizes, some)) \in Nat
           /\ Covered(sizes, some) \subseteq 0..pxEnd - 1
<1>1. Address \subseteq Nat /\ pxEnd \in Nat
  BY HeapConstants
<1>2. ASSUME NEW a \in some PROVE Bytes(sizes, a) \subseteq 0..pxEnd - 1
  <2>1. a \in Nat /\ sizes[a] \in Nat /\ a + sizes[a] <= pxEnd
    BY <1>1 DEF Tiling
  <2> QED BY <1>1, <2>1 DEF Bytes
<1>3. Covered(sizes, some) \subseteq 0..pxEnd - 1
  BY <1>2 DEF Covered
<1>4. IsFiniteSet(0..pxEnd - 1)
  BY <1>1, FS_Interval
<1>5. IsFiniteSet(Covered(sizes, some))
  BY <1>3, <1>4, FS_Subset
<1> QED BY <1>3, <1>5, FS_CardinalityType

LEMMA BytesCounted ==
    ASSUME NEW sizes \in [Address -> Nat], NEW a \in Address
    PROVE  IsFiniteSet(Bytes(sizes, a)) /\ Cardinality(Bytes(sizes, a)) = sizes[a]
<1>1. PICK m, n : m = a /\ n = a + sizes[a] - 1
  OBVIOUS
<1>2. m \in Int /\ n \in Int /\ sizes[a] \in Nat
  BY <1>1, HeapConstants
<1>3. /\ IsFiniteSet(m..n)
      /\ Cardinality(m..n) = IF m > n THEN 0 ELSE n - m + 1
  BY <1>2, FS_Interval
<1>4. m \in Nat
  BY <1>1, HeapConstants
<1> QED BY <1>1, <1>2, <1>3, <1>4 DEF Bytes

\* Sets of bytes that are apart are counted apart.
LEMMA BytesAdd ==
    ASSUME NEW X, IsFiniteSet(X), NEW Y, IsFiniteSet(Y), X \cap Y = {}
    PROVE  Cardinality(X \cup Y) = Cardinality(X) + Cardinality(Y)
<1>1. Cardinality(X) \in Nat /\ Cardinality(Y) \in Nat
  BY FS_CardinalityType
<1>2. Cardinality(X \cap Y) = 0
  <2>1. Cardinality({}) = 0
    BY FS_EmptySet
  <2> QED BY <2>1, Zenon
<1>3. Cardinality(X \cup Y) = Cardinality(X) + Cardinality(Y) - Cardinality(X \cap Y)
  BY FS_Union
<1> QED BY <1>1, <1>2, <1>3

\* A block split into two.
\* A block made two: what it is then.
SplitWell(split, sizes, blocks, b, c, size) ==
    /\ c \in Address /\ c \notin blocks
    /\ split \in [Address -> Nat]
    /\ Tiling(split, blocks \cup {c})
    /\ \A a \in blocks \ {b} : split[a] = sizes[a]
    /\ split[b] = size
    /\ Bytes(sizes, b) = Bytes(split, b) \cup Bytes(split, c)

LEMMA SplitTiles ==
    ASSUME NEW sizes \in [Address -> Nat], NEW blocks \in SUBSET Address,
           Tiling(sizes, blocks), NEW b \in blocks,
           NEW size \in Nat, 0 < size, size < sizes[b], Aligned(size),
           NEW c, c = b + size,
           NEW split, split = [sizes EXCEPT ![b] = size, ![c] = sizes[b] - size]
    PROVE  SplitWell(split, sizes, blocks, b, c, size)
<1>0. Address \subseteq Nat /\ pxEnd \in Nat
  BY HeapConstants
<1>1. b \in Nat /\ sizes[b] \in Nat /\ b + sizes[b] <= pxEnd /\ Aligned(b)
  BY <1>0, HeapConstants DEF Tiling
<1>2. Aligned(c) /\ Aligned(sizes[b] - size)
  <2>1. Aligned(sizes[b]) /\ b \in Int /\ size \in Int /\ sizes[b] \in Int
    BY <1>1 DEF Tiling
  <2>2. Aligned(b + size)
    BY <1>1, <2>1, AlignedSum
  <2>3. Aligned(sizes[b] - size)
    BY <2>1, AlignedSum
  <2> QED BY <2>2, <2>3
<1>3. c \in Address /\ b < c /\ c < b + sizes[b]
  BY <1>0, <1>1, <1>2, HeapConstants
<1>4. c \notin blocks
  BY <1>0, <1>1, <1>3 DEF Tiling
<1>5. /\ split \in [Address -> Nat] /\ split[b] = size
      /\ split[c] = sizes[b] - size
      /\ \A a \in blocks \ {b} : split[a] = sizes[a]
  BY <1>1, <1>3, <1>4
<1>6. Bytes(sizes, b) = Bytes(split, b) \cup Bytes(split, c)
  BY <1>0, <1>1, <1>3, <1>5 DEF Bytes
<1>7. ASSUME NEW a \in blocks \cup {c}
      PROVE  split[a] > 0 /\ Aligned(split[a]) /\ a + split[a] <= pxEnd
  <2>1. CASE a = b
    BY <1>0, <1>1, <1>5, <2>1
  <2>2. CASE a = c
    BY <1>0, <1>1, <1>2, <1>5, <2>2
  <2>3. CASE a # b /\ a # c
    BY <1>5, <1>7, <2>3 DEF Tiling
  <2> QED BY <2>1, <2>2, <2>3
<1>8. ASSUME NEW a \in blocks \cup {c}, NEW d \in blocks \cup {c}, a < d
      PROVE  a + split[a] <= d
  <2>1. a \in Nat /\ d \in Nat
    BY <1>0, <1>3
  <2>2. CASE a = b
    <3>1. CASE d = c
      BY <1>1, <1>5, <2>2, <3>1
    <3>2. CASE d # c
      <4>1. b + sizes[b] <= d
        BY <1>8, <2>2, <3>2 DEF Tiling
      <4> QED BY <1>1, <1>5, <2>1, <2>2, <4>1
    <3> QED BY <3>1, <3>2
  <2>3. CASE a = c
    <3>1. d \in blocks /\ b < d
      BY <1>1, <1>3, <1>8, <2>1, <2>3
    <3>2. b + sizes[b] <= d
      BY <3>1 DEF Tiling
    <3> QED BY <1>1, <1>5, <2>1, <2>3, <3>2
  <2>4. CASE a # b /\ a # c
    <3>1. a \in blocks /\ split[a] = sizes[a] /\ sizes[a] \in Nat
      BY <1>5, <1>8, <2>4
    <3>2. CASE d # c
      BY <1>8, <3>1, <3>2 DEF Tiling
    <3>3. CASE d = c
      <4>1. a < b \/ b < a
        BY <1>1, <2>1, <2>4
      <4>2. ASSUME b < a PROVE FALSE
        <5>1. b + sizes[b] <= a
          BY <3>1, <4>2 DEF Tiling
        <5> QED BY <1>1, <1>3, <1>8, <2>1, <3>3, <5>1
      <4>3. a + sizes[a] <= b
        BY <3>1, <4>1, <4>2 DEF Tiling
      <4> QED BY <1>1, <1>3, <2>1, <3>1, <3>3, <4>3
    <3> QED BY <3>2, <3>3
  <2> QED BY <2>2, <2>3, <2>4
<1>9. ASSUME NEW x \in 0..pxEnd - 1
      PROVE  \E a \in blocks \cup {c} : x \in Bytes(split, a)
  <2>1. PICK a \in blocks : x \in Bytes(sizes, a)
    BY DEF Tiling
  <2>2. CASE a = b
    BY <1>6, <2>1, <2>2
  <2>3. CASE a # b
    BY <1>5, <2>1, <2>3 DEF Bytes
  <2> QED BY <2>2, <2>3
<1>10. Tiling(split, blocks \cup {c})
  BY <1>7, <1>8, <1>9 DEF Tiling
<1> QED BY <1>3, <1>4, <1>5, <1>6, <1>10 DEF SplitWell

\* A block taken from the list: no two that are left touch.
LEMMA RemovedApart ==
    ASSUME NEW list, NEW sizes, NEW taken, HeapOK(list, sizes, taken),
           \A p \in Int : ~ Touching(list, sizes, p),
           NEW i \in 1..Len(list), NEW r, r = RemoveAt(list, i)
    PROVE  \A p \in Int : ~ Touching(r, sizes, p)
<1> SUFFICES ASSUME NEW p \in Int, Touching(r, sizes, p) PROVE FALSE
  OBVIOUS
<1>1. /\ Len(list) \in Nat /\ InOrder(list) /\ sizes \in [Address -> Nat]
      /\ \A j \in 1..Len(list) : list[j] \in Address /\ list[j] \in ToSet(list)
  BY OrderTyped DEF HeapOK
<1>2. /\ Len(r) = Len(list) - 1
      /\ \A j \in 1..Len(list) - 1 : r[j] = IF j < i THEN list[j] ELSE list[j + 1]
  BY <1>1, RemovedOrder
<1>3. /\ p \in 1..Len(list) - 2 /\ p \in 1..Len(list) - 1 /\ p + 1 \in 1..Len(list) - 1
      /\ r[p] + sizes[r[p]] = r[p + 1]
  BY <1>1, <1>2 DEF Touching
<1>4. CASE p + 1 < i
  <2>1. r[p] = list[p] /\ r[p + 1] = list[p + 1]
    BY <1>1, <1>2, <1>3, <1>4
  <2>2. Touching(list, sizes, p)
    BY <1>3, <2>1 DEF Touching
  <2> QED BY <2>2
<1>5. CASE p + 1 = i
  <2>1. /\ r[p] = list[p] /\ r[p + 1] = list[(p + 1) + 1]
        /\ p \in 1..Len(list) /\ p + 1 \in 1..Len(list) /\ (p + 1) + 1 \in 1..Len(list)
    BY <1>1, <1>2, <1>3, <1>5
  <2>2. list[p] < list[p + 1] /\ list[p + 1] < list[(p + 1) + 1]
    BY <1>1, <2>1 DEF InOrder
  <2>3. list[p] + sizes[list[p]] <= list[p + 1]
    BY <1>1, <2>1, <2>2 DEF HeapOK, Tiling
  <2>4. PICK x, y, z, n : /\ x = list[p] /\ y = list[p + 1] /\ z = list[(p + 1) + 1]
                          /\ n = sizes[x]
    OBVIOUS
  <2>5. x \in Nat /\ y \in Nat /\ z \in Nat /\ n \in Nat
    BY <1>1, <2>1, <2>4, HeapConstants
  <2>6. y < z /\ x + n <= y /\ x + n = z
    BY <1>3, <2>1, <2>2, <2>3, <2>4
  <2> QED BY <2>5, <2>6
<1>6. CASE p + 1 > i
  <2>1. r[p] = list[p + 1] /\ r[p + 1] = list[(p + 1) + 1]
    BY <1>1, <1>2, <1>3, <1>6
  <2>2. Touching(list, sizes, p + 1) /\ p + 1 \in Int
    BY <1>3, <2>1 DEF Touching
  <2> QED BY <2>2
<1> QED BY <1>1, <1>4, <1>5, <1>6

-----------------------------------------------------------------------------
(***************************************************************************)
(* The steps.                                                              *)
(***************************************************************************)
LEMMA HeapInit == Allocating!Init => HeapInv
<1> SUFFICES ASSUME Allocating!Init PROVE HeapInv
  OBVIOUS
<1>1. /\ xBlockSize = [a \in Address |-> IF a = 0 THEN pxEnd ELSE 0]
      /\ free = <<0>> /\ allocated = {} /\ xFreeBytesRemaining = pxEnd
  BY DEF Allocating!Init, Address, pxEnd
<1>2. /\ pxEnd \in Nat \ {0} /\ Aligned(pxEnd) /\ 0 \in Address
      /\ Address \subseteq 0..pxEnd - 1
  BY HeapConstants
<1>3. /\ xBlockSize \in [Address -> Nat] /\ xBlockSize[0] = pxEnd
  BY <1>1, <1>2
<1>4. Len(free) = 1 /\ free \in Seq(Address) /\ free[1] = 0
  BY <1>1, <1>2
<1>5. ToSet(free) = {0}
  BY <1>4, ToSetByIndex
<1>6. Bytes(xBlockSize, 0) = 0..pxEnd - 1
  BY <1>2, <1>3 DEF Bytes
<1>7. Tiling(xBlockSize, allocated \cup ToSet(free))
  <2>1. allocated \cup ToSet(free) = {0}
    BY <1>1, <1>5
  <2> QED BY <1>2, <1>3, <1>6, <2>1 DEF Tiling
<1>8. InOrder(free)
  BY <1>4 DEF InOrder
<1>9. \A i \in Int : ~ Touching(free, xBlockSize, i)
  BY <1>4 DEF Touching
<1>10. xFreeBytesRemaining = Cardinality(Covered(xBlockSize, ToSet(free)))
  <2>1. Covered(xBlockSize, ToSet(free)) = Bytes(xBlockSize, 0)
    BY <1>5 DEF Covered
  <2> QED BY <1>1, <1>2, <1>3, <2>1, BytesCounted
<1> QED BY <1>1, <1>3, <1>7, <1>8, <1>9, <1>10 DEF HeapInv, HeapOK

LEMMA FreeKeeps ==
    ASSUME HeapInv, NEW b \in Address, Allocating!vPortFree(b)
    PROVE  HeapInv'
<1>1. PICK new : new = Allocating!Inserted(free, xBlockSize, b)
  OBVIOUS
<1>2. /\ b \in allocated /\ allocated' = allocated \ {b}
      /\ xFreeBytesRemaining' = xFreeBytesRemaining + xBlockSize[b]
      /\ free' = new.list /\ xBlockSize' = new.sizes
  BY <1>1 DEF Allocating!vPortFree
<1>3. /\ xBlockSize \in [Address -> Nat] /\ allocated \in SUBSET Address
      /\ InOrder(free) /\ allocated \cap ToSet(free) = {}
      /\ Tiling(xBlockSize, allocated \cup ToSet(free))
      /\ ToSet(free) \in SUBSET Address
      /\ \A i \in Int : ~ Touching(free, xBlockSize, i)
      /\ xFreeBytesRemaining = Cardinality(Covered(xBlockSize, ToSet(free)))
  BY OrderTyped DEF HeapInv, HeapOK
<1>4. (allocated \ {b}) \cup ToSet(free) \cup {b} = allocated \cup ToSet(free)
  BY <1>2
<1>5. /\ HeapOK(new.list, new.sizes, allocated \ {b})
      /\ \A i \in Int : ~ Touching(new.list, new.sizes, i)
      /\ Covered(new.sizes, ToSet(new.list)) =
            Covered(xBlockSize, ToSet(free)) \cup Bytes(xBlockSize, b)
  <2>1. PICK taken : taken = allocated \ {b}
    OBVIOUS
  <2>2. /\ taken \in SUBSET Address /\ taken \cap ToSet(free) = {}
        /\ b \notin taken /\ b \notin ToSet(free)
        /\ Tiling(xBlockSize, taken \cup ToSet(free) \cup {b})
    BY <1>2, <1>3, <1>4, <2>1
  <2>3. InsertedWell(new, free, xBlockSize, taken, b)
    BY <1>1, <1>3, <2>2, InsertedKeeps
  <2> QED BY <2>1, <2>3 DEF InsertedWell
<1>6. Cardinality(Covered(new.sizes, ToSet(new.list))) =
          Cardinality(Covered(xBlockSize, ToSet(free))) + xBlockSize[b]
  <2>1. PICK X, Y, blocks : /\ X = Covered(xBlockSize, ToSet(free))
                            /\ Y = Bytes(xBlockSize, b)
                            /\ blocks = allocated \cup ToSet(free)
    OBVIOUS
  <2>2. blocks \in SUBSET Address /\ Tiling(xBlockSize, blocks) /\ b \in blocks
    BY <1>2, <1>3, <2>1
  <2>3. IsFiniteSet(X)
    BY <1>3, <2>1, <2>2, CoveredFinite
  <2>4. IsFiniteSet(Y) /\ Cardinality(Y) = xBlockSize[b]
    BY <1>3, <2>1, BytesCounted
  <2>5. \A a \in ToSet(free) : Bytes(xBlockSize, a) \cap Y = {}
    BY <1>2, <1>3, <2>1, <2>2, TilesApart
  <2>6. X \cap Y = {}
    BY <2>1, <2>5 DEF Covered
  <2> QED BY <1>5, <2>1, <2>3, <2>4, <2>6, BytesAdd
<1> QED BY <1>2, <1>3, <1>5, <1>6 DEF HeapInv

LEMMA RoundedSize ==
    ASSUME NEW wanted \in Nat, wanted > 0
    PROVE  /\ Allocating!Rounded(wanted) \in Nat
           /\ Allocating!Rounded(wanted) > 0
           /\ Aligned(Allocating!Rounded(wanted))
<1> DEFINE T == portBYTE_ALIGNMENT
           size == wanted + heapSTRUCT_SIZE
<1>1. T \in Nat \ {0} /\ size \in Nat \ {0}
  BY HeapConstants
<1>2. PICK q, r : q = size \div T /\ r = size % T
  OBVIOUS
<1>3. Allocating!Rounded(wanted) = IF r = 0 THEN size ELSE size + T - r
  BY <1>2 DEF Allocating!Rounded
<1> HIDE DEF T, size
<1>4. q \in Int /\ r \in 0..T - 1 /\ size = T * q + r
  BY <1>1, <1>2, Divided
<1>5. T * (q + 1) = T * q + T /\ q + 1 \in Int
  BY <1>1, <1>4
<1>6. CASE r = 0
  BY <1>1, <1>2, <1>3, <1>6 DEF Aligned, T
<1>7. CASE r # 0
  <2>1. Allocating!Rounded(wanted) = T * (q + 1)
    BY <1>1, <1>3, <1>4, <1>5, <1>7
  <2>2. size + T - r \in Nat /\ size + T - r > 0
    BY <1>1, <1>4
  <2> QED BY <1>1, <1>3, <1>5, <1>7, <2>1, <2>2, MultipleIsAligned DEF Aligned, T
<1> QED BY <1>6, <1>7

\* What is left of the free bytes when a block of the list is taken.
LEMMA TakenCount ==
    ASSUME NEW sizes \in [Address -> Nat], NEW blocks \in SUBSET Address,
           Tiling(sizes, blocks), NEW rest \in SUBSET blocks,
           NEW b \in blocks \ rest, NEW X, X = Covered(sizes, rest)
    PROVE  /\ X \cap Bytes(sizes, b) = {}
           /\ Cardinality(X \cup Bytes(sizes, b)) - sizes[b] = Cardinality(X)
<1>1. IsFiniteSet(X) /\ Cardinality(X) \in Nat
  BY CoveredFinite
<1>2. IsFiniteSet(Bytes(sizes, b)) /\ Cardinality(Bytes(sizes, b)) = sizes[b]
  BY BytesCounted
<1>3. \A a \in rest : Bytes(sizes, a) \cap Bytes(sizes, b) = {}
  BY TilesApart
<1>4. X \cap Bytes(sizes, b) = {}
  BY <1>3 DEF Covered
<1>5. Cardinality(X \cup Bytes(sizes, b)) = Cardinality(X) + sizes[b]
  BY <1>1, <1>2, <1>4, BytesAdd
<1> QED BY <1>1, <1>4, <1>5

LEMMA MallocKeeps ==
    ASSUME HeapInv, NEW wanted \in WantedSizes, Allocating!pvPortMalloc(wanted)
    PROVE  HeapInv'
<1>1. PICK size, i, b, rest, split :
         /\ size = Allocating!Rounded(wanted)
         /\ i = Min(Allocating!Fitting(size))
         /\ b = free[i]
         /\ rest = RemoveAt(free, i)
         /\ split = [xBlockSize EXCEPT ![b] = size,
                                       ![b + size] = xBlockSize[b] - size]
  OBVIOUS
<1>2. PICK new : new = IF Allocating!Splits(b, size)
                       THEN Allocating!Inserted(rest, split, b + size)
                       ELSE [list |-> rest, sizes |-> xBlockSize]
  OBVIOUS
<1>3. /\ wanted > 0 /\ Allocating!Fitting(size) # {}
      /\ free' = new.list /\ xBlockSize' = new.sizes
      /\ xFreeBytesRemaining' = xFreeBytesRemaining - xBlockSize'[b]
      /\ allocated' = allocated \cup {b}
  <2>1. i = Allocating!Min(Allocating!Fitting(size)) /\ rest = Allocating!RemoveAt(free, i)
    BY <1>1, HeapOperators
  <2> QED BY <1>1, <1>2, <2>1 DEF Allocating!pvPortMalloc, Allocating!Succeeds
<1>4. /\ xBlockSize \in [Address -> Nat] /\ allocated \in SUBSET Address
      /\ InOrder(free) /\ allocated \cap ToSet(free) = {}
      /\ Tiling(xBlockSize, allocated \cup ToSet(free))
      /\ ToSet(free) \in SUBSET Address /\ Len(free) \in Nat
      /\ \A j \in 1..Len(free) : free[j] \in Address /\ free[j] \in ToSet(free)
      /\ \A j \in Int : ~ Touching(free, xBlockSize, j)
      /\ xFreeBytesRemaining = Cardinality(Covered(xBlockSize, ToSet(free)))
  BY OrderTyped DEF HeapInv, HeapOK
<1>5. size \in Nat /\ size > 0 /\ Aligned(size)
  BY <1>1, <1>3, RoundedSize, HeapConstants
<1>6. i \in 1..Len(free) /\ xBlockSize[b] >= size
  <2>1. Allocating!Fitting(size) = {j \in 1..Len(free) : xBlockSize[free[j]] >= size}
    BY DEF Allocating!Fitting
  <2>2. Allocating!Fitting(size) \in SUBSET Nat
    BY <1>4, <2>1
  <2>3. i \in Allocating!Fitting(size)
    BY <1>1, <1>3, <2>2, MinOfNat
  <2> QED BY <1>1, <2>1, <2>3
<1>7. b \in ToSet(free) /\ b \in Address /\ b \notin allocated
  BY <1>1, <1>4, <1>6
<1>8. /\ InOrder(rest) /\ ToSet(rest) = ToSet(free) \ {b}
      /\ \A j \in Int : ~ Touching(rest, xBlockSize, j)
  <2>1. \A j \in Int : ~ Touching(rest, xBlockSize, j)
    BY <1>1, <1>6, RemovedApart DEF HeapInv
  <2> QED BY <1>1, <1>4, <1>6, <2>1, RemovedOrder
<1>9. PICK blocks, taken : blocks = allocated \cup ToSet(free) /\ taken = allocated \cup {b}
  OBVIOUS
<1>10. /\ blocks \in SUBSET Address /\ Tiling(xBlockSize, blocks) /\ b \in blocks
       /\ taken \in SUBSET Address /\ taken \cap ToSet(rest) = {}
       /\ taken \cup ToSet(rest) = blocks
  BY <1>4, <1>7, <1>8, <1>9
<1>11. CASE ~ Allocating!Splits(b, size)
  <2>1. new.list = rest /\ new.sizes = xBlockSize
    BY <1>2, <1>11
  <2>2. HeapOK(rest, xBlockSize, taken)
    BY <1>4, <1>8, <1>10 DEF HeapOK
  <2>3. PICK X : X = Covered(xBlockSize, ToSet(rest))
    OBVIOUS
  <2>4. Covered(xBlockSize, ToSet(free)) = X \cup Bytes(xBlockSize, b)
    BY <1>7, <1>8, <2>3 DEF Covered
  <2>5. Cardinality(X \cup Bytes(xBlockSize, b)) - xBlockSize[b] = Cardinality(X)
    <3>1. ToSet(rest) \in SUBSET blocks /\ b \in blocks \ ToSet(rest)
      BY <1>8, <1>10
    <3> QED BY <1>4, <1>10, <2>3, <3>1, TakenCount
  <2> QED BY <1>3, <1>4, <1>8, <1>9, <2>1, <2>2, <2>3, <2>4, <2>5 DEF HeapInv
<1>12. CASE Allocating!Splits(b, size)
  <2>1. PICK c : c = b + size
    OBVIOUS
  <2>2. size < xBlockSize[b]
    BY <1>4, <1>5, <1>7, <1>12, HeapConstants
       DEF Allocating!Splits, Allocating!heapMINIMUM_BLOCK_SIZE
  <2>3. /\ c \in Address /\ c \notin blocks
        /\ split \in [Address -> Nat]
        /\ Tiling(split, blocks \cup {c})
        /\ \A a \in blocks \ {b} : split[a] = xBlockSize[a]
        /\ split[b] = size
        /\ Bytes(xBlockSize, b) = Bytes(split, b) \cup Bytes(split, c)
    <3>1. split = [xBlockSize EXCEPT ![b] = size, ![c] = xBlockSize[b] - size]
      BY <1>1, <2>1
    <3>2. 0 < size /\ Tiling(xBlockSize, blocks) /\ b \in blocks
      BY <1>5, <1>10
    <3>3. SplitWell(split, xBlockSize, blocks, b, c, size)
      BY <1>4, <1>5, <1>10, <2>1, <2>2, <3>1, <3>2, SplitTiles
    <3> QED BY <3>3 DEF SplitWell
  <2>4. \A j \in Int : ~ Touching(rest, split, j)
    <3>1. ASSUME NEW j \in Int, Touching(rest, split, j) PROVE FALSE
      <4>1. j \in 1..Len(rest)
        BY <1>8, <3>1, OrderTyped DEF Touching
      <4>2. rest[j] \in ToSet(rest)
        BY <1>8, <4>1, OrderTyped
      <4>3. split[rest[j]] = xBlockSize[rest[j]]
        BY <1>8, <1>10, <2>3, <4>2
      <4>4. Touching(rest, xBlockSize, j)
        BY <3>1, <4>3 DEF Touching
      <4> QED BY <1>8, <4>4
    <3> QED BY <3>1
  <2>5. InsertedWell(new, rest, split, taken, c)
    <3>1. new = Allocating!Inserted(rest, split, c)
      BY <1>2, <1>12, <2>1
    <3>2. taken \cup ToSet(rest) \cup {c} = blocks \cup {c}
      BY <1>10
    <3>3. c \notin taken /\ c \notin ToSet(rest)
      BY <1>10, <2>3
    <3> QED BY <1>8, <1>10, <2>3, <2>4, <3>1, <3>2, <3>3, InsertedKeeps
  <2>6. PICK X : X = Covered(split, ToSet(rest) \cup {c})
    OBVIOUS
  <2>7. Covered(new.sizes, ToSet(new.list)) = X
    BY <2>5, <2>6 DEF InsertedWell, Covered
  <2>8. Covered(xBlockSize, ToSet(free)) = X \cup Bytes(split, b)
    <3>1. \A a \in ToSet(rest) : Bytes(split, a) = Bytes(xBlockSize, a)
      BY <1>8, <1>10, <2>3 DEF Bytes
    <3>2. Covered(xBlockSize, ToSet(free)) =
              Covered(xBlockSize, ToSet(rest)) \cup Bytes(xBlockSize, b)
      BY <1>7, <1>8 DEF Covered
    <3>3. Covered(xBlockSize, ToSet(rest)) = Covered(split, ToSet(rest))
      BY <3>1 DEF Covered
    <3>4. X = Covered(split, ToSet(rest)) \cup Bytes(split, c)
      BY <2>6 DEF Covered
    <3> QED BY <2>3, <3>2, <3>3, <3>4
  <2>9. Cardinality(X \cup Bytes(split, b)) - split[b] = Cardinality(X)
    <3>1. PICK all, some : all = blocks \cup {c} /\ some = ToSet(rest) \cup {c}
      OBVIOUS
    <3>2. /\ all \in SUBSET Address /\ Tiling(split, all) /\ some \in SUBSET all
          /\ b \in all \ some /\ X = Covered(split, some)
      BY <1>8, <1>10, <2>3, <2>6, <3>1
    <3> QED BY <2>3, <3>2, TakenCount
  <2>10. new.sizes[b] = split[b]
    BY <1>9, <2>5 DEF InsertedWell
  <2>11. /\ HeapOK(new.list, new.sizes, taken)
         /\ \A p \in Int : ~ Touching(new.list, new.sizes, p)
    BY <2>5 DEF InsertedWell
  <2> QED BY <1>3, <1>4, <1>9, <2>7, <2>8, <2>9, <2>10, <2>11 DEF HeapInv
<1> QED BY <1>11, <1>12

LEMMA HeapNext == HeapInv /\ [Allocating!Next]_(Allocating!vars) => HeapInv'
<1> SUFFICES ASSUME HeapInv, Allocating!Next \/ UNCHANGED Allocating!vars
             PROVE  HeapInv'
  OBVIOUS
<1>1. ASSUME NEW wanted \in WantedSizes, Allocating!pvPortMalloc(wanted)
      PROVE  HeapInv'
  BY <1>1, MallocKeeps
<1>2. ASSUME NEW b \in Allocating!Address, Allocating!vPortFree(b)
      PROVE  HeapInv'
  BY <1>2, FreeKeeps DEF Address
<1>3. CASE UNCHANGED Allocating!vars
  BY <1>3 DEF Allocating!vars, HeapInv, HeapOK, Touching, Covered, Bytes, Tiling
<1> QED BY <1>1, <1>2, <1>3 DEF Allocating!Next

-----------------------------------------------------------------------------
(***************************************************************************)
(* What the invariant says.                                                *)
(***************************************************************************)
LEMMA HeapTyped ==
    ASSUME HeapInv, NEW blocks, blocks = allocated \cup ToSet(free)
    PROVE  /\ xBlockSize \in [Address -> Nat] /\ blocks \in SUBSET Address
           /\ Tiling(xBlockSize, blocks)
           /\ Allocating!Blocks = blocks
           /\ Allocating!Range(free) = ToSet(free)
           /\ \A b : Allocating!Extent(b) = Bytes(xBlockSize, b)
<1>1. /\ xBlockSize \in [Address -> Nat] /\ blocks \in SUBSET Address
      /\ Tiling(xBlockSize, blocks) /\ free \in Seq(Address)
  BY OrderTyped DEF HeapInv, HeapOK
<1>2. Allocating!Range(free) = ToSet(free)
  BY <1>1 DEF Allocating!Range, ToSet
<1>3. Allocating!Blocks = blocks
  BY <1>2 DEF Allocating!Blocks
<1>4. \A b : Allocating!Extent(b) = Bytes(xBlockSize, b)
  BY DEF Allocating!Extent, Bytes
<1> QED BY <1>1, <1>2, <1>3, <1>4

LEMMA HeapTiles == HeapInv => Allocating!BlocksTile
<1> SUFFICES ASSUME HeapInv PROVE Allocating!BlocksTile
  OBVIOUS
<1>1. PICK blocks : blocks = allocated \cup ToSet(free)
  OBVIOUS
<1>2. /\ xBlockSize \in [Address -> Nat] /\ blocks \in SUBSET Address
      /\ Tiling(xBlockSize, blocks)
      /\ Allocating!Blocks = blocks
      /\ Allocating!Range(free) = ToSet(free)
      /\ \A b : Allocating!Extent(b) = Bytes(xBlockSize, b)
  BY <1>1, HeapTyped
<1>3. \A b \in blocks : \A c \in blocks \ {b} :
          Bytes(xBlockSize, b) \cap Bytes(xBlockSize, c) = {}
  BY <1>2, TilesApart
<1>4. Covered(xBlockSize, blocks) = 0..pxEnd - 1
  <2>1. Covered(xBlockSize, blocks) \subseteq 0..pxEnd - 1
    BY <1>2, CoveredFinite
  <2>2. 0..pxEnd - 1 \subseteq Covered(xBlockSize, blocks)
    BY <1>2 DEF Tiling, Covered
  <2> QED BY <2>1, <2>2
<1>5. \A some : UNION {Allocating!Extent(b) : b \in some} = Covered(xBlockSize, some)
  BY <1>2 DEF Covered
<1>6. /\ allocated \cap ToSet(free) = {}
      /\ xFreeBytesRemaining = Cardinality(Covered(xBlockSize, ToSet(free)))
  BY DEF HeapInv, HeapOK
<1> QED BY <1>2, <1>3, <1>4, <1>5, <1>6, HeapOperators
        DEF Allocating!BlocksTile, pxEnd

\* A request that succeeds has its bytes.
LEMMA SuccessFits ==
    ASSUME HeapInv, NEW wanted \in WantedSizes, wanted # 0,
           Allocating!Succeeds(wanted)
    PROVE  \E a \in Address :
              /\ a + Allocating!Rounded(wanted) <= pxEnd
              /\ \A b \in allocated :
                    Allocating!Extent(b) \cap
                        (a..a + Allocating!Rounded(wanted) - 1) = {}
<1>1. PICK size, blocks : /\ size = Allocating!Rounded(wanted)
                          /\ blocks = allocated \cup ToSet(free)
  OBVIOUS
<1>2. /\ xBlockSize \in [Address -> Nat] /\ blocks \in SUBSET Address
      /\ Tiling(xBlockSize, blocks)
      /\ \A b : Allocating!Extent(b) = Bytes(xBlockSize, b)
  BY <1>1, HeapTyped
<1>3. PICK i \in 1..Len(free) : xBlockSize[free[i]] >= size
  BY <1>1 DEF Allocating!Succeeds, Allocating!Fitting
<1>4. PICK a : a = free[i]
  OBVIOUS
<1>5. a \in ToSet(free) /\ a \in blocks /\ a \notin allocated /\ a \in Address
  BY <1>1, <1>3, <1>4, OrderTyped DEF HeapInv, HeapOK
<1>6. size \in Nat /\ a \in Nat /\ xBlockSize[a] \in Nat /\ pxEnd \in Nat
  <2>1. wanted \in Nat /\ wanted > 0
    BY HeapConstants
  <2> QED BY <1>1, <1>2, <1>5, <2>1, RoundedSize, HeapConstants
<1>7. a + size <= pxEnd
  <2>1. a + xBlockSize[a] <= pxEnd
    BY <1>2, <1>5 DEF Tiling
  <2> QED BY <1>3, <1>4, <1>6, <2>1
<1>8. ASSUME NEW b \in allocated PROVE Bytes(xBlockSize, b) \cap (a..a + size - 1) = {}
  <2>1. Bytes(xBlockSize, b) \cap Bytes(xBlockSize, a) = {}
    BY <1>1, <1>2, <1>5, TilesApart
  <2>2. a..a + size - 1 \subseteq Bytes(xBlockSize, a)
    BY <1>3, <1>4, <1>6 DEF Bytes
  <2> QED BY <2>1, <2>2
<1> QED BY <1>1, <1>2, <1>5, <1>7, <1>8

\* Bytes in a row that no caller has are of one free block, for those that touch
\* are one.
LEMMA FitSucceeds ==
    ASSUME HeapInv, NEW wanted \in WantedSizes, wanted # 0, NEW a \in Address,
           a + Allocating!Rounded(wanted) <= pxEnd,
           \A b \in allocated :
              Allocating!Extent(b) \cap (a..a + Allocating!Rounded(wanted) - 1) = {}
    PROVE  Allocating!Succeeds(wanted)
<1>1. PICK size, blocks : /\ size = Allocating!Rounded(wanted)
                          /\ blocks = allocated \cup ToSet(free)
  OBVIOUS
<1>2. /\ xBlockSize \in [Address -> Nat] /\ blocks \in SUBSET Address
      /\ Tiling(xBlockSize, blocks)
      /\ \A b : Allocating!Extent(b) = Bytes(xBlockSize, b)
  BY <1>1, HeapTyped
<1>3. /\ Len(free) \in Nat /\ InOrder(free)
      /\ \A i \in 1..Len(free) : free[i] \in ToSet(free)
      /\ \A x : x \in ToSet(free) <=> \E i \in 1..Len(free) : free[i] = x
      /\ \A i \in Int : ~ Touching(free, xBlockSize, i)
      /\ xFreeBytesRemaining = Cardinality(Covered(xBlockSize, ToSet(free)))
  BY OrderTyped DEF HeapInv, HeapOK
<1>4. wanted \in Nat /\ wanted > 0
  BY HeapConstants
<1>5. size \in Nat /\ size > 0 /\ pxEnd \in Nat /\ Address \subseteq Nat /\ a \in Nat
  BY <1>1, <1>4, RoundedSize, HeapConstants
<1>6. ASSUME NEW x \in a..a + size - 1
      PROVE  \E i \in 1..Len(free) : x \in Bytes(xBlockSize, free[i])
  <2>1. x \in 0..pxEnd - 1
    BY <1>1, <1>5
  <2>2. PICK b \in blocks : x \in Bytes(xBlockSize, b)
    BY <1>2, <2>1 DEF Tiling
  <2>3. b \notin allocated
    BY <1>1, <1>2, <2>2
  <2> QED BY <1>1, <1>3, <2>2, <2>3
<1>7. a \in a..a + size - 1
  BY <1>5
<1>8. PICK p \in 1..Len(free) : a \in Bytes(xBlockSize, free[p])
  BY <1>6, <1>7
<1>9. PICK f, n : f = free[p] /\ n = xBlockSize[f]
  OBVIOUS
<1>10. f \in blocks /\ f \in ToSet(free) /\ f \in Nat /\ n \in Nat /\ f \in Address
  BY <1>1, <1>2, <1>3, <1>5, <1>8, <1>9
<1>11. f <= a /\ a < f + n
  BY <1>5, <1>8, <1>9, <1>10 DEF Bytes
<1>12. a + size <= f + n
  <2> SUFFICES ASSUME f + n < a + size PROVE FALSE
    BY <1>5, <1>10
  <2>1. f + n \in a..a + size - 1
    BY <1>5, <1>10, <1>11
  <2>2. PICK q \in 1..Len(free) : f + n \in Bytes(xBlockSize, free[q])
    BY <1>6, <2>1
  <2>3. PICK g, m : g = free[q] /\ m = xBlockSize[g]
    OBVIOUS
  <2>4. g \in blocks /\ g \in Nat /\ m \in Nat /\ g <= f + n /\ f + n < g + m
    <3>1. g \in ToSet(free)
      BY <1>3, <2>2, <2>3
    <3>2. g \in blocks /\ g \in Address
      BY <1>1, <1>2, <3>1
    <3>3. g \in Nat /\ m \in Nat
      BY <1>2, <1>5, <2>3, <3>2
    <3>4. f + n \in g..g + m - 1
      BY <2>2, <2>3 DEF Bytes
    <3> QED BY <1>10, <3>2, <3>3, <3>4
  <2>5. ~ (g < f)
    <3>1. ASSUME g < f PROVE FALSE
      <4>1. g + m <= f
        BY <1>2, <1>10, <2>3, <2>4, <3>1 DEF Tiling
      <4> QED BY <1>10, <2>4, <4>1
    <3> QED BY <3>1
  <2>6. g # f
    BY <1>9, <1>10, <2>3, <2>4
  <2>7. f < g
    BY <1>10, <2>4, <2>5, <2>6
  <2>8. f + n <= g
    BY <1>2, <1>9, <1>10, <2>4, <2>7 DEF Tiling
  <2>9. f + n = g
    BY <1>10, <2>4, <2>8
  <2>10. p < q
    <3>1. ASSUME q < p PROVE FALSE
      <4>1. g < f
        BY <1>3, <1>9, <2>3, <3>1 DEF InOrder
      <4> QED BY <2>5, <4>1
    <3>2. p # q
      BY <1>9, <2>3, <2>6
    <3> QED BY <1>3, <3>1, <3>2
  <2>11. CASE q = p + 1
    <3>1. Touching(free, xBlockSize, p)
      BY <1>3, <1>9, <2>3, <2>9, <2>11 DEF Touching
    <3> QED BY <1>3, <3>1
  <2>12. CASE p + 1 < q
    <3>1. PICK h : h = free[p + 1]
      OBVIOUS
    <3>2. p + 1 \in 1..Len(free) /\ p < p + 1
      BY <1>3, <2>12
    <3>3. h \in blocks /\ f < h /\ h < g
      BY <1>1, <1>3, <1>9, <2>3, <2>12, <3>1, <3>2 DEF InOrder
    <3>4. h \in Nat /\ f + n <= h
      BY <1>2, <1>5, <1>9, <1>10, <3>3 DEF Tiling
    <3> QED BY <1>10, <2>4, <2>9, <3>3, <3>4
  <2> QED BY <1>3, <2>10, <2>11, <2>12
<1>13. size <= n
  BY <1>5, <1>10, <1>11, <1>12
<1>14. Allocating!Fitting(size) # {}
  BY <1>5, <1>8, <1>9, <1>10, <1>13 DEF Allocating!Fitting
<1>15. size <= xFreeBytesRemaining
  <2>1. PICK X : X = Covered(xBlockSize, ToSet(free))
    OBVIOUS
  <2>2. IsFiniteSet(X) /\ Cardinality(X) \in Nat
    BY <1>1, <1>2, <2>1, CoveredFinite
  <2>3. Bytes(xBlockSize, f) \in SUBSET X
    BY <1>10, <2>1 DEF Covered
  <2>4. Cardinality(Bytes(xBlockSize, f)) = n
    BY <1>2, <1>9, <1>10, BytesCounted
  <2>5. n <= Cardinality(X)
    BY <2>2, <2>3, <2>4, FS_Subset
  <2> QED BY <1>3, <1>5, <1>10, <1>13, <2>1, <2>2, <2>5
<1> QED BY <1>1, <1>4, <1>14, <1>15 DEF Allocating!Succeeds

LEMMA HeapRefuses == HeapInv => Allocating!RefusedOnlyWhenFull
BY SuccessFits, FitSucceeds DEF Allocating!RefusedOnlyWhenFull, Address, pxEnd

-----------------------------------------------------------------------------
LEMMA HeapInductive == Spec => []HeapInv
<1>1. Init => HeapInv
  BY HeapInit DEF Init
<1>2. HeapInv /\ [Next]_vars => HeapInv'
  <2> SUFFICES ASSUME HeapInv, [Next]_vars PROVE HeapInv'
    OBVIOUS
  <2>1. Allocating!Next \/ UNCHANGED heap
    BY DEF Next, vars
  <2>2. Allocating!Next \/ UNCHANGED Allocating!vars
    BY <2>1 DEF heap, Allocating!vars
  <2> QED BY <2>2, HeapNext
<1> QED BY <1>1, <1>2, PTL DEF Spec

\* The blocks, allocated and free, tile the heap, and xFreeBytesRemaining counts
\* the free bytes: no split and no merge loses or doubles one.
THEOREM HeapIsTiled == Spec => []BlocksTile
<1>1. HeapInv => BlocksTile
  BY HeapTiles DEF BlocksTile
<1> QED BY <1>1, HeapInductive, PTL

\* pvPortMalloc refuses a request only when no bytes in a row that no caller
\* has would hold it, whatever was allocated and freed before.
THEOREM RefusalsAreFull == Spec => []RefusedOnlyWhenFull
<1>1. HeapInv => RefusedOnlyWhenFull
  BY HeapRefuses DEF RefusedOnlyWhenFull
<1> QED BY <1>1, HeapInductive, PTL

-----------------------------------------------------------------------------
(***************************************************************************)
(* The timers.  A time is a multiple of TICKS, its base, and a count.      *)
(***************************************************************************)
Count(x) == x % TICKS
Base(x) == x - (x % TICKS)

\* The operators of Timers, and the lemmas about them.
ListFacts == INSTANCE ListLemmas

LEMMA TimerOperators ==
    /\ \A s : Expiring!ToSet(s) = ToSet(s) /\ ListFacts!ToSet(s) = ToSet(s)
    /\ \A s, x : Expiring!RemoveFirst(s, x) = ListFacts!RemoveFirst(s, x)
    /\ \A s, x, v : Expiring!vListInsert(s, x, v) = ListFacts!vListInsert(s, x, v)
    /\ \A x : Expiring!Count(x) = Count(x)
<1>1. \A s : Expiring!ToSet(s) = ToSet(s) /\ ListFacts!ToSet(s) = ToSet(s)
  BY DEF Expiring!ToSet, ListFacts!ToSet, ToSet
<1>2. \A s, x : Expiring!RemoveFirst(s, x) = ListFacts!RemoveFirst(s, x)
  BY Zenon
     DEF Expiring!RemoveFirst, ListFacts!RemoveFirst, Expiring!RemoveAt,
         ListFacts!RemoveAt, Expiring!SelectInSeq, ListFacts!SelectInSeq,
         Expiring!Min, ListFacts!Min
<1>3. \A s, x, v : Expiring!vListInsert(s, x, v) = ListFacts!vListInsert(s, x, v)
  BY DEF Expiring!vListInsert, ListFacts!vListInsert, Expiring!InsertAt,
         ListFacts!InsertAt, Expiring!InsertPosition, ListFacts!InsertPosition,
         Expiring!Min, ListFacts!Min
<1>4. \A x : Expiring!Count(x) = Count(x)
  BY DEF Expiring!Count, Count
<1> QED BY <1>1, <1>2, <1>3, <1>4

LEMMA TimerConstants ==
    /\ TICKS \in Nat \ {0} /\ MaxLag \in Nat
    /\ \A p \in Period : p \in Nat \ {0} /\ p + MaxLag < TICKS
BY TimersAssumption, SizeAssumption

LEMMA Counts ==
    ASSUME NEW x \in Int
    PROVE  /\ Count(x) \in 0..TICKS - 1 /\ Base(x) \in Int
           /\ x = Base(x) + Count(x)
<1>1. Count(x) \in 0..TICKS - 1
  BY TimerConstants, Divided DEF Count
<1> QED BY <1>1, TimerConstants DEF Base, Count

\* Within TICKS the count goes up, or it overflows once.
LEMMA CountsOverflow ==
    ASSUME NEW x \in Int, NEW y \in Int, x <= y, y < x + TICKS
    PROVE  \/ Count(x) <= Count(y) /\ Base(y) = Base(x)
           \/ Count(y) < Count(x) /\ Base(y) = Base(x) + TICKS
<1> DEFINE T == TICKS
<1>0. T \in Nat \ {0}
  BY TimerConstants
<1>1. PICK j, a, k, b : j = x \div T /\ a = x % T /\ k = y \div T /\ b = y % T
  OBVIOUS
<1>2. /\ j \in Int /\ a \in 0..T - 1 /\ x = T * j + a
      /\ k \in Int /\ b \in 0..T - 1 /\ y = T * k + b
  BY <1>0, <1>1, Divided
<1>3. T * (k - j) = (y - x) + (a - b) /\ k - j \in Int
  BY <1>0, <1>2
<1>4. /\ k - j >= 2 => T * (k - j) >= T + T
      /\ k - j <= -1 => T * (k - j) <= -T
  BY <1>0, <1>2
<1>5. k - j = 0 \/ k - j = 1
  BY <1>0, <1>2, <1>3, <1>4
<1>6. CASE k - j = 0
  <2>1. y - x = b - a
    BY <1>0, <1>2, <1>3, <1>6
  <2> QED BY <1>0, <1>1, <1>2, <2>1 DEF Count, Base
<1>7. CASE k - j = 1
  <2>1. y - x = T + (b - a)
    BY <1>0, <1>2, <1>3, <1>7
  <2> QED BY <1>0, <1>1, <1>2, <2>1 DEF Count, Base
<1> QED BY <1>5, <1>6, <1>7

\* The count of a time that is less than TICKS is that time.
LEMMA CountOfFew ==
    ASSUME NEW d \in 0..TICKS - 1
    PROVE  Count(d) = d
<1>1. d \in Int /\ 0 \in Int /\ d = TICKS * 0 + d
  BY TimerConstants
<1> QED BY <1>1, RemainderIs, TimerConstants DEF Count

\* prvInsertTimerInActiveList tells, by the counts, whether the time has come, and
\* on which side of the overflow it is.
LEMMA PlaceIsRight ==
    ASSUME NEW t, NEW time \in Nat, NEW p \in Period, NEW next, next = time + p,
           NEW last \in Nat, time <= last, last < time + TICKS,
           xLastTime' = last, xTimerPeriodInTicks'[t] = p
    PROVE  LET place == Expiring!Place(t, next, time)
           IN  \/ place = "expired" /\ next <= last
               \/ place = "current" /\ last < next /\ Base(next) = Base(last)
               \/ place = "overflow" /\ last < next /\ Base(next) = Base(last) + TICKS
<1>1. p \in Nat \ {0} /\ p < TICKS /\ next \in Nat /\ TICKS \in Nat \ {0}
  BY TimerConstants
<1>2. Count(last - time) = last - time
  BY <1>1, CountOfFew
<1>3. /\ Count(time) \in 0..TICKS - 1 /\ time = Base(time) + Count(time)
      /\ Count(last) \in 0..TICKS - 1 /\ last = Base(last) + Count(last)
      /\ Count(next) \in 0..TICKS - 1 /\ next = Base(next) + Count(next)
      /\ Base(time) \in Int /\ Base(last) \in Int /\ Base(next) \in Int
  BY <1>1, Counts
<1>4. \/ Count(time) <= Count(last) /\ Base(last) = Base(time)
      \/ Count(last) < Count(time) /\ Base(last) = Base(time) + TICKS
  BY <1>1, CountsOverflow
<1>5. \/ Count(time) <= Count(next) /\ Base(next) = Base(time)
      \/ Count(next) < Count(time) /\ Base(next) = Base(time) + TICKS
  BY <1>1, CountsOverflow
<1>6. Expiring!Place(t, next, time) =
          IF Count(next) <= Count(last)
          THEN IF last - time >= p THEN "expired" ELSE "overflow"
          ELSE IF Count(last) < Count(time) /\ Count(next) >= Count(time)
          THEN "expired" ELSE "current"
  BY <1>2, TimerOperators DEF Expiring!Place
<1> HIDE DEF Count, Base
<1>7. CASE Count(next) <= Count(last)
  BY <1>1, <1>3, <1>4, <1>5, <1>6, <1>7
<1>8. CASE ~ (Count(next) <= Count(last))
  BY <1>1, <1>3, <1>4, <1>5, <1>6, <1>8
<1> QED BY <1>7, <1>8

-----------------------------------------------------------------------------
(***************************************************************************)
(* The lists of active timers: those before the overflow, whose base is    *)
(* first, and those after it.                                              *)
(***************************************************************************)
TimerList(s) == ListFacts!IsList(s, Timer)

CountOf(times) == [t \in Timer |-> Count(times[t])]

ListsFit(near, far, times, first) ==
    /\ TimerList(near) /\ TimerList(far) /\ ToSet(near) \cap ToSet(far) = {}
    /\ times \in [Timer -> Nat]
    /\ ListFacts!Sorted(near, CountOf(times)) /\ ListFacts!Sorted(far, CountOf(times))
    /\ \A t \in ToSet(near) : Base(times[t]) = first
    /\ \A t \in ToSet(far) : Base(times[t]) = first + TICKS

LEMMA MembersAreTimers ==
    ASSUME NEW s, TimerList(s)
    PROVE  s \in Seq(Timer) /\ ToSet(s) \subseteq Timer
BY ToSetByIndex DEF TimerList, ListFacts!IsList

LEMMA CountsTyped ==
    ASSUME NEW times \in [Timer -> Nat]
    PROVE  \A t \in Timer : CountOf(times)[t] \in Int
<1> SUFFICES ASSUME NEW t \in Timer PROVE CountOf(times)[t] \in Int
  OBVIOUS
<1>1. Count(times[t]) \in Int
  BY Counts, TimerConstants
<1> QED BY <1>1 DEF CountOf

\* A timer that is in neither list is given another time.
LEMMA OtherTime ==
    ASSUME NEW near, NEW far, NEW times, NEW first, ListsFit(near, far, times, first),
           NEW t \in Timer, t \notin ToSet(near), t \notin ToSet(far), NEW n \in Nat
    PROVE  ListsFit(near, far, [times EXCEPT ![t] = n], first)
<1> DEFINE new == [times EXCEPT ![t] = n]
<1>1. /\ new \in [Timer -> Nat] /\ new[t] = n
      /\ \A u \in Timer : u # t => new[u] = times[u]
  BY DEF ListsFit
<1>2. /\ near \in Seq(Timer) /\ ToSet(near) \subseteq Timer
      /\ far \in Seq(Timer) /\ ToSet(far) \subseteq Timer
  BY MembersAreTimers DEF ListsFit
<1> HIDE DEF new
<1>3. \A u \in ToSet(near) \cup ToSet(far) :
          new[u] = times[u] /\ CountOf(new)[u] = CountOf(times)[u]
  BY <1>1, <1>2 DEF CountOf
<1>4. /\ ListFacts!Sorted(near, CountOf(times)) /\ ListFacts!Sorted(far, CountOf(times))
      /\ \A u \in ListFacts!ToSet(near) : CountOf(new)[u] = CountOf(times)[u]
      /\ \A u \in ListFacts!ToSet(far) : CountOf(new)[u] = CountOf(times)[u]
  BY <1>3, TimerOperators DEF ListsFit
<1>5. ListFacts!Sorted(near, CountOf(new)) /\ ListFacts!Sorted(far, CountOf(new))
  BY <1>2, <1>4, ListFacts!SameSorted
<1> QED BY <1>1, <1>3, <1>5 DEF ListsFit, new

\* A timer that is in neither list joins one.
LEMMA Joins ==
    ASSUME NEW near, NEW far, NEW times, NEW first, ListsFit(near, far, times, first),
           NEW t \in Timer, t \notin ToSet(near), t \notin ToSet(far)
    PROVE  /\ LET s == ListFacts!vListInsert(near, t, CountOf(times))
              IN  /\ ToSet(s) = ToSet(near) \cup {t}
                  /\ Base(times[t]) = first => ListsFit(s, far, times, first)
           /\ LET s == ListFacts!vListInsert(far, t, CountOf(times))
              IN  /\ ToSet(s) = ToSet(far) \cup {t}
                  /\ Base(times[t]) = first + TICKS => ListsFit(near, s, times, first)
<1>0. \A s : TimerList(s) /\ t \notin ToSet(s) /\ ListFacts!Sorted(s, CountOf(times)) =>
          LET r == ListFacts!vListInsert(s, t, CountOf(times))
          IN  /\ TimerList(r) /\ ToSet(r) = ToSet(s) \cup {t}
              /\ ListFacts!Sorted(r, CountOf(times))
  <2> SUFFICES ASSUME NEW s, TimerList(s), t \notin ToSet(s),
                      ListFacts!Sorted(s, CountOf(times))
               PROVE  LET r == ListFacts!vListInsert(s, t, CountOf(times))
                      IN  /\ TimerList(r) /\ ToSet(r) = ToSet(s) \cup {t}
                          /\ ListFacts!Sorted(r, CountOf(times))
    OBVIOUS
  <2>1. t \notin ListFacts!ToSet(s) /\ ListFacts!IsList(s, Timer)
    BY TimerOperators DEF TimerList
  <2>2. \A u \in Timer : CountOf(times)[u] \in Int
    BY CountsTyped DEF ListsFit
  <2>3. /\ ListFacts!IsList(ListFacts!vListInsert(s, t, CountOf(times)), Timer)
        /\ ListFacts!ToSet(ListFacts!vListInsert(s, t, CountOf(times)))
              = ListFacts!ToSet(s) \cup {t}
    BY <2>1, ListFacts!vListInsertList
  <2>4. ListFacts!Sorted(ListFacts!vListInsert(s, t, CountOf(times)), CountOf(times))
    BY <2>1, <2>2, ListFacts!vListInsertSorted
  <2> QED BY <2>3, <2>4, TimerOperators DEF TimerList
<1> DEFINE inNear == ListFacts!vListInsert(near, t, CountOf(times))
           inFar == ListFacts!vListInsert(far, t, CountOf(times))
<1>1. /\ TimerList(inNear) /\ ToSet(inNear) = ToSet(near) \cup {t}
      /\ ListFacts!Sorted(inNear, CountOf(times))
  BY <1>0 DEF ListsFit
<1>2. /\ TimerList(inFar) /\ ToSet(inFar) = ToSet(far) \cup {t}
      /\ ListFacts!Sorted(inFar, CountOf(times))
  BY <1>0 DEF ListsFit
<1> HIDE DEF inNear, inFar
<1>3. Base(times[t]) = first => ListsFit(inNear, far, times, first)
  BY <1>1 DEF ListsFit
<1>4. Base(times[t]) = first + TICKS => ListsFit(near, inFar, times, first)
  BY <1>2 DEF ListsFit
<1> QED BY <1>1, <1>2, <1>3, <1>4 DEF inNear, inFar

\* The first timer leaves its list, and no other expires before it.
LEMMA FirstLeaves ==
    ASSUME NEW near, NEW far, NEW times, NEW first, ListsFit(near, far, times, first),
           near # <<>>
    PROVE  /\ ListsFit(Tail(near), far, times, first)
           /\ Head(near) \in ToSet(near) /\ Head(near) \in Timer
           /\ Head(near) \notin ToSet(far)
           /\ ToSet(Tail(near)) = ToSet(near) \ {Head(near)}
           /\ \A t \in ToSet(near) : times[Head(near)] <= times[t]
<1>1. /\ near \in Seq(Timer) /\ ToSet(near) \subseteq Timer
      /\ ListFacts!IsList(near, Timer) /\ ListFacts!Sorted(near, CountOf(times))
      /\ \A t \in Timer : CountOf(times)[t] \in Int
  BY MembersAreTimers, CountsTyped DEF ListsFit, TimerList
<1>2. /\ TimerList(Tail(near)) /\ Head(near) \in ToSet(near)
      /\ ToSet(Tail(near)) = ToSet(near) \ {Head(near)}
  BY <1>1, ListFacts!TailList, TimerOperators DEF TimerList
<1>3. ListFacts!Sorted(Tail(near), CountOf(times))
  BY <1>1, ListFacts!TailSorted
<1>4. \A t \in ToSet(near) : CountOf(times)[Head(near)] <= CountOf(times)[t]
  BY <1>1, ListFacts!HeadIsLeast, TimerOperators
<1>5. ASSUME NEW t \in ToSet(near) PROVE times[Head(near)] <= times[t]
  <2>1. PICK x, y : x = times[Head(near)] /\ y = times[t]
    OBVIOUS
  <2> DEFINE h == Head(near)
  <2>0. h \in Timer /\ t \in Timer /\ h \in ToSet(near)
    BY <1>1, <1>2
  <2> HIDE DEF h
  <2>5. x \in Int /\ y \in Int /\ Base(x) = first /\ Base(y) = first
    BY <2>0, <2>1 DEF ListsFit, h
  <2>6. CountOf(times)[h] = Count(x) /\ CountOf(times)[t] = Count(y)
    BY <2>0, <2>1 DEF CountOf, h
  <2>2. x \in Int /\ y \in Int /\ Count(x) <= Count(y) /\ Base(x) = first /\ Base(y) = first
    BY <1>4, <2>5, <2>6 DEF h
  <2>3. x = Base(x) + Count(x) /\ y = Base(y) + Count(y)
    BY <2>2, Counts
  <2>4. Count(x) \in Int /\ Count(y) \in Int /\ Base(x) \in Int
    BY <2>2, Counts, TimerConstants
  <2> QED BY <2>1, <2>2, <2>3, <2>4
<1> QED BY <1>1, <1>2, <1>3, <1>5 DEF ListsFit

\* A timer leaves the list that it may be in.
LEMMA Leaves ==
    ASSUME NEW near, NEW far, NEW times, NEW first, ListsFit(near, far, times, first),
           NEW t
    PROVE  LET n == ListFacts!RemoveFirst(near, t)
               f == ListFacts!RemoveFirst(far, t)
           IN  /\ ListsFit(n, f, times, first)
               /\ ToSet(n) = ToSet(near) \ {t} /\ ToSet(f) = ToSet(far) \ {t}
<1>0. \A s : TimerList(s) /\ ListFacts!Sorted(s, CountOf(times)) =>
          LET r == ListFacts!RemoveFirst(s, t)
          IN  /\ TimerList(r) /\ ToSet(r) = ToSet(s) \ {t}
              /\ ListFacts!Sorted(r, CountOf(times))
  <2> SUFFICES ASSUME NEW s, TimerList(s), ListFacts!Sorted(s, CountOf(times))
               PROVE  LET r == ListFacts!RemoveFirst(s, t)
                      IN  /\ TimerList(r) /\ ToSet(r) = ToSet(s) \ {t}
                          /\ ListFacts!Sorted(r, CountOf(times))
    OBVIOUS
  <2>1. s \in Seq(Timer) /\ ListFacts!IsList(s, Timer)
    BY MembersAreTimers DEF TimerList
  <2>2. /\ ListFacts!IsList(ListFacts!RemoveFirst(s, t), Timer)
        /\ ListFacts!ToSet(ListFacts!RemoveFirst(s, t)) = ListFacts!ToSet(s) \ {t}
    BY <2>1, ListFacts!RemoveFirstList
  <2>3. ListFacts!Sorted(ListFacts!RemoveFirst(s, t), CountOf(times))
    BY <2>1, ListFacts!RemoveFirstSorted
  <2> QED BY <2>2, <2>3, TimerOperators DEF TimerList
<1> DEFINE n == ListFacts!RemoveFirst(near, t)
           f == ListFacts!RemoveFirst(far, t)
<1>1. /\ TimerList(n) /\ ToSet(n) = ToSet(near) \ {t}
      /\ ListFacts!Sorted(n, CountOf(times))
      /\ TimerList(f) /\ ToSet(f) = ToSet(far) \ {t}
      /\ ListFacts!Sorted(f, CountOf(times))
  BY <1>0 DEF ListsFit
<1> HIDE DEF n, f
<1>2. ListsFit(n, f, times, first)
  BY <1>1 DEF ListsFit
<1> QED BY <1>1, <1>2 DEF n, f

-----------------------------------------------------------------------------
(***************************************************************************)
(* The commands on their way, sent between two times.                      *)
(***************************************************************************)
TimerMessage == [id : {"START", "STOP", "CHANGE_PERIOD", "RESTART"}, timer : Timer,
                 time : Nat, value : Period \cup {NULL}]

SentWithin(m, from, to) ==
    /\ m \in TimerMessage
    /\ from <= m.time /\ m.time <= to
    /\ m.id = "CHANGE_PERIOD" => m.value \in Period

QueueFits(q, from, to) ==
    /\ q \in Seq(TimerMessage)
    /\ \A i \in 1..Len(q) : SentWithin(q[i], from, to)

\* A command of t, sent no later than a time, is on its way.
Coming(q, t, time) == \E i \in 1..Len(q) : q[i].timer = t /\ q[i].time <= time

LEMMA CommandSent ==
    ASSUME NEW q, NEW from, NEW to, QueueFits(q, from, to), NEW m, SentWithin(m, from, to)
    PROVE  /\ QueueFits(Append(q, m), from, to)
           /\ \A t, time : Coming(q, t, time) => Coming(Append(q, m), t, time)
           /\ \A time : m.time <= time => Coming(Append(q, m), m.timer, time)
<1> DEFINE r == Append(q, m)
<1>1. q \in Seq(TimerMessage) /\ m \in TimerMessage
  BY DEF QueueFits, SentWithin
<1>2. /\ r \in Seq(TimerMessage) /\ Len(q) \in Nat /\ Len(r) = Len(q) + 1
      /\ \A i \in 1..Len(q) : r[i] = q[i]
      /\ r[Len(q) + 1] = m
  BY <1>1, AppendProperties, LenProperties
<1> HIDE DEF r
<1>3. 1..Len(q) \subseteq 1..Len(r) /\ Len(q) + 1 \in 1..Len(r)
  BY <1>2
<1>4. QueueFits(r, from, to)
  <2> SUFFICES ASSUME NEW i \in 1..Len(r) PROVE SentWithin(r[i], from, to)
    BY <1>2 DEF QueueFits
  <2>1. i \in 1..Len(q) \/ i = Len(q) + 1
    BY <1>2
  <2>2. CASE i \in 1..Len(q)
    BY <1>2, <2>2 DEF QueueFits
  <2>3. CASE i = Len(q) + 1
    BY <1>2, <2>3
  <2> QED BY <2>1, <2>2, <2>3
<1>5. \A t, time : Coming(q, t, time) => Coming(r, t, time)
  BY <1>2, <1>3 DEF Coming
<1>6. \A time : m.time <= time => Coming(r, m.timer, time)
  BY <1>2, <1>3 DEF Coming
<1> QED BY <1>4, <1>5, <1>6 DEF r

LEMMA CommandTaken ==
    ASSUME NEW q, NEW from, NEW to, QueueFits(q, from, to), q # <<>>
    PROVE  /\ QueueFits(Tail(q), from, to)
           /\ SentWithin(Head(q), from, to)
           /\ \A t, time : Coming(q, t, time) /\ t # Head(q).timer =>
                 Coming(Tail(q), t, time)
<1> DEFINE r == Tail(q)
<1>1. q \in Seq(TimerMessage) /\ Len(q) \in Nat \ {0}
  BY LenProperties, EmptySeq DEF QueueFits
<1>2. /\ r \in Seq(TimerMessage) /\ Len(r) = Len(q) - 1 /\ Head(q) = q[1]
      /\ \A i \in 1..Len(q) - 1 : r[i] = q[i + 1]
  BY <1>1, HeadTailProperties
<1> HIDE DEF r
<1>3. QueueFits(r, from, to)
  <2> SUFFICES ASSUME NEW i \in 1..Len(r) PROVE SentWithin(r[i], from, to)
    BY <1>2 DEF QueueFits
  <2>1. i + 1 \in 1..Len(q) /\ r[i] = q[i + 1]
    BY <1>1, <1>2
  <2> QED BY <2>1 DEF QueueFits
<1>4. SentWithin(Head(q), from, to)
  BY <1>1, <1>2 DEF QueueFits
<1>5. ASSUME NEW t, NEW time, Coming(q, t, time), t # Head(q).timer
      PROVE  Coming(r, t, time)
  <2>1. PICK i \in 1..Len(q) : q[i].timer = t /\ q[i].time <= time
    BY <1>5 DEF Coming
  <2>2. i # 1
    BY <1>2, <1>5, <2>1
  <2>3. i - 1 \in 1..Len(r) /\ r[i - 1] = q[i]
    BY <1>1, <1>2, <2>2
  <2> QED BY <2>1, <2>3 DEF Coming
<1> QED BY <1>3, <1>4, <1>5 DEF r

\* The bounds may be wider.
LEMMA WithinMore ==
    ASSUME NEW from \in Int, NEW to \in Int, NEW before \in Int, NEW after \in Int,
           before <= from, to <= after
    PROVE  /\ \A m : SentWithin(m, from, to) => SentWithin(m, before, after)
           /\ \A q : QueueFits(q, from, to) => QueueFits(q, before, after)
<1>1. ASSUME NEW m, SentWithin(m, from, to) PROVE SentWithin(m, before, after)
  <2>1. m.time \in Nat
    BY <1>1 DEF SentWithin, TimerMessage
  <2> QED BY <1>1, <2>1 DEF SentWithin
<1> QED BY <1>1 DEF QueueFits

-----------------------------------------------------------------------------
(***************************************************************************)
(* The invariant of Timers.  The daemon saw all that came due before       *)
(* now - lag.                                                              *)
(***************************************************************************)
Active == ToSet(current) \cup ToSet(overflow)

Since == now - lag

ClockFits ==
    /\ now \in Nat /\ xLastTime \in Nat /\ xLastTime <= now /\ wake \in Int
    /\ lag \in 0..MaxLag /\ lag <= now
    /\ ~ Expiring!Awake => lag = 0
    /\ timer_pc \in {"process", "switch"} => Since <= xLastTime
    /\ xTimerPeriodInTicks \in [Timer -> Period]
    /\ due \in [Timer -> Nat \cup {NULL}]

\* The command that is processed, and its timer, which no list has.
TakenFits ==
    /\ timer_pc \in {"look", "switch", "blocked", "commands", "process"}
    /\ timer_pc \in {"look", "blocked", "commands"} => xMessage = NULL
    /\ timer_pc = "process" \/ (timer_pc = "switch" /\ xMessage # NULL) =>
          SentWithin(xMessage, Since, xLastTime) /\ xMessage.timer \notin Active

\* Until the lists are switched they are those of the time before the overflow.
FirstBase == IF timer_pc = "switch" THEN Base(xLastTime) - TICKS ELSE Base(xLastTime)

\* A timer in a list expires when it is due, which the daemon has not missed, and
\* before a daemon this late could take its count for another.
TimesFit ==
    \A t \in Active :
        /\ Since <= expiry[t] /\ expiry[t] + MaxLag < xLastTime + TICKS
        /\ due[t] = expiry[t]
        /\ timer_pc = "blocked" => wake <= expiry[t]

DueFits == \A t \in Timer : due[t] # NULL => t \in Active \/ Coming(xTimerQueue, t, due[t])

TimersFit ==
    /\ ClockFits /\ TakenFits /\ TimesFit /\ DueFits
    /\ QueueFits(xTimerQueue, Since, now)
    /\ ListsFit(current, overflow, expiry, FirstBase)

TimersInv == ~ early /\ (~ asserted => TimersFit)

LEMMA TimersInit == Expiring!Init => TimersInv
<1> SUFFICES ASSUME Expiring!Init PROVE ~ early /\ TimersFit
  BY DEF TimersInv
<1>1. /\ now = 0 /\ xTimerPeriodInTicks \in [Timer -> Period] /\ current = <<>>
      /\ overflow = <<>> /\ expiry = [t \in Timer |-> 0] /\ xTimerQueue = <<>>
      /\ timer_pc = "look" /\ xLastTime = 0 /\ xMessage = NULL /\ wake = 0 /\ lag = 0
      /\ due = [t \in Timer |-> NULL] /\ ~ early
  BY DEF Expiring!Init
<1>2. /\ ListFacts!IsList(<<>>, Timer) /\ ToSet(<<>>) = {}
  BY ListFacts!EmptyList, TimerOperators
<1>3. Active = {}
  BY <1>1, <1>2 DEF Active
<1>4. ListsFit(current, overflow, expiry, FirstBase)
  BY <1>1, <1>2 DEF ListsFit, TimerList, ListFacts!Sorted
<1>5. ClockFits /\ TakenFits /\ TimesFit /\ DueFits
  BY <1>1, <1>3, TimerConstants DEF ClockFits, TakenFits, TimesFit, DueFits,
     Expiring!Awake, Since
<1>6. QueueFits(xTimerQueue, Since, now)
  BY <1>1 DEF QueueFits
<1> QED BY <1>1, <1>4, <1>5, <1>6 DEF TimersFit

\* The counts tell the daemon whether there was an overflow since it looked.
LEMMA LookIsRight ==
    ASSUME TimersFit, timer_pc # "switch"
    PROVE  ListsFit(current, overflow, expiry,
                    IF Expiring!Overflowed THEN Base(now) - TICKS ELSE Base(now))
<1> DEFINE first == IF Expiring!Overflowed THEN Base(now) - TICKS ELSE Base(now)
<1>1. ListsFit(current, overflow, expiry, Base(xLastTime)) /\ ClockFits
  BY DEF TimersFit, FirstBase
<1>2. CASE Active = {}
  <2>1. ToSet(current) = {} /\ ToSet(overflow) = {}
    BY <1>2 DEF Active
  <2> HIDE DEF first
  <2>2. ListsFit(current, overflow, expiry, first)
    BY <1>1, <2>1 DEF ListsFit
  <2> QED BY <2>2 DEF first
<1>3. ASSUME NEW t \in Active PROVE first = Base(xLastTime)
  <2>1. /\ now - lag <= expiry[t] /\ expiry[t] + MaxLag < xLastTime + TICKS
        /\ expiry[t] \in Nat
    <3>1. t \in Timer
      BY <1>1, MembersAreTimers DEF Active, ListsFit
    <3> QED BY <1>1, <3>1 DEF TimersFit, TimesFit, ListsFit, Since
  <2>2. /\ now \in Nat /\ xLastTime \in Nat /\ xLastTime <= now /\ lag \in 0..MaxLag
        /\ MaxLag \in Nat /\ TICKS \in Nat
    BY <1>1, TimerConstants DEF ClockFits
  <2>3. now < xLastTime + TICKS
    BY <2>1, <2>2
  <2>4. \/ Count(xLastTime) <= Count(now) /\ Base(now) = Base(xLastTime)
        \/ Count(now) < Count(xLastTime) /\ Base(now) = Base(xLastTime) + TICKS
    BY <2>2, <2>3, CountsOverflow
  <2>5. /\ Count(now) \in Int /\ Count(xLastTime) \in Int /\ Base(xLastTime) \in Int
    BY <2>2, Counts, TimerConstants
  <2>6. Expiring!Overflowed <=> Count(now) < Count(xLastTime)
    BY TimerOperators DEF Expiring!Overflowed
  <2> HIDE DEF Count, Base
  <2> QED BY <2>2, <2>4, <2>5, <2>6
<1> QED BY <1>1, <1>2, <1>3

\* What prvInsertTimerInActiveList leaves, for a timer in neither list.
LEMMA Inserts ==
    ASSUME NEW near, NEW far, NEW first, ListsFit(near, far, expiry, first),
           NEW t \in Timer, t \notin ToSet(near), t \notin ToSet(far),
           NEW next \in Nat, NEW place, Expiring!Insert(t, next, place, near, far),
           place = "current" => Base(next) = first,
           place = "overflow" => Base(next) = first + TICKS
    PROVE  /\ ListsFit(current', overflow', expiry', first)
           /\ Active' = (ToSet(near) \cup ToSet(far)) \cup
                           (IF place \in {"current", "overflow"} THEN {t} ELSE {})
           /\ \A u \in Timer : u # t => expiry'[u] = expiry[u]
           /\ place \in {"current", "overflow"} => expiry'[t] = next
<1> DEFINE n == IF place \in {"current", "overflow"} THEN next ELSE 0
           new == [expiry EXCEPT ![t] = n]
<1>1. n \in Nat
  OBVIOUS
<1>2. expiry \in [Timer -> Nat]
  BY DEF ListsFit
<1>3. new[t] = n /\ \A u \in Timer : u # t => new[u] = expiry[u]
  BY <1>2
<1>4. ListsFit(near, far, new, first)
  BY <1>1, OtherTime
<1>5. expiry' = new
  BY DEF Expiring!Insert
<1>6. Expiring!Value = CountOf(new)
  <2> HIDE DEF new
  <2> QED BY <1>5 DEF Expiring!Value, CountOf, Expiring!Count, Count
<1>7. /\ current' = IF place = "current"
                    THEN ListFacts!vListInsert(near, t, CountOf(new)) ELSE near
      /\ overflow' = IF place = "overflow"
                     THEN ListFacts!vListInsert(far, t, CountOf(new)) ELSE far
  BY <1>6, TimerOperators DEF Expiring!Insert
<1> HIDE DEF new
<1>8. /\ LET s == ListFacts!vListInsert(near, t, CountOf(new))
         IN  /\ ToSet(s) = ToSet(near) \cup {t}
             /\ Base(new[t]) = first => ListsFit(s, far, new, first)
      /\ LET s == ListFacts!vListInsert(far, t, CountOf(new))
         IN  /\ ToSet(s) = ToSet(far) \cup {t}
             /\ Base(new[t]) = first + TICKS => ListsFit(near, s, new, first)
  BY <1>4, Joins
<1>9. CASE place = "current"
  BY <1>3, <1>5, <1>7, <1>8, <1>9 DEF Active
<1>10. CASE place = "overflow"
  BY <1>3, <1>5, <1>7, <1>8, <1>10 DEF Active
<1>11. CASE place \notin {"current", "overflow"}
  BY <1>3, <1>4, <1>5, <1>7, <1>11 DEF Active
<1> QED BY <1>9, <1>10, <1>11

-----------------------------------------------------------------------------
(***************************************************************************)
(* Time and the commands.                                                  *)
(***************************************************************************)
LEMMA TimersTick ==
    ASSUME TimersFit, ~ early, Expiring!Tick
    PROVE  TimersInv'
<1>1. /\ Expiring!Awake => lag < MaxLag
      /\ now' = now + 1 /\ lag' = IF Expiring!Awake THEN lag + 1 ELSE 0
      /\ UNCHANGED <<xTimerPeriodInTicks, current, overflow, expiry, xTimerQueue, timer_pc,
                     xLastTime, xMessage, wake, early, due>>
  BY DEF Expiring!Tick, Expiring!lists, Expiring!commands
<1>2. ClockFits /\ TakenFits /\ TimesFit /\ QueueFits(xTimerQueue, Since, now) /\ DueFits
  BY DEF TimersFit
<1>3. Active' = Active /\ FirstBase' = FirstBase
  BY <1>1 DEF Active, FirstBase
<1>4. Since \in Int /\ now \in Nat /\ lag \in Nat /\ MaxLag \in Nat
  BY <1>2, TimerConstants DEF ClockFits, Since
<1>5. Expiring!Awake => Since' = Since
  BY <1>1, <1>4 DEF Since
<1>6. ~ Expiring!Awake => /\ timer_pc = "blocked" /\ xTimerQueue = <<>> /\ now < wake
                          /\ Since' = now + 1
  BY <1>1, <1>2, <1>4 DEF Expiring!Awake, Since, ClockFits
<1>7. ClockFits'
  <2>1. Expiring!Awake => Expiring!Awake'
    BY <1>1, <1>2, <1>4 DEF Expiring!Awake, ClockFits
  <2>2. timer_pc \in {"process", "switch"} => Expiring!Awake
    BY DEF Expiring!Awake
  <2>3. lag' \in 0..MaxLag /\ lag' <= now' /\ (~ Expiring!Awake' => lag' = 0)
    BY <1>1, <1>2, <1>4, <2>1 DEF ClockFits
  <2>4. now' \in Nat /\ xLastTime' <= now'
    BY <1>1, <1>2 DEF ClockFits
  <2> QED BY <1>1, <1>2, <1>5, <2>2, <2>3, <2>4 DEF ClockFits
<1>8. TakenFits'
  BY <1>1, <1>2, <1>3, <1>5, <1>6 DEF TakenFits
<1>9. TimesFit'
  <2> SUFFICES ASSUME NEW t \in Active
               PROVE  Since' <= expiry[t]
    BY <1>1, <1>2, <1>3 DEF TimesFit
  <2>1. t \in Timer /\ expiry[t] \in Nat
    BY MembersAreTimers DEF TimersFit, ListsFit, Active
  <2>2. CASE Expiring!Awake
    BY <1>2, <1>5, <2>2 DEF TimesFit
  <2>3. CASE ~ Expiring!Awake
    <3>1. now < wake /\ wake <= expiry[t] /\ Since' = now + 1 /\ wake \in Int
      BY <1>2, <1>6, <2>3 DEF TimesFit, ClockFits
    <3> QED BY <1>4, <2>1, <3>1
  <2> QED BY <2>2, <2>3
<1>10. QueueFits(xTimerQueue', Since', now')
  <2>1. CASE Expiring!Awake
    BY <1>1, <1>2, <1>4, <1>5, <2>1, WithinMore
  <2>2. CASE ~ Expiring!Awake
    <3>1. Len(<<>>) = 0
      OBVIOUS
    <3> QED BY <1>1, <1>2, <1>6, <2>2, <3>1 DEF QueueFits
  <2> QED BY <2>1, <2>2
<1>11. DueFits'
  BY <1>1, <1>2, <1>3 DEF DueFits
<1>12. ListsFit(current', overflow', expiry', FirstBase')
  BY <1>1, <1>3 DEF TimersFit
<1> QED BY <1>1, <1>7, <1>8, <1>9, <1>10, <1>11, <1>12 DEF TimersFit, TimersInv

LEMMA TimersCommand ==
    ASSUME TimersFit, ~ early, NEW t \in Timer,
           NEW i \in {"START", "STOP", "CHANGE_PERIOD"}, NEW value \in Period \cup {NULL},
           i = "CHANGE_PERIOD" => value \in Period, Expiring!Command(i, t, value)
    PROVE  TimersInv'
<1> DEFINE m == [id |-> i, timer |-> t, time |-> now, value |-> value]
<1>1. /\ xTimerQueue' = Append(xTimerQueue, m)
      /\ UNCHANGED <<now, xTimerPeriodInTicks, current, overflow, expiry, timer_pc,
                     xLastTime, xMessage, wake, lag, asserted, early, due>>
  BY DEF Expiring!Command, Expiring!Message, Expiring!lists, Expiring!daemon
<1>2. ClockFits /\ TakenFits /\ TimesFit /\ QueueFits(xTimerQueue, Since, now) /\ DueFits
  BY DEF TimersFit
<1>3. SentWithin(m, Since, now)
  BY <1>2, TimerConstants DEF SentWithin, TimerMessage, ClockFits, Since
<1>4. Active' = Active /\ FirstBase' = FirstBase /\ Since' = Since
  BY <1>1 DEF Active, FirstBase, Since
<1> HIDE DEF m
<1>5. /\ QueueFits(xTimerQueue', Since, now)
      /\ \A u, time : Coming(xTimerQueue, u, time) => Coming(xTimerQueue', u, time)
  BY <1>1, <1>2, <1>3, CommandSent
<1>6. ClockFits'
  <2>1. xTimerQueue' # <<>>
    BY <1>1, <1>2, <1>3, AppendProperties DEF QueueFits, SentWithin
  <2>2. Expiring!Awake'
    BY <2>1 DEF Expiring!Awake
  <2> QED BY <1>1, <1>2, <1>4, <2>2 DEF ClockFits
<1>7. TakenFits' /\ TimesFit' /\ DueFits'
  BY <1>1, <1>2, <1>4, <1>5 DEF TakenFits, TimesFit, DueFits
<1>8. ListsFit(current', overflow', expiry', FirstBase')
  BY <1>1, <1>4 DEF TimersFit
<1> QED BY <1>1, <1>4, <1>5, <1>6, <1>7, <1>8 DEF TimersFit, TimersInv

-----------------------------------------------------------------------------
(***************************************************************************)
(* The daemon's look at its lists.                                         *)
(***************************************************************************)
\* The daemon goes on, with the time that it samples or with none, and leaves the
\* lists alone.
LEMMA DaemonMoves ==
    ASSUME TimersFit, ~ early, UNCHANGED <<now, xTimerPeriodInTicks, current, overflow,
               expiry, xTimerQueue, lag, early, due>>,
           xLastTime' \in {xLastTime, now}, wake' \in Int,
           timer_pc \in {"look", "blocked", "commands", "process"},
           ListsFit(current, overflow, expiry, FirstBase'),
           TakenFits',
           timer_pc' \in {"process", "switch"} => Since <= xLastTime',
           timer_pc' # "blocked"
    PROVE  TimersInv'
<1>1. ClockFits /\ TakenFits /\ TimesFit /\ QueueFits(xTimerQueue, Since, now) /\ DueFits
  BY DEF TimersFit
<1>2. Active' = Active /\ Since' = Since
  BY DEF Active, Since
<1>3. xLastTime' \in Nat /\ xLastTime <= xLastTime' /\ xLastTime' <= now
  BY <1>1 DEF ClockFits
<1>4. ClockFits'
  BY <1>1, <1>2, <1>3 DEF ClockFits, Expiring!Awake
<1>5. TimesFit'
  <2> SUFFICES ASSUME NEW t \in Active PROVE expiry[t] + MaxLag < xLastTime' + TICKS
    BY <1>1, <1>2 DEF TimesFit
  <2>1. expiry[t] \in Nat
    BY MembersAreTimers DEF TimersFit, ListsFit, Active
  <2>2. expiry[t] + MaxLag < xLastTime + TICKS
    BY <1>1 DEF TimesFit
  <2> QED BY <1>1, <1>3, <2>1, <2>2, TimerConstants DEF ClockFits
<1>6. DueFits'
  BY <1>1, <1>2 DEF DueFits
<1> QED BY <1>1, <1>2, <1>4, <1>5, <1>6 DEF TimersFit, TimersInv

LEMMA TimersLook ==
    ASSUME TimersFit, ~ early,
           Expiring!LookSwitches \/ Expiring!Wake \/ Expiring!NoMoreCommands
    PROVE  TimersInv'
<1>1. CASE Expiring!LookSwitches
  <2>1. /\ timer_pc = "look" /\ Expiring!Overflowed /\ xLastTime' = now /\ timer_pc' = "switch"
        /\ UNCHANGED <<now, xTimerPeriodInTicks, current, overflow, expiry, xTimerQueue,
                       xMessage, wake, lag, early, due>>
    BY <1>1 DEF Expiring!LookSwitches, Expiring!Sample, Expiring!lists, Expiring!commands
  <2>2. FirstBase' = Base(now) - TICKS
    BY <2>1 DEF FirstBase, Base
  <2>3. ListsFit(current, overflow, expiry, FirstBase')
    BY <2>1, <2>2, LookIsRight
  <2>4. Since <= now /\ wake \in Int
    BY TimerConstants DEF TimersFit, ClockFits, Since
  <2>5. TakenFits'
    BY <2>1 DEF TimersFit, TakenFits
  <2> QED BY <2>1, <2>3, <2>4, <2>5, DaemonMoves
<1>2. CASE Expiring!Wake
  <2>1. /\ timer_pc = "blocked" /\ wake' = 0 /\ timer_pc' = "commands"
        /\ UNCHANGED <<now, xTimerPeriodInTicks, current, overflow, expiry, xTimerQueue,
                       xLastTime, xMessage, lag, early, due>>
    BY <1>2 DEF Expiring!Wake, Expiring!lists, Expiring!commands
  <2>2. FirstBase' = FirstBase
    BY <2>1 DEF FirstBase
  <2>3. TakenFits'
    BY <2>1 DEF TimersFit, TakenFits
  <2> QED BY <2>1, <2>2, <2>3, DaemonMoves DEF TimersFit
<1>3. CASE Expiring!NoMoreCommands
  <2>1. /\ timer_pc = "commands" /\ timer_pc' = "look"
        /\ UNCHANGED <<now, xTimerPeriodInTicks, current, overflow, expiry, xTimerQueue,
                       xLastTime, xMessage, wake, lag, early, due>>
    BY <1>3 DEF Expiring!NoMoreCommands, Expiring!lists, Expiring!commands
  <2>2. FirstBase' = FirstBase /\ wake \in Int
    BY <2>1 DEF FirstBase, TimersFit, ClockFits
  <2>3. TakenFits'
    BY <2>1 DEF TimersFit, TakenFits
  <2> QED BY <2>1, <2>2, <2>3, DaemonMoves DEF TimersFit
<1> QED BY <1>1, <1>2, <1>3

\* The ticks between two counts, the second of which may be that of an overflow.
LEMMA TicksBetween ==
    ASSUME NEW c \in 0..TICKS - 1, NEW n \in 0..TICKS - 1, n = 0 \/ c < n
    PROVE  (n - c) % TICKS = IF c <= n THEN n - c ELSE TICKS - c
<1>0. TICKS \in Nat \ {0}
  BY TimerConstants
<1>1. CASE c <= n
  <2>1. n - c \in Int /\ 0 \in Int /\ n - c \in 0..TICKS - 1 /\ n - c = TICKS * 0 + (n - c)
    BY <1>0, <1>1
  <2>2. (n - c) % TICKS = n - c
    BY <1>0, <2>1, RemainderIs
  <2> QED BY <1>1, <2>2
<1>2. CASE ~ (c <= n)
  <2>1. /\ n - c \in Int /\ -1 \in Int /\ TICKS - c \in 0..TICKS - 1
        /\ n - c = TICKS * (-1) + (TICKS - c)
    BY <1>0, <1>2
  <2>2. (n - c) % TICKS = TICKS - c
    BY <1>0, <2>1, RemainderIs
  <2> QED BY <1>2, <2>2
<1> QED BY <1>1, <1>2

LEMMA BlocksUntil ==
    ASSUME NEW b \in Int, NEW c \in 0..TICKS - 1, NEW n \in 0..TICKS - 1,
           n = 0 \/ c < n, NEW ticks, ticks = (n - c) % TICKS,
           NEW until, until = b + c + IF ticks = 0 THEN 1 ELSE ticks
    PROVE  /\ until \in Int /\ b + c < until /\ until <= b + TICKS
           /\ c < n => until = b + n
<1>0. TICKS \in Nat \ {0}
  BY TimerConstants
<1>1. ticks = IF c <= n THEN n - c ELSE TICKS - c
  BY TicksBetween
<1>2. CASE c < n
  <2>1. ticks = n - c /\ ticks \in Int /\ ticks # 0
    BY <1>0, <1>1, <1>2
  <2> QED BY <1>0, <2>1
<1>3. CASE n = 0 /\ c # 0
  <2>1. ticks = TICKS - c /\ ticks \in Int /\ ticks # 0
    BY <1>0, <1>1, <1>3
  <2> QED BY <1>0, <1>3, <2>1
<1>4. CASE n = 0 /\ c = 0
  <2>1. ticks = 0
    BY <1>0, <1>1, <1>4
  <2> QED BY <1>0, <1>4, <2>1
<1> QED BY <1>2, <1>3, <1>4

\* What is not due before an overflow is not due before the first timer.
LEMMA FirstIsNext ==
    ASSUME NEW base \in Int, ListsFit(current, overflow, expiry, base),
           NEW until \in Int, until <= base + TICKS,
           current # <<>> => until = expiry[Head(current)]
    PROVE  \A t \in Active : until <= expiry[t]
<1>1. /\ \A t \in Active : t \in Timer /\ expiry[t] \in Nat
      /\ ToSet(<<>>) = {}
  BY MembersAreTimers, ListFacts!EmptyList, TimerOperators DEF ListsFit, Active
<1>2. ASSUME NEW t \in ToSet(current) PROVE until <= expiry[t]
  <2>1. current # <<>>
    BY <1>1, <1>2
  <2>2. \A u \in ToSet(current) : expiry[Head(current)] <= expiry[u]
    BY <2>1, FirstLeaves
  <2> QED BY <1>2, <2>1, <2>2
<1>3. ASSUME NEW t \in ToSet(overflow) PROVE until <= expiry[t]
  <2>1. PICK x : x = expiry[t]
    OBVIOUS
  <2>2. x \in Nat /\ Base(x) = base + TICKS
    BY <1>1, <2>1 DEF ListsFit, Active
  <2>3. x = Base(x) + Count(x) /\ Count(x) \in 0..TICKS - 1
    BY <2>2, Counts
  <2>4. base + TICKS <= x
    BY <2>2, <2>3, TimerConstants
  <2> QED BY <2>1, <2>2, <2>4, TimerConstants
<1> QED BY <1>2, <1>3 DEF Active

LEMMA TimersBlock ==
    ASSUME TimersFit, ~ early, Expiring!Block
    PROVE  TimersInv'
<1>1. /\ timer_pc = "look" /\ ~ Expiring!Overflowed /\ ~ Expiring!Expired
      /\ xLastTime' = now
      /\ IF xTimerQueue = <<>> THEN timer_pc' = "blocked" /\ lag' = 0
         ELSE timer_pc' = "commands" /\ UNCHANGED lag
      /\ UNCHANGED <<now, xTimerPeriodInTicks, current, overflow, expiry, xTimerQueue,
                     xMessage, early, due>>
  BY DEF Expiring!Block, Expiring!lists, Expiring!commands
<1>2. ListsFit(current, overflow, expiry, Base(now))
  BY <1>1, LookIsRight
<1>3. /\ Count(now) \in 0..TICKS - 1 /\ Base(now) \in Int /\ now = Base(now) + Count(now)
      /\ TICKS \in Nat \ {0}
  BY Counts, TimerConstants DEF TimersFit, ClockFits
<1>4. PICK n : n = IF current = <<>> THEN 0 ELSE Count(expiry[Head(current)])
  OBVIOUS
<1>5. /\ wake' \in Int /\ now < wake' /\ \A t \in Active : wake' <= expiry[t]
  <2>1. PICK ticks : ticks = (n - Count(now)) % TICKS
    OBVIOUS
  <2>2. wake' = now + IF ticks = 0 THEN 1 ELSE ticks
    BY <1>4, <2>1, TimerOperators DEF Expiring!Block
  <2>3. CASE current = <<>>
    <3>1. n = 0 /\ n \in 0..TICKS - 1
      BY <1>3, <1>4, <2>3
    <3>2. /\ wake' \in Int /\ Base(now) + Count(now) < wake'
          /\ wake' <= Base(now) + TICKS
      BY <1>3, <2>1, <2>2, <3>1, BlocksUntil
    <3> QED BY <1>2, <1>3, <2>3, <3>2, FirstIsNext
  <2>4. CASE current # <<>>
    <3>1. PICK x : x = expiry[Head(current)]
      OBVIOUS
    <3>2. Head(current) \in Timer /\ Head(current) \in ToSet(current)
      BY <1>2, <2>4, FirstLeaves
    <3>3. x \in Nat /\ Base(x) = Base(now)
      BY <1>2, <3>1, <3>2 DEF ListsFit
    <3>4. x = Base(now) + Count(x) /\ Count(x) \in 0..TICKS - 1
      BY <3>3, Counts
    <3>5. n = Count(x) /\ ~ (Count(x) <= Count(now))
      BY <1>1, <1>4, <2>4, <3>1, TimerOperators DEF Expiring!Expired
    <3>6. Count(now) < n /\ n \in 0..TICKS - 1
      BY <1>3, <3>4, <3>5
    <3>7. /\ wake' \in Int /\ Base(now) + Count(now) < wake'
          /\ wake' <= Base(now) + TICKS /\ wake' = Base(now) + n
      BY <1>3, <2>1, <2>2, <3>6, BlocksUntil
    <3>8. wake' = expiry[Head(current)]
      BY <3>1, <3>4, <3>5, <3>7
    <3> QED BY <1>2, <1>3, <3>7, <3>8, FirstIsNext
  <2> QED BY <2>3, <2>4
<1>6. ListsFit(current, overflow, expiry, FirstBase')
  BY <1>1, LookIsRight DEF FirstBase, Base
<1>7. TakenFits'
  BY <1>1 DEF TimersFit, TakenFits
<1>8. CASE xTimerQueue # <<>>
  BY <1>1, <1>5, <1>6, <1>7, <1>8, DaemonMoves
<1>9. CASE xTimerQueue = <<>>
  <2>1. ClockFits /\ TimesFit /\ QueueFits(xTimerQueue, Since, now) /\ DueFits
    BY DEF TimersFit
  <2>2. Active' = Active /\ Since' = now /\ now \in Nat
    BY <1>1, <1>9, <2>1 DEF Active, Since, ClockFits
  <2>3. ClockFits'
    BY <1>1, <1>5, <1>9, <2>1, <2>2, TimerConstants DEF ClockFits
  <2>4. TimesFit'
    <3> SUFFICES ASSUME NEW t \in Active
                 PROVE  now <= expiry[t] /\ expiry[t] + MaxLag < now + TICKS
      BY <1>1, <1>5, <1>9, <2>1, <2>2 DEF TimesFit
    <3>1. expiry[t] \in Nat
      BY MembersAreTimers DEF TimersFit, ListsFit, Active
    <3>2. expiry[t] + MaxLag < xLastTime + TICKS /\ wake' <= expiry[t]
      BY <1>5, <2>1 DEF TimesFit
    <3> QED BY <1>5, <2>1, <3>1, <3>2, TimerConstants DEF ClockFits
  <2>5. DueFits'
    BY <1>1, <2>1, <2>2 DEF DueFits
  <2>6. QueueFits(xTimerQueue', Since', now')
    <3>1. Len(<<>>) = 0
      OBVIOUS
    <3> QED BY <1>1, <1>9, <2>1, <3>1 DEF QueueFits
  <2> QED BY <1>1, <1>6, <1>7, <2>3, <2>4, <2>5, <2>6 DEF TimersFit, TimersInv
<1> QED BY <1>8, <1>9

-----------------------------------------------------------------------------
(***************************************************************************)
(* The timers that expire or start.                                        *)
(***************************************************************************)
\* The daemon sends itself a command to start t, when there is room for it.
LEMMA Restarts ==
    ASSUME TimersFit, NEW t \in Timer, NEW time \in Nat, Since <= time, time <= now,
           Expiring!Restart(t, time), ~ asserted'
    PROVE  /\ QueueFits(xTimerQueue', Since, now)
           /\ \A u, d : Coming(xTimerQueue, u, d) => Coming(xTimerQueue', u, d)
           /\ \A d : time <= d => Coming(xTimerQueue', t, d)
<1> DEFINE m == [id |-> "RESTART", timer |-> t, time |-> time, value |-> NULL]
<1>1. xTimerQueue' = Append(xTimerQueue, m)
  BY DEF Expiring!Restart, Expiring!Message
<1>2. SentWithin(m, Since, now) /\ m.timer = t /\ m.time = time
  BY DEF SentWithin, TimerMessage
<1> HIDE DEF m
<1> QED BY <1>1, <1>2, CommandSent DEF TimersFit

\* A timer in neither list, with a new time to expire, is in one of them or has a
\* command on its way.
LEMMA TimerPlaced ==
    ASSUME TimersFit, NEW t \in Timer, NEW near, NEW far,
           ToSet(near) \cup ToSet(far) = Active \ {t},
           NEW first, first = FirstBase', ListsFit(near, far, expiry, first),
           NEW next \in Nat, NEW place, Expiring!Insert(t, next, place, near, far),
           place = "current" => Base(next) = first,
           place = "overflow" => Base(next) = first + TICKS,
           xLastTime' \in {xLastTime, now},
           place \in {"current", "overflow"} =>
               Since <= next /\ next + MaxLag < xLastTime' + TICKS,
           NEW d \in Nat \cup {NULL}, due' = [due EXCEPT ![t] = d],
           place \in {"current", "overflow"} => d = next,
           d = NULL \/ place \in {"current", "overflow"} \/ Coming(xTimerQueue', t, d),
           QueueFits(xTimerQueue', Since, now),
           \A u, c : u # t /\ Coming(xTimerQueue, u, c) => Coming(xTimerQueue', u, c),
           UNCHANGED <<now, lag, wake>>, timer_pc' # "blocked",
           xTimerPeriodInTicks' \in [Timer -> Period], TakenFits',
           timer_pc' \in {"process", "switch"} => Since <= xLastTime'
    PROVE  TimersFit'
<1>1. ClockFits /\ TimesFit /\ DueFits
  BY DEF TimersFit
<1>2. t \notin ToSet(near) /\ t \notin ToSet(far)
  OBVIOUS
<1>3. /\ ListsFit(current', overflow', expiry', first)
      /\ Active' = (ToSet(near) \cup ToSet(far)) \cup
                      (IF place \in {"current", "overflow"} THEN {t} ELSE {})
      /\ \A u \in Timer : u # t => expiry'[u] = expiry[u]
      /\ place \in {"current", "overflow"} => expiry'[t] = next
  BY <1>2, Inserts
<1>4. Since' = Since
  BY DEF Since
<1>5. /\ xLastTime' \in Nat /\ xLastTime \in Nat /\ xLastTime <= xLastTime'
      /\ xLastTime' <= now /\ due \in [Timer -> Nat \cup {NULL}]
      /\ TICKS \in Nat /\ MaxLag \in Nat
  BY <1>1, TimerConstants DEF ClockFits
<1>6. due'[t] = d /\ \A u \in Timer : u # t => due'[u] = due[u]
  BY <1>5
<1>7. due' \in [Timer -> Nat \cup {NULL}]
  BY <1>5
<1>8. ClockFits'
  BY <1>1, <1>4, <1>5, <1>7 DEF ClockFits, Expiring!Awake
<1>9. \A u \in Active' : u = t \/ (u \in Active /\ u # t)
  BY <1>3
<1>10. \A u \in Active : u # t => u \in Active'
  BY <1>3
<1>11. \A u \in Active : u \in Timer /\ expiry[u] \in Nat
  BY MembersAreTimers DEF TimersFit, ListsFit, Active
<1>12. TimesFit'
  <2> SUFFICES ASSUME NEW u \in Active'
               PROVE  /\ Since <= expiry'[u] /\ expiry'[u] + MaxLag < xLastTime' + TICKS
                      /\ due'[u] = expiry'[u]
    BY <1>4 DEF TimesFit
  <2>1. CASE u = t
    <3>1. place \in {"current", "overflow"}
      BY <1>2, <1>3, <2>1
    <3> QED BY <1>3, <1>6, <2>1, <3>1
  <2>2. CASE u # t
    <3>1. u \in Active /\ u \in Timer /\ expiry'[u] = expiry[u] /\ due'[u] = due[u]
      BY <1>3, <1>6, <1>9, <1>11, <2>2
    <3>2. /\ Since <= expiry[u] /\ expiry[u] + MaxLag < xLastTime + TICKS
          /\ due[u] = expiry[u] /\ expiry[u] \in Nat
      BY <1>1, <1>11, <3>1 DEF TimesFit
    <3>3. expiry[u] + MaxLag < xLastTime' + TICKS
      BY <1>5, <3>2
    <3> QED BY <3>1, <3>2, <3>3
  <2> QED BY <2>1, <2>2
<1>13. DueFits'
  <2> SUFFICES ASSUME NEW u \in Timer, due'[u] # NULL
               PROVE  u \in Active' \/ Coming(xTimerQueue', u, due'[u])
    BY DEF DueFits
  <2>1. CASE u = t
    BY <1>3, <1>6, <2>1
  <2>2. CASE u # t
    BY <1>1, <1>6, <1>10, <2>2 DEF DueFits
  <2> QED BY <2>1, <2>2
<1> QED BY <1>3, <1>4, <1>8, <1>12, <1>13 DEF TimersFit

LEMMA TimersExpire ==
    ASSUME TimersFit, ~ early, Expiring!ProcessExpired
    PROVE  TimersInv'
<1>1. PICK t, time, p, next, place :
         /\ t = Head(current) /\ time = expiry[t] /\ p = xTimerPeriodInTicks[t]
         /\ next = time + p
         /\ place = IF t \in AutoReload THEN Expiring!Place(t, next, time) ELSE "none"
  OBVIOUS
<1>2. /\ timer_pc = "look" /\ ~ Expiring!Overflowed /\ Expiring!Expired
      /\ xLastTime' = now /\ timer_pc' = "commands"
      /\ UNCHANGED <<xTimerPeriodInTicks, now, lag, wake, xMessage>>
      /\ Expiring!Insert(t, next, place, Tail(current), overflow)
      /\ IF place = "expired" THEN Expiring!Restart(t, time) ELSE Expiring!NoRestart
      /\ due' = [due EXCEPT ![t] = IF t \in AutoReload THEN next ELSE NULL]
      /\ early' = (early \/ now < time)
  BY <1>1 DEF Expiring!ProcessExpired, Expiring!Sample, Expiring!Callback
<1>3. current # <<>> /\ Count(time) <= Count(now)
  BY <1>1, <1>2, TimerOperators DEF Expiring!Expired
<1>4. ListsFit(current, overflow, expiry, Base(now)) /\ ClockFits /\ TimesFit
  BY <1>2, LookIsRight DEF TimersFit
<1>5. /\ ListsFit(Tail(current), overflow, expiry, Base(now))
      /\ t \in ToSet(current) /\ t \in Timer /\ t \notin ToSet(overflow)
      /\ ToSet(Tail(current)) = ToSet(current) \ {t}
  BY <1>1, <1>3, <1>4, FirstLeaves
<1>6. /\ time \in Nat /\ Base(time) = Base(now) /\ p \in Period /\ p \in Nat \ {0}
      /\ p + MaxLag < TICKS /\ Since <= time /\ time + MaxLag < xLastTime + TICKS
  BY <1>1, <1>4, <1>5, TimerConstants DEF ListsFit, ClockFits, TimesFit, Active
<1>7. /\ now \in Nat /\ lag \in 0..MaxLag /\ MaxLag \in Nat /\ TICKS \in Nat
      /\ Since = now - lag
  BY <1>4, TimerConstants DEF ClockFits, Since
<1>8. time <= now
  <2>1. /\ time = Base(time) + Count(time) /\ now = Base(now) + Count(now)
        /\ Count(time) \in Int /\ Count(now) \in Int /\ Base(now) \in Int
    BY <1>6, <1>7, Counts, TimerConstants
  <2> QED BY <1>3, <1>6, <2>1
<1>9. now < time + TICKS /\ next \in Nat /\ Since <= next /\ next + MaxLag < now + TICKS
  BY <1>1, <1>6, <1>7, <1>8
<1>10. ~ early'
  <2>1. ~ (now < time)
    BY <1>6, <1>7, <1>8
  <2> QED BY <1>2, <2>1, Zenon
<1>11. t \in AutoReload =>
          \/ place = "expired" /\ next <= now
          \/ place = "current" /\ now < next /\ Base(next) = Base(now)
          \/ place = "overflow" /\ now < next /\ Base(next) = Base(now) + TICKS
  <2>1. xLastTime' = now /\ xTimerPeriodInTicks'[t] = p /\ next = time + p
    BY <1>1, <1>2
  <2>2. LET q == Expiring!Place(t, next, time)
        IN  \/ q = "expired" /\ next <= now
            \/ q = "current" /\ now < next /\ Base(next) = Base(now)
            \/ q = "overflow" /\ now < next /\ Base(next) = Base(now) + TICKS
    BY <1>6, <1>7, <1>8, <1>9, <2>1, PlaceIsRight
  <2> QED BY <1>1, <2>2
<1>12. t \notin AutoReload => place = "none"
  BY <1>1
<1>13. CASE ~ asserted'
  <2>1. /\ QueueFits(xTimerQueue', Since, now)
        /\ \A u, c : Coming(xTimerQueue, u, c) => Coming(xTimerQueue', u, c)
        /\ place = "expired" => Coming(xTimerQueue', t, next)
    <3>1. CASE place = "expired"
      <4>1. time <= next
        BY <1>1, <1>6
      <4>2. Expiring!Restart(t, time)
        BY <1>2, <3>1
      <4> QED BY <1>5, <1>6, <1>8, <1>13, <4>1, <4>2, Restarts
    <3>2. CASE place # "expired"
      BY <1>2, <3>2 DEF Expiring!NoRestart, TimersFit
    <3> QED BY <3>1, <3>2
  <2>2. FirstBase' = Base(now)
    BY <1>2 DEF FirstBase, Base
  <2>3. ToSet(Tail(current)) \cup ToSet(overflow) = Active \ {t}
    BY <1>5 DEF Active
  <2>4. TakenFits'
    BY <1>2 DEF TimersFit, TakenFits
  <2>5. xTimerPeriodInTicks' \in [Timer -> Period]
    BY <1>2, <1>4 DEF ClockFits
  <2> DEFINE d == IF t \in AutoReload THEN next ELSE NULL
  <2>6. /\ d \in Nat \cup {NULL} /\ due' = [due EXCEPT ![t] = d]
        /\ place \in {"current", "overflow"} => d = next
        /\ d = NULL \/ place \in {"current", "overflow"} \/ Coming(xTimerQueue', t, d)
    BY <1>2, <1>9, <1>11, <1>12, <2>1
  <2> HIDE DEF d
  <2>7. /\ place = "current" => Base(next) = Base(now)
        /\ place = "overflow" => Base(next) = Base(now) + TICKS
    BY <1>11, <1>12
  <2>8. TimersFit'
    BY <1>2, <1>5, <1>9, <2>1, <2>2, <2>3, <2>4, <2>5, <2>6, <2>7, TimerPlaced
  <2> QED BY <1>10, <2>8 DEF TimersInv
<1> QED BY <1>10, <1>13 DEF TimersInv

LEMMA TimersSwitchOne ==
    ASSUME TimersFit, ~ early, Expiring!SwitchOne
    PROVE  TimersInv'
<1>1. PICK t, time, p, next, here, place :
         /\ t = Head(current) /\ time = expiry[t] /\ p = xTimerPeriodInTicks[t]
         /\ next = time + p /\ here = (t \in AutoReload /\ Count(next) > Count(time))
         /\ place = IF here THEN "current" ELSE "none"
  OBVIOUS
<1>2. /\ timer_pc = "switch" /\ current # <<>>
      /\ UNCHANGED <<xTimerPeriodInTicks, now, lag, wake, xMessage, timer_pc, xLastTime>>
      /\ Expiring!Insert(t, next, place, Tail(current), overflow)
      /\ IF t \in AutoReload /\ ~ here THEN Expiring!Restart(t, time)
         ELSE Expiring!NoRestart
      /\ due' = [due EXCEPT ![t] = IF t \in AutoReload THEN next ELSE NULL]
      /\ early' = (early \/ now < time)
  BY <1>1, TimerOperators
     DEF Expiring!SwitchOne, Expiring!ReloadsHere, Expiring!Callback, Expiring!daemon
<1>3. ListsFit(current, overflow, expiry, FirstBase) /\ ClockFits /\ TimesFit
  BY DEF TimersFit
<1>4. /\ ListsFit(Tail(current), overflow, expiry, FirstBase)
      /\ t \in ToSet(current) /\ t \in Timer /\ t \notin ToSet(overflow)
      /\ ToSet(Tail(current)) = ToSet(current) \ {t}
  BY <1>1, <1>2, <1>3, FirstLeaves
<1>5. FirstBase = Base(xLastTime) - TICKS /\ FirstBase' = FirstBase
  BY <1>2 DEF FirstBase, Base
<1>6. /\ time \in Nat /\ Base(time) = FirstBase /\ p \in Period /\ p \in Nat \ {0}
      /\ p + MaxLag < TICKS /\ Since <= time
  BY <1>1, <1>3, <1>4, TimerConstants DEF ListsFit, ClockFits, TimesFit, Active
<1>7. /\ now \in Nat /\ lag \in Nat /\ xLastTime \in Nat /\ xLastTime <= now
      /\ MaxLag \in Nat /\ TICKS \in Nat /\ Since \in Int
  BY <1>3, TimerConstants DEF ClockFits, Since
<1>8. time < xLastTime
  <2>1. /\ time = Base(time) + Count(time) /\ xLastTime = Base(xLastTime) + Count(xLastTime)
        /\ Count(time) \in 0..TICKS - 1 /\ Count(xLastTime) \in 0..TICKS - 1
        /\ Base(xLastTime) \in Int
    BY <1>6, <1>7, Counts
  <2> QED BY <1>5, <1>6, <1>7, <2>1
<1>9. /\ next \in Nat /\ time <= next /\ Since <= next
      /\ next + MaxLag < xLastTime + TICKS /\ time <= now
  BY <1>1, <1>6, <1>7, <1>8
<1>10. ~ early'
  <2>1. ~ (now < time)
    BY <1>6, <1>7, <1>9
  <2> QED BY <1>2, <2>1, Zenon
<1>11. here => Base(next) = FirstBase
  <2>1. next < time + TICKS
    BY <1>1, <1>6, <1>7
  <2>2. Count(next) > Count(time) => Base(next) = Base(time)
    <3>1. Count(next) \in Int /\ Count(time) \in Int
      BY <1>6, <1>9, Counts, TimerConstants
    <3>2. \/ Count(time) <= Count(next) /\ Base(next) = Base(time)
          \/ Count(next) < Count(time) /\ Base(next) = Base(time) + TICKS
      BY <1>6, <1>9, <2>1, CountsOverflow
    <3> QED BY <3>1, <3>2
  <2> QED BY <1>1, <1>6, <2>2
<1>12. CASE ~ asserted'
  <2>1. /\ QueueFits(xTimerQueue', Since, now)
        /\ \A u, c : Coming(xTimerQueue, u, c) => Coming(xTimerQueue', u, c)
        /\ t \in AutoReload /\ ~ here => Coming(xTimerQueue', t, next)
    <3>1. CASE t \in AutoReload /\ ~ here
      <4>1. Expiring!Restart(t, time)
        BY <1>2, <3>1
      <4> QED BY <1>4, <1>6, <1>9, <1>12, <4>1, Restarts
    <3>2. CASE ~ (t \in AutoReload /\ ~ here)
      BY <1>2, <3>2 DEF Expiring!NoRestart, TimersFit
    <3> QED BY <3>1, <3>2
  <2>2. ToSet(Tail(current)) \cup ToSet(overflow) = Active \ {t}
    BY <1>4 DEF Active
  <2>3. place = "current" => here
    BY <1>1
  <2>4. place = "overflow" => FALSE
    BY <1>1
  <2>5. /\ place = "current" => Base(next) = FirstBase
        /\ place = "overflow" => Base(next) = FirstBase + TICKS
    BY <1>11, <2>3, <2>4
  <2>6. TakenFits'
    <3>1. t \notin ToSet(Tail(current))
      BY <1>4
    <3>2. Active' = (ToSet(Tail(current)) \cup ToSet(overflow)) \cup
                       (IF place \in {"current", "overflow"} THEN {t} ELSE {})
      BY <1>2, <1>4, <1>9, <2>5, <3>1, Inserts
    <3>3. Active' \subseteq Active /\ Since' = Since
      BY <1>2, <1>4, <2>2, <3>2 DEF Active, Since
    <3> QED BY <1>2, <3>3 DEF TimersFit, TakenFits
  <2>7. xTimerPeriodInTicks' \in [Timer -> Period] /\ Since <= xLastTime
    BY <1>2, <1>3 DEF ClockFits
  <2> DEFINE d == IF t \in AutoReload THEN next ELSE NULL
  <2>8. /\ d \in Nat \cup {NULL} /\ due' = [due EXCEPT ![t] = d]
        /\ place \in {"current", "overflow"} => d = next
        /\ d = NULL \/ place \in {"current", "overflow"} \/ Coming(xTimerQueue', t, d)
    BY <1>1, <1>2, <1>9, <2>1
  <2> HIDE DEF d
  <2>9. /\ FirstBase = FirstBase' /\ xLastTime' \in {xLastTime, now} /\ timer_pc' # "blocked"
        /\ UNCHANGED <<now, lag, wake>> /\ Since <= xLastTime'
        /\ Since <= next /\ next + MaxLag < xLastTime' + TICKS
        /\ Expiring!Insert(t, next, place, Tail(current), overflow)
    BY <1>2, <1>5, <1>9, <2>7
  <2>10. TimersFit'
    BY <1>4, <1>9, <2>1, <2>2, <2>5, <2>6, <2>7, <2>8, <2>9, TimerPlaced
  <2> QED BY <1>10, <2>10 DEF TimersInv
<1> QED BY <1>10, <1>12 DEF TimersInv

LEMMA TimersSwitch ==
    ASSUME TimersFit, ~ early, Expiring!Switch
    PROVE  TimersInv'
<1>1. /\ timer_pc = "switch" /\ current = <<>> /\ current' = overflow /\ overflow' = <<>>
      /\ timer_pc' = IF xMessage = NULL THEN "commands" ELSE "process"
      /\ UNCHANGED <<now, xTimerPeriodInTicks, expiry, xTimerQueue, xLastTime, xMessage,
                     wake, lag, early, due>>
  BY DEF Expiring!Switch, Expiring!commands
<1>2. /\ ClockFits /\ TakenFits /\ TimesFit /\ QueueFits(xTimerQueue, Since, now) /\ DueFits
      /\ ListsFit(<<>>, overflow, expiry, Base(xLastTime) - TICKS)
  BY <1>1 DEF TimersFit, FirstBase
<1>3. ToSet(<<>>) = {}
  BY ListFacts!EmptyList, TimerOperators
<1>4. Active' = Active /\ Since' = Since /\ FirstBase' = Base(xLastTime)
  BY <1>1, <1>3 DEF Active, Since, FirstBase, Base
<1>5. (Base(xLastTime) - TICKS) + TICKS = Base(xLastTime)
  BY <1>2, Counts, TimerConstants DEF ClockFits
<1>6. ListsFit(overflow, <<>>, expiry, Base(xLastTime))
  BY <1>2, <1>3, <1>5 DEF ListsFit
<1>7. ClockFits'
  BY <1>1, <1>2, <1>4 DEF ClockFits, Expiring!Awake
<1>8. TakenFits' /\ TimesFit' /\ DueFits'
  BY <1>1, <1>2, <1>4 DEF TakenFits, TimesFit, DueFits
<1> QED BY <1>1, <1>2, <1>4, <1>6, <1>7, <1>8 DEF TimersFit, TimersInv

-----------------------------------------------------------------------------
(***************************************************************************)
(* The commands that the daemon processes.                                 *)
(***************************************************************************)
LEMMA TimersReceive ==
    ASSUME TimersFit, ~ early, Expiring!Receive
    PROVE  TimersInv'
<1>1. PICK m, t, near, far :
         /\ m = Head(xTimerQueue) /\ t = m.timer
         /\ near = ListFacts!RemoveFirst(current, t)
         /\ far = ListFacts!RemoveFirst(overflow, t)
  OBVIOUS
<1>2. /\ timer_pc = "commands" /\ xTimerQueue # <<>>
      /\ xTimerQueue' = Tail(xTimerQueue) /\ xMessage' = m
      /\ current' = near /\ overflow' = far
      /\ expiry' = [expiry EXCEPT ![t] = 0] /\ due' = [due EXCEPT ![t] = NULL]
      /\ xLastTime' = now
      /\ timer_pc' = IF Expiring!Overflowed THEN "switch" ELSE "process"
      /\ UNCHANGED <<now, xTimerPeriodInTicks, wake, lag, early>>
  BY <1>1, TimerOperators DEF Expiring!Receive, Expiring!Sample
<1>3. Expiring!Insert(t, 0, "none", near, far)
  BY <1>2 DEF Expiring!Insert
<1>4. /\ SentWithin(m, Since, now) /\ QueueFits(xTimerQueue', Since, now)
      /\ \A u, c : u # t /\ Coming(xTimerQueue, u, c) => Coming(xTimerQueue', u, c)
  BY <1>1, <1>2, CommandTaken DEF TimersFit
<1>5. t \in Timer
  BY <1>1, <1>4 DEF SentWithin, TimerMessage
<1>6. PICK first : first = FirstBase'
  OBVIOUS
<1>7. ListsFit(current, overflow, expiry, first)
  BY <1>2, <1>6, LookIsRight DEF FirstBase, Base
<1>8. /\ ListsFit(near, far, expiry, first)
      /\ ToSet(near) = ToSet(current) \ {t} /\ ToSet(far) = ToSet(overflow) \ {t}
  BY <1>1, <1>7, Leaves
<1>9. ToSet(near) \cup ToSet(far) = Active \ {t}
  BY <1>8 DEF Active
<1>10. Since' = Since /\ Since <= now
  BY <1>2, TimerConstants DEF Since, TimersFit, ClockFits
<1>11. TakenFits'
  <2>1. Active' = Active \ {t}
    BY <1>2, <1>8 DEF Active
  <2>2. timer_pc' \in {"switch", "process"}
    BY <1>2
  <2> QED BY <1>1, <1>2, <1>4, <1>10, <2>1, <2>2 DEF TakenFits
<1>12. xTimerPeriodInTicks' \in [Timer -> Period]
  BY <1>2 DEF TimersFit, ClockFits
<1>13. 0 \in Nat /\ NULL \in Nat \cup {NULL} /\ timer_pc' # "blocked"
  BY <1>2
<1>14. "none" \notin {"current", "overflow"} /\ "none" # "current" /\ "none" # "overflow"
  OBVIOUS
<1>15. TimersFit'
  BY <1>2, <1>3, <1>4, <1>5, <1>6, <1>8, <1>9, <1>10, <1>11, <1>12, <1>13, <1>14,
     TimerPlaced
<1> QED BY <1>2, <1>15 DEF TimersInv

LEMMA TimersStart ==
    ASSUME TimersFit, ~ early, Expiring!ProcessStart
    PROVE  TimersInv'
<1>1. PICK t, time, p, next, place :
         /\ t = xMessage.timer /\ time = xMessage.time /\ p = xTimerPeriodInTicks[t]
         /\ next = time + p /\ place = Expiring!Place(t, next, time)
  OBVIOUS
<1>2. /\ timer_pc = "process" /\ xMessage' = NULL /\ timer_pc' = "commands"
      /\ UNCHANGED <<now, xLastTime, wake, lag, xTimerPeriodInTicks>>
      /\ Expiring!Insert(t, next, place, current, overflow)
      /\ due' = [due EXCEPT ![t] = IF place # "expired" THEN next
                                   ELSE IF t \in AutoReload THEN next + p ELSE NULL]
      /\ place = "expired" => early' = (early \/ now < next)
      /\ place # "expired" => early' = early
      /\ IF place = "expired" /\ t \in AutoReload THEN Expiring!Restart(t, next)
         ELSE Expiring!NoRestart
  BY <1>1 DEF Expiring!ProcessStart, Expiring!Processed, Expiring!Callback
<1>3. /\ ListsFit(current, overflow, expiry, FirstBase) /\ ClockFits
      /\ SentWithin(xMessage, Since, xLastTime) /\ t \notin Active
  BY <1>1, <1>2 DEF TimersFit, TakenFits
<1>4. /\ t \in Timer /\ time \in Nat /\ Since <= time /\ time <= xLastTime
  BY <1>1, <1>3 DEF SentWithin, TimerMessage
<1>5. p \in Period /\ p \in Nat \ {0} /\ p + MaxLag < TICKS
  BY <1>1, <1>3, <1>4, TimerConstants DEF ClockFits
<1>6. /\ now \in Nat /\ lag \in 0..MaxLag /\ xLastTime \in Nat /\ xLastTime <= now
      /\ MaxLag \in Nat /\ TICKS \in Nat /\ Since = now - lag
  BY <1>3, TimerConstants DEF ClockFits, Since
<1>7. /\ next \in Nat /\ next + p \in Nat /\ next <= next + p /\ Since <= next
      /\ next + MaxLag < xLastTime + TICKS /\ xLastTime < time + TICKS
  BY <1>1, <1>4, <1>5, <1>6
<1>8. FirstBase = Base(xLastTime) /\ FirstBase' = FirstBase
  BY <1>2 DEF FirstBase, Base
<1>9. \/ place = "expired" /\ next <= xLastTime
      \/ place = "current" /\ Base(next) = FirstBase
      \/ place = "overflow" /\ Base(next) = FirstBase + TICKS
  <2>1. xLastTime' = xLastTime /\ xTimerPeriodInTicks'[t] = p /\ next = time + p
    BY <1>1, <1>2
  <2>2. LET q == Expiring!Place(t, next, time)
        IN  \/ q = "expired" /\ next <= xLastTime
            \/ q = "current" /\ xLastTime < next /\ Base(next) = Base(xLastTime)
            \/ q = "overflow" /\ xLastTime < next /\ Base(next) = Base(xLastTime) + TICKS
    BY <1>4, <1>5, <1>6, <1>7, <2>1, PlaceIsRight
  <2> QED BY <1>1, <1>8, <2>2
<1>10. ~ early'
  <2>1. CASE place = "expired"
    <3>1. ~ (now < next)
      BY <1>6, <1>7, <1>9, <2>1
    <3> QED BY <1>2, <2>1, <3>1, Zenon
  <2>2. CASE place # "expired"
    BY <1>2, <2>2
  <2> QED BY <2>1, <2>2
<1>11. CASE ~ asserted'
  <2>1. /\ QueueFits(xTimerQueue', Since, now)
        /\ \A u, c : Coming(xTimerQueue, u, c) => Coming(xTimerQueue', u, c)
        /\ place = "expired" /\ t \in AutoReload => Coming(xTimerQueue', t, next + p)
    <3>1. CASE place = "expired" /\ t \in AutoReload
      <4>1. Expiring!Restart(t, next) /\ next <= now
        BY <1>2, <1>6, <1>7, <1>9, <3>1
      <4> QED BY <1>4, <1>7, <1>11, <4>1, Restarts
    <3>2. CASE ~ (place = "expired" /\ t \in AutoReload)
      BY <1>2, <3>2 DEF Expiring!NoRestart, TimersFit
    <3> QED BY <3>1, <3>2
  <2>2. ToSet(current) \cup ToSet(overflow) = Active \ {t}
    BY <1>3 DEF Active
  <2>3. TakenFits'
    BY <1>2 DEF TakenFits
  <2> DEFINE d == IF place # "expired" THEN next
                  ELSE IF t \in AutoReload THEN next + p ELSE NULL
  <2>4. /\ d \in Nat \cup {NULL} /\ due' = [due EXCEPT ![t] = d]
        /\ place \in {"current", "overflow"} => d = next
        /\ d = NULL \/ place \in {"current", "overflow"} \/ Coming(xTimerQueue', t, d)
    BY <1>2, <1>7, <1>9, <2>1
  <2> HIDE DEF d
  <2>5. /\ FirstBase = FirstBase' /\ xLastTime' \in {xLastTime, now}
        /\ timer_pc' \notin {"blocked", "process", "switch"}
        /\ UNCHANGED <<now, lag, wake>> /\ xTimerPeriodInTicks' \in [Timer -> Period]
        /\ Since <= next /\ next + MaxLag < xLastTime' + TICKS
        /\ Expiring!Insert(t, next, place, current, overflow)
        /\ place = "current" => Base(next) = FirstBase
        /\ place = "overflow" => Base(next) = FirstBase + TICKS
    BY <1>2, <1>3, <1>7, <1>8, <1>9 DEF ClockFits
  <2>6. TimersFit'
    BY <1>3, <1>4, <1>7, <2>1, <2>2, <2>3, <2>4, <2>5, TimerPlaced
  <2> QED BY <1>10, <2>6 DEF TimersInv
<1> QED BY <1>10, <1>11 DEF TimersInv

LEMMA TimersStop ==
    ASSUME TimersFit, ~ early, Expiring!ProcessStop
    PROVE  TimersInv'
<1>1. /\ timer_pc = "process" /\ xMessage' = NULL /\ timer_pc' = "commands"
      /\ UNCHANGED <<now, xLastTime, wake, lag, xTimerPeriodInTicks, current, overflow,
                     expiry, xTimerQueue, due, early>>
  BY DEF Expiring!ProcessStop, Expiring!Processed, Expiring!lists
<1>2. FirstBase' = FirstBase /\ TakenFits' /\ wake \in Int
  BY <1>1 DEF FirstBase, TakenFits, TimersFit, ClockFits
<1> QED BY <1>1, <1>2, DaemonMoves DEF TimersFit

LEMMA TimersChange ==
    ASSUME TimersFit, ~ early, Expiring!ProcessChangePeriod
    PROVE  TimersInv'
<1>1. PICK t, p, next, place :
         /\ t = xMessage.timer /\ p = xMessage.value /\ next = xLastTime + p
         /\ place = Expiring!Place(t, next, xLastTime)
  OBVIOUS
<1>2. /\ timer_pc = "process" /\ xMessage' = NULL /\ timer_pc' = "commands"
      /\ xMessage.id = "CHANGE_PERIOD"
      /\ xTimerPeriodInTicks' = [xTimerPeriodInTicks EXCEPT ![t] = p]
      /\ UNCHANGED <<now, xLastTime, wake, lag, xTimerQueue, early>>
      /\ Expiring!Insert(t, next, place, current, overflow)
      /\ due' = [due EXCEPT ![t] = next]
  BY <1>1 DEF Expiring!ProcessChangePeriod, Expiring!Processed
<1>3. /\ ListsFit(current, overflow, expiry, FirstBase) /\ ClockFits
      /\ QueueFits(xTimerQueue', Since, now)
      /\ SentWithin(xMessage, Since, xLastTime) /\ t \notin Active
  BY <1>1, <1>2 DEF TimersFit, TakenFits
<1>4. t \in Timer /\ p \in Period /\ p \in Nat \ {0} /\ p + MaxLag < TICKS
  BY <1>1, <1>2, <1>3, TimerConstants DEF SentWithin, TimerMessage
<1>5. /\ xLastTime \in Nat /\ MaxLag \in Nat /\ TICKS \in Nat \ {0}
      /\ now \in Nat /\ lag \in Nat /\ Since = now - lag
  BY <1>3, TimerConstants DEF ClockFits, Since
<1>6. Since <= xLastTime
  BY <1>2, <1>3 DEF ClockFits
<1>7. /\ next \in Nat /\ xLastTime < next /\ Since <= next
      /\ next + MaxLag < xLastTime + TICKS /\ xLastTime < xLastTime + TICKS
      /\ xLastTime <= xLastTime
  BY <1>1, <1>4, <1>5, <1>6
<1>8. FirstBase = Base(xLastTime) /\ FirstBase' = FirstBase
  BY <1>2 DEF FirstBase, Base
<1>9. xTimerPeriodInTicks' \in [Timer -> Period] /\ xTimerPeriodInTicks'[t] = p
  BY <1>2, <1>3, <1>4 DEF ClockFits
<1>10. \/ place = "current" /\ Base(next) = FirstBase
       \/ place = "overflow" /\ Base(next) = FirstBase + TICKS
  <2>1. xLastTime' = xLastTime /\ next = xLastTime + p
    BY <1>1, <1>2
  <2>2. LET q == Expiring!Place(t, next, xLastTime)
        IN  \/ q = "expired" /\ next <= xLastTime
            \/ q = "current" /\ xLastTime < next /\ Base(next) = Base(xLastTime)
            \/ q = "overflow" /\ xLastTime < next /\ Base(next) = Base(xLastTime) + TICKS
    BY <1>4, <1>5, <1>7, <1>9, <2>1, PlaceIsRight
  <2>3. ~ (next <= xLastTime)
    BY <1>5, <1>7
  <2> QED BY <1>1, <1>8, <2>2, <2>3
<1>11. ToSet(current) \cup ToSet(overflow) = Active \ {t}
  BY <1>3 DEF Active
<1>12. TakenFits'
  BY <1>2 DEF TakenFits
<1>13. /\ FirstBase = FirstBase' /\ xLastTime' \in {xLastTime, now}
       /\ timer_pc' \notin {"blocked", "process", "switch"}
       /\ UNCHANGED <<now, lag, wake>>
       /\ Since <= next /\ next + MaxLag < xLastTime' + TICKS
       /\ Expiring!Insert(t, next, place, current, overflow)
       /\ place = "current" => Base(next) = FirstBase
       /\ place = "overflow" => Base(next) = FirstBase + TICKS
       /\ place \in {"current", "overflow"} /\ next \in Nat \cup {NULL}
  BY <1>2, <1>7, <1>8, <1>10
<1>14. \A u, c : Coming(xTimerQueue, u, c) => Coming(xTimerQueue', u, c)
  BY <1>2
<1>15. TimersFit'
  BY <1>2, <1>3, <1>4, <1>7, <1>9, <1>11, <1>12, <1>13, <1>14, TimerPlaced
<1> QED BY <1>2, <1>15 DEF TimersInv

-----------------------------------------------------------------------------
LEMMA TimersNext == TimersInv /\ [Expiring!Next]_(Expiring!vars) => TimersInv'
<1> SUFFICES ASSUME TimersInv, [Expiring!Next]_(Expiring!vars) PROVE TimersInv'
  OBVIOUS
<1>0. ~ early /\ (~ asserted => TimersFit)
  BY DEF TimersInv
<1>1. CASE UNCHANGED Expiring!vars
  BY <1>0, <1>1
     DEF Expiring!vars, Expiring!lists, Expiring!commands, Expiring!daemon, TimersInv,
         TimersFit, ClockFits, TakenFits, TimesFit, DueFits, FirstBase, Base, Since,
         Active, Expiring!Awake
<1>2. CASE Expiring!Tick
  BY <1>0, <1>2, TimersTick DEF Expiring!Tick
<1>3. ASSUME NEW t \in Timer,
             \/ Expiring!xTimerStart(t) \/ Expiring!xTimerStop(t)
             \/ \E period \in Period : Expiring!xTimerChangePeriod(t, period)
      PROVE  TimersInv'
  <2>1. ~ asserted
    BY <1>3 DEF Expiring!xTimerStart, Expiring!xTimerStop, Expiring!xTimerChangePeriod,
       Expiring!Command
  <2>2. CASE Expiring!xTimerStart(t)
    BY <1>0, <2>1, <2>2, TimersCommand DEF Expiring!xTimerStart
  <2>3. CASE Expiring!xTimerStop(t)
    BY <1>0, <2>1, <2>3, TimersCommand DEF Expiring!xTimerStop
  <2>4. ASSUME NEW period \in Period, Expiring!xTimerChangePeriod(t, period)
        PROVE  TimersInv'
    BY <1>0, <2>1, <2>4, TimersCommand DEF Expiring!xTimerChangePeriod
  <2> QED BY <1>3, <2>2, <2>3, <2>4
<1>4. CASE Expiring!LookSwitches \/ Expiring!Wake \/ Expiring!NoMoreCommands
  <2>1. ~ asserted
    BY <1>4 DEF Expiring!LookSwitches, Expiring!Wake, Expiring!NoMoreCommands
  <2> QED BY <1>0, <1>4, <2>1, TimersLook
<1>5. CASE Expiring!ProcessExpired
  BY <1>0, <1>5, TimersExpire DEF Expiring!ProcessExpired
<1>6. CASE Expiring!Block
  BY <1>0, <1>6, TimersBlock DEF Expiring!Block
<1>7. CASE Expiring!SwitchOne
  BY <1>0, <1>7, TimersSwitchOne DEF Expiring!SwitchOne
<1>8. CASE Expiring!Switch
  BY <1>0, <1>8, TimersSwitch DEF Expiring!Switch
<1>9. CASE Expiring!Receive
  BY <1>0, <1>9, TimersReceive DEF Expiring!Receive
<1>10. CASE Expiring!ProcessStart
  BY <1>0, <1>10, TimersStart DEF Expiring!ProcessStart, Expiring!Processed
<1>11. CASE Expiring!ProcessStop
  BY <1>0, <1>11, TimersStop DEF Expiring!ProcessStop, Expiring!Processed
<1>12. CASE Expiring!ProcessChangePeriod
  BY <1>0, <1>12, TimersChange DEF Expiring!ProcessChangePeriod, Expiring!Processed
<1> QED BY <1>1, <1>2, <1>3, <1>4, <1>5, <1>6, <1>7, <1>8, <1>9, <1>10, <1>11, <1>12
        DEF Expiring!Next

LEMMA TimersInductive == Spec => []TimersInv
<1>1. Init => TimersInv
  BY TimersInit DEF Init
<1>2. TimersInv /\ [Next]_vars => TimersInv'
  <2> SUFFICES ASSUME TimersInv, [Next]_vars PROVE TimersInv'
    OBVIOUS
  <2>1. Expiring!Next \/ UNCHANGED timers
    BY DEF Next, vars
  <2>2. Expiring!Next \/ UNCHANGED Expiring!vars
    BY <2>1 DEF timers, Expiring!vars, Expiring!lists, Expiring!commands,
       Expiring!daemon
  <2> QED BY <2>2, TimersNext
<1> QED BY <1>1, <1>2, PTL DEF Spec

\* No callback of a timer comes before its time, and no timer that is to expire is
\* forgotten or more than the daemon's lag late, across any number of overflows of
\* the tick count.
THEOREM TimersExpireOnTime == Spec => []ExpiresOnTime
<1>1. TimersInv => ExpiresOnTime
  <2> SUFFICES ASSUME TimersInv, ~ asserted, NEW t \in Timer, due[t] # NULL
               PROVE  /\ now <= due[t] + MaxLag
                      /\ \/ t \in ToSet(current) \cup ToSet(overflow)
                         \/ \E i \in 1..Len(xTimerQueue) : xTimerQueue[i].timer = t
    BY TimerOperators DEF ExpiresOnTime, Expiring!ExpiresOnTime, TimersInv
  <2>1. /\ ClockFits /\ TimesFit /\ DueFits /\ QueueFits(xTimerQueue, Since, now)
    BY DEF TimersInv, TimersFit
  <2>2. due[t] \in Nat /\ now \in Nat /\ lag \in 0..MaxLag /\ MaxLag \in Nat
    BY <2>1, TimerConstants DEF ClockFits
  <2>3. CASE t \in Active
    <3>1. now - lag <= due[t]
      BY <2>1, <2>3 DEF TimesFit, Since
    <3> QED BY <2>2, <2>3, <3>1 DEF Active
  <2>4. CASE Coming(xTimerQueue, t, due[t])
    <3>1. PICK i \in 1..Len(xTimerQueue) :
             xTimerQueue[i].timer = t /\ xTimerQueue[i].time <= due[t]
      BY <2>4 DEF Coming
    <3>2. PICK x : x = xTimerQueue[i].time
      OBVIOUS
    <3>3. x \in Nat /\ now - lag <= x /\ x <= due[t]
      BY <2>1, <3>1, <3>2 DEF QueueFits, SentWithin, TimerMessage, Since
    <3>4. now <= due[t] + MaxLag
      BY <2>2, <3>3
    <3> QED BY <3>1, <3>4
  <2> QED BY <2>1, <2>3, <2>4 DEF DueFits
<1> QED BY <1>1, TimersInductive, PTL
=============================================================================
