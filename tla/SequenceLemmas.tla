---------------------------- MODULE SequenceLemmas ----------------------------
(***************************************************************************)
(* Quotients and remainders, least elements, and what the operators of     *)
(* SequencesExt return, for the proofs about rings, lists and the heap.    *)
(***************************************************************************)
EXTENDS Integers, SequencesExt, SequenceTheorems, WellFoundedInduction, TLAPS

-----------------------------------------------------------------------------
(***************************************************************************)
(* Quotients and remainders.                                               *)
(***************************************************************************)
LEMMA Divided ==
    ASSUME NEW d \in Nat \ {0}, NEW a \in Int
    PROVE  /\ a \div d \in Int /\ a % d \in 0..d - 1
           /\ a = d * (a \div d) + (a % d)
OBVIOUS

\* A remainder is the only one.
LEMMA RemainderIs ==
    ASSUME NEW d \in Nat \ {0}, NEW a \in Int, NEW k \in Int, NEW r \in 0..d - 1,
           a = d * k + r
    PROVE  a % d = r
<1>1. PICK q, s : q = a \div d /\ s = a % d
  OBVIOUS
<1>2. q \in Int /\ s \in 0..d - 1 /\ a = d * q + s
  BY <1>1, Divided
<1>3. d * (k - q) = s - r /\ k - q \in Int
  BY <1>2
<1>4. /\ k - q >= 1 => d * (k - q) >= d
      /\ k - q <= -1 => d * (k - q) <= -d
  BY <1>3
<1>5. k - q = 0
  BY <1>2, <1>3, <1>4
<1>6. s = r
  BY <1>2, <1>3, <1>5
<1> QED BY <1>1, <1>6

-----------------------------------------------------------------------------
(***************************************************************************)
(* Least and greatest elements.                                            *)
(***************************************************************************)
\* A non-empty set of natural numbers has a least element, and Min is it.
LEMMA MinOfNat ==
    ASSUME NEW X \in SUBSET Nat, X # {}
    PROVE  Min(X) \in X /\ \A y \in X : Min(X) <= y
<1> DEFINE R == OpToRel(<, Nat)
<1>1. \A x, y \in Nat : <<x, y>> \in R <=> x < y
  BY DEF OpToRel
<1>2. IsWellFoundedOn(R, Nat)
  BY NatLessThanWellFounded
<1> HIDE DEF R
<1>3. PICK x \in X : \A y \in X : ~ (<<y, x>> \in R)
  BY <1>2, WFMin
<1>4. ASSUME NEW y \in X PROVE x <= y
  <2>1. x \in Nat /\ y \in Nat
    OBVIOUS
  <2>2. ~ (y < x)
    BY <1>1, <1>3, <2>1
  <2> QED BY <2>1, <2>2
<1> QED BY <1>4 DEF Min

\* A non-empty set of numbers up to a bound has a greatest element, and Max is
\* it.
LEMMA MaxOfNat ==
    ASSUME NEW n \in Nat, NEW X \in SUBSET (0..n), X # {}
    PROVE  Max(X) \in X /\ \A y \in X : Max(X) >= y
<1> DEFINE Y == {n - x : x \in X}
<1>1. Y \in SUBSET Nat /\ Y # {}
  <2>1. \A x \in X : x \in 0..n /\ n - x \in Nat
    OBVIOUS
  <2> QED BY <2>1
<1>2. Min(Y) \in Y /\ \A y \in Y : Min(Y) <= y
  BY <1>1, MinOfNat
<1>3. PICK x \in X : Min(Y) = n - x
  BY <1>2
<1>4. ASSUME NEW y \in X PROVE x >= y
  <2>1. x \in 0..n /\ y \in 0..n
    OBVIOUS
  <2>2. n - x <= n - y
    BY <1>2, <1>3
  <2> QED BY <2>1, <2>2
<1> QED BY <1>4 DEF Max

-----------------------------------------------------------------------------
(***************************************************************************)
(* Sets of items.                                                          *)
(***************************************************************************)
LEMMA ToSetByIndex ==
    ASSUME NEW S, NEW s \in Seq(S)
    PROVE  /\ ToSet(s) \subseteq S
           /\ \A x : x \in ToSet(s) <=> \E i \in 1..Len(s) : s[i] = x
BY DEF ToSet

LEMMA ContainsIsIn ==
    ASSUME NEW S, NEW s \in Seq(S), NEW x
    PROVE  Contains(s, x) <=> x \in ToSet(s)
BY ToSetByIndex DEF Contains

\* A list is empty exactly when its set is.
LEMMA EmptyByItems ==
    ASSUME NEW S, NEW s \in Seq(S)
    PROVE  s = <<>> <=> ToSet(s) = {}
<1>1. Len(s) \in Nat /\ (s = <<>> <=> Len(s) = 0)
  BY EmptySeq, LenProperties
<1>2. s # <<>> => s[1] \in ToSet(s)
  BY <1>1, ToSetByIndex
<1> QED BY <1>1, <1>2, ToSetByIndex

-----------------------------------------------------------------------------
(***************************************************************************)
(* Removal and insertion at a position.                                    *)
(***************************************************************************)
LEMMA RemoveAtElements ==
    ASSUME NEW S, NEW s \in Seq(S), NEW i \in 1..Len(s)
    PROVE  /\ RemoveAt(s, i) \in Seq(S)
           /\ Len(RemoveAt(s, i)) = Len(s) - 1
           /\ \A j \in 1..Len(s) - 1 :
                 RemoveAt(s, i)[j] = IF j < i THEN s[j] ELSE s[j + 1]
<1> DEFINE a == SubSeq(s, 1, i - 1)
           b == SubSeq(s, i + 1, Len(s))
<1>1. \A j \in 1..Len(s) : s[j] \in S
  BY ElementOfSeq
<1>2. Len(s) \in Nat
  BY LenProperties
<1>3. /\ a \in Seq(S) /\ Len(a) = i - 1
      /\ \A j \in 1..i - 1 : a[j] = s[j]
  BY <1>1, <1>2, SubSeqProperties
<1>4. /\ b \in Seq(S) /\ Len(b) = Len(s) - i
      /\ \A j \in 1..Len(s) - i : b[j] = s[i + j]
  BY <1>1, <1>2, SubSeqProperties
<1> HIDE DEF a, b
<1>5. /\ a \o b \in Seq(S) /\ Len(a \o b) = Len(s) - 1
      /\ \A j \in 1..Len(s) - 1 :
            (a \o b)[j] = IF j <= i - 1 THEN a[j] ELSE b[j - (i - 1)]
  <2>1. Len(a) + Len(b) = Len(s) - 1
    BY <1>2, <1>3, <1>4
  <2>2. /\ a \o b \in Seq(S) /\ Len(a \o b) = Len(a) + Len(b)
        /\ \A j \in 1..Len(a) + Len(b) :
              (a \o b)[j] = IF j <= Len(a) THEN a[j] ELSE b[j - Len(a)]
    BY <1>3, <1>4, ConcatProperties
  <2> QED BY <1>3, <2>1, <2>2
<1>6. RemoveAt(s, i) = a \o b
  BY DEF RemoveAt, a, b
<1>7. ASSUME NEW j \in 1..Len(s) - 1, j > i - 1
      PROVE  b[j - (i - 1)] = s[j + 1]
  <2>1. j - (i - 1) \in 1..Len(s) - i /\ i + (j - (i - 1)) = j + 1
    BY <1>2, <1>7
  <2> QED BY <1>4, <2>1
<1> QED BY <1>2, <1>3, <1>5, <1>6, <1>7

LEMMA InsertAtElements ==
    ASSUME NEW S, NEW s \in Seq(S), NEW i \in 1..Len(s) + 1, NEW x \in S
    PROVE  /\ InsertAt(s, i, x) \in Seq(S)
           /\ Len(InsertAt(s, i, x)) = Len(s) + 1
           /\ InsertAt(s, i, x)[i] = x
           /\ \A j \in 1..i - 1 : InsertAt(s, i, x)[j] = s[j]
           /\ \A j \in i + 1..Len(s) + 1 : InsertAt(s, i, x)[j] = s[j - 1]
<1> DEFINE a == SubSeq(s, 1, i - 1)
           b == SubSeq(s, i, Len(s))
           ax == a \o <<x>>
<1>1. \A j \in 1..Len(s) : s[j] \in S
  BY ElementOfSeq
<1>2. Len(s) \in Nat
  BY LenProperties
<1>3. /\ a \in Seq(S) /\ Len(a) = i - 1
      /\ \A j \in 1..i - 1 : a[j] = s[j]
  BY <1>1, <1>2, SubSeqProperties
<1>4. /\ b \in Seq(S) /\ Len(b) = Len(s) - i + 1
      /\ \A j \in 1..Len(s) - i + 1 : b[j] = s[i + j - 1]
  BY <1>1, <1>2, SubSeqProperties
<1>5. <<x>> \in Seq(S) /\ Len(<<x>>) = 1 /\ <<x>>[1] = x
  OBVIOUS
<1> HIDE DEF a, b
<1>6. /\ ax \in Seq(S) /\ Len(ax) = i
      /\ \A j \in 1..i : ax[j] = IF j <= i - 1 THEN a[j] ELSE <<x>>[j - (i - 1)]
  BY <1>2, <1>3, <1>5, ConcatProperties
<1>7. \A j \in 1..i : ax[j] = IF j < i THEN s[j] ELSE x
  BY <1>2, <1>3, <1>5, <1>6
<1>8. InsertAt(s, i, x) = ax \o b
  BY DEF InsertAt, a, b
<1> HIDE DEF ax
<1>9. /\ ax \o b \in Seq(S) /\ Len(ax \o b) = Len(s) + 1
      /\ \A j \in 1..Len(s) + 1 :
            (ax \o b)[j] = IF j <= i THEN ax[j] ELSE b[j - i]
  <2>1. Len(ax) + Len(b) = Len(s) + 1
    BY <1>2, <1>4, <1>6
  <2>2. /\ ax \o b \in Seq(S) /\ Len(ax \o b) = Len(ax) + Len(b)
        /\ \A j \in 1..Len(ax) + Len(b) :
              (ax \o b)[j] = IF j <= Len(ax) THEN ax[j] ELSE b[j - Len(ax)]
    BY <1>4, <1>6, ConcatProperties
  <2> QED BY <1>6, <2>1, <2>2
<1>10. ASSUME NEW j \in 1..Len(s) + 1, j > i
       PROVE  b[j - i] = s[j - 1]
  <2>1. j - i \in 1..Len(s) - i + 1 /\ i + (j - i) - 1 = j - 1
    BY <1>2, <1>10
  <2> QED BY <1>4, <2>1
<1> QED BY <1>2, <1>7, <1>8, <1>9, <1>10

-----------------------------------------------------------------------------
(***************************************************************************)
(* Removal of the first occurrence.                                        *)
(***************************************************************************)
\* RemoveFirst takes out the one occurrence of x, if there is one.
LEMMA RemoveFirstCases ==
    ASSUME NEW S, NEW s \in Seq(S), NEW x
    PROVE  \/ x \notin ToSet(s) /\ RemoveFirst(s, x) = s
           \/ \E i \in 1..Len(s) : s[i] = x /\ RemoveFirst(s, x) = RemoveAt(s, i)
<1>1. CASE x \notin ToSet(s)
  <2>1. ~ \E i \in 1..Len(s) : s[i] = x
    BY <1>1, ToSetByIndex
  <2> QED BY <1>1, <2>1 DEF RemoveFirst
<1>2. CASE x \in ToSet(s)
  <2> DEFINE I == {i \in 1..Len(s) : s[i] = x}
  <2>1. PICK i \in 1..Len(s) : s[i] = x
    BY <1>2, ToSetByIndex
  <2>2. Len(s) \in Nat
    BY LenProperties
  <2>3. I # {} /\ I \in SUBSET Nat
    BY <2>1, <2>2
  <2>4. Min(I) \in I
    BY <2>3, MinOfNat
  <2>5. RemoveFirst(s, x) = RemoveAt(s, Min(I))
    BY <2>1, <2>3 DEF RemoveFirst, SelectInSeq
  <2> QED BY <2>4, <2>5
<1> QED BY <1>1, <1>2

LEMMA RemoveFirstAbsent ==
    ASSUME NEW S, NEW s \in Seq(S), NEW x, x \notin ToSet(s)
    PROVE  RemoveFirst(s, x) = s
BY RemoveFirstCases, ToSetByIndex
=============================================================================
