-------------------------- MODULE ThreadPoolProofs ---------------------------
(***************************************************************************)
(* Proofs about ThreadPool, for every list, every size of a block and any  *)
(* number of threads: no task is lost or run twice (EachTaskOnce), nothing *)
(* is left when the pool is destroyed (NothingLeftAtShutdown), and the     *)
(* value returned is the sorted list or the sum (ResultRight).             *)
(***************************************************************************)
EXTENDS ThreadPool, FiniteSetTheorems, WellFoundedInduction, TLAPS
-----------------------------------------------------------------------------
(* Induction, and the sum of a set of elements.                            *)

LEMMA KeyIsList ==
  /\ Key \in Seq(Nat) /\ Len(Key) \in Nat \ {0}
  /\ Elements = 1..Len(Key) /\ \A i \in Elements : Key[i] \in Nat
BY PoolAssumption DEF Elements

LEMMA ElementsFinite ==
  IsFiniteSet(Elements) /\ \A S \in SUBSET Elements : IsFiniteSet(S)
<1>1. IsFiniteSet(1..Len(Key))
  BY FS_Interval, KeyIsList
<1> QED
  BY <1>1, KeyIsList, FS_Subset

\* A set that has 0, and with each number the next, has every number.
LEMMA EveryNumber ==
  ASSUME NEW S, 0 \in S, \A n \in Nat : n \in S => n + 1 \in S
  PROVE  Nat \subseteq S
<1> DEFINE R == OpToRel(<, Nat)
<1>1. \A x, y \in Nat : x < y => <<x, y>> \in R
  BY DEF OpToRel
<1>2. IsWellFoundedOn(R, Nat)
  BY NatLessThanWellFounded
<1> HIDE DEF R
<1>3. SUFFICES ASSUME Nat \ S # {} PROVE FALSE
  OBVIOUS
<1>4. PICK x \in Nat \ S : \A y \in Nat \ S : <<y, x>> \notin R
  BY <1>2, <1>3, WFMin, Nat \ S \subseteq Nat
<1>5. x # 0 /\ x - 1 \in Nat /\ x - 1 < x /\ (x - 1) + 1 = x
  OBVIOUS
<1>6. x - 1 \in S
  BY <1>1, <1>4, <1>5
<1> QED
  BY <1>5, <1>6

\* g[s] is the sum of the elements of s, for every s below n.
IsTotal(g, n) ==
  /\ g \in [SUBSET (1..n) -> Nat] /\ g[{}] = 0
  /\ \A s \in SUBSET (1..n) : \A x \in s : g[s] = Key[x] + g[s \ {x}]

LEMMA TotalStep ==
  ASSUME NEW n \in Nat, n + 1 <= Len(Key), NEW g, IsTotal(g, n)
  PROVE  \E h : IsTotal(h, n + 1)
<1> DEFINE m == n + 1
           h == [s \in SUBSET (1..m) |-> IF m \in s THEN Key[m] + g[s \ {m}] ELSE g[s]]
<1>1. m \notin 1..n /\ (1..m) \ {m} = 1..n /\ m \in 1..m /\ m \in Elements /\ Key[m] \in Nat
      /\ 1..n \subseteq 1..m /\ 1..m \subseteq Elements
  BY KeyIsList
<1>2. \A s \in SUBSET (1..m) : s \ {m} \in SUBSET (1..n) /\ (m \notin s => s \in SUBSET (1..n))
  BY <1>1
<1>3. \A s \in SUBSET (1..n) : g[s] \in Nat
  BY DEF IsTotal
<1> HIDE DEF m
<1>4. h \in [SUBSET (1..m) -> Nat]
  BY <1>1, <1>2, <1>3
<1>5. h[{}] = 0
  BY DEF IsTotal
<1>6. ASSUME NEW s \in SUBSET (1..m), NEW x \in s
      PROVE  h[s] = Key[x] + h[s \ {x}]
  <2>1. Key[x] \in Nat
    BY <1>1, KeyIsList
  <2>2. CASE m \notin s
    <3>1. h[s] = g[s] /\ h[s \ {x}] = g[s \ {x}]
      BY <2>2
    <3> QED
      BY <3>1, <1>2, <2>2 DEF IsTotal
  <2>3. CASE x = m
    BY <2>3
  <2>4. CASE m \in s /\ x # m
    <3>1. h[s] = Key[m] + g[s \ {m}]
      BY <2>4
    <3>2. h[s \ {x}] = Key[m] + g[(s \ {x}) \ {m}]
      BY <2>4
    <3>3. (s \ {x}) \ {m} = (s \ {m}) \ {x} /\ x \in s \ {m}
      BY <2>4
    <3>4. g[s \ {m}] = Key[x] + g[(s \ {m}) \ {x}]
      BY <1>2, <3>3 DEF IsTotal
    <3>5. g[(s \ {m}) \ {x}] \in Nat
      BY <1>2, <1>3
    <3> DEFINE r == g[(s \ {m}) \ {x}]
    <3>6. h[s] = Key[m] + (Key[x] + r) /\ h[s \ {x}] = Key[m] + r
      BY <3>1, <3>2, <3>3, <3>4
    <3>7. r \in Nat
      BY <3>5
    <3> HIDE DEF r, h
    <3> QED
      BY <3>6, <3>7, <2>1, <1>1
  <2> QED
    BY <2>2, <2>3, <2>4
<1>7. IsTotal(h, m)
  BY <1>4, <1>5, <1>6 DEF IsTotal
<1> QED
  BY <1>7 DEF m

LEMMA TotalExists == \E g : IsTotal(g, Len(Key))
<1> DEFINE S == {n \in Nat : n <= Len(Key) => \E g : IsTotal(g, n)}
<1>1. 0 \in S
  <2> DEFINE g == [s \in SUBSET (1..0) |-> 0]
  <2>1. IsTotal(g, 0)
    BY DEF IsTotal
  <2> QED
    BY <2>1
<1>2. ASSUME NEW n \in Nat, n \in S PROVE n + 1 \in S
  BY <1>2, TotalStep, KeyIsList
<1>3. Nat \subseteq S
  <2> HIDE DEF S
  <2> QED
    BY <1>1, <1>2, EveryNumber
<1> QED
  BY <1>3, KeyIsList

\* The sum as the fold defines it, for a total f of the subsets.
Body(f, s) == IF s = {} THEN 0 ELSE Key[CHOOSE x \in s : TRUE] + f[s \ {CHOOSE x \in s : TRUE}]

LEMMA SumIsFold ==
  ASSUME NEW S
  PROVE  SumOf(S) = (CHOOSE f : f = [s \in SUBSET S |-> Body(f, s)])[S]
BY DEF SumOf, MapThenSumSet, MapThenFoldSet, Body

LEMMA SumIsTotal ==
  ASSUME NEW g, IsTotal(g, Len(Key)), NEW S \in SUBSET Elements
  PROVE  SumOf(S) = g[S]
<1> DEFINE Fold(f) == f = [s \in SUBSET S |-> Body(f, s)]
           h == [s \in SUBSET S |-> g[s]]
           f == CHOOSE f : Fold(f)
<1>1. IsFiniteSet(S) /\ \A s \in SUBSET S : s \in SUBSET (1..Len(Key))
  BY ElementsFinite, KeyIsList
<1>2. Fold(h)
  <2>1. ASSUME NEW s \in SUBSET S PROVE g[s] = Body(h, s)
    <3>1. CASE s = {}
      BY <3>1 DEF IsTotal, Body
    <3>2. CASE s # {}
      <4> DEFINE x == CHOOSE x \in s : TRUE
      <4>1. x \in s
        BY <3>2
      <4>2. g[s] = Key[x] + g[s \ {x}]
        BY <4>1, <1>1 DEF IsTotal
      <4>3. h[s \ {x}] = g[s \ {x}]
        OBVIOUS
      <4> QED
        BY <4>2, <4>3, <3>2 DEF Body
    <3> QED
      BY <3>1, <3>2
  <2> QED
    BY <2>1
<1>3. Fold(f)
  <2> HIDE DEF h
  <2> QED
    BY <1>2
<1>4. SumOf(S) = f[S]
  BY SumIsFold
<1>5. \A s \in SUBSET S : f[s] = Body(f, s)
  <2> HIDE DEF f
  <2> QED
    BY <1>3
<1> DEFINE N == {n \in Nat : \A s \in SUBSET S : Cardinality(s) = n => f[s] = g[s]}
<1> HIDE DEF f
<1>6. 0 \in N
  <2>1. ASSUME NEW s \in SUBSET S, Cardinality(s) = 0 PROVE f[s] = g[s]
    <3>1. s = {}
      BY <1>1, <2>1, FS_Subset, FS_EmptySet
    <3> QED
      BY <3>1, <1>5 DEF Body, IsTotal
  <2> QED
    BY <2>1
<1>7. ASSUME NEW n \in Nat, n \in N PROVE n + 1 \in N
  <2>1. ASSUME NEW s \in SUBSET S, Cardinality(s) = n + 1 PROVE f[s] = g[s]
    <3>1. IsFiniteSet(s)
      BY <1>1, FS_Subset
    <3>2. s # {}
      BY <2>1, FS_EmptySet
    <3> DEFINE x == CHOOSE x \in s : TRUE
    <3>3. x \in s
      BY <3>2
    <3>4. Cardinality(s \ {x}) = n
      <4>1. Cardinality(s \ {x}) = Cardinality(s) - 1
        BY <3>1, <3>3, FS_RemoveElement, Zenon
      <4> QED
        BY <4>1, <2>1
    <3>5. f[s \ {x}] = g[s \ {x}]
      BY <3>4, <1>7
    <3>6. f[s] = Key[x] + f[s \ {x}]
      BY <1>5, <3>2 DEF Body
    <3>7. g[s] = Key[x] + g[s \ {x}]
      BY <3>3, <1>1 DEF IsTotal
    <3> QED
      BY <3>5, <3>6, <3>7
  <2> QED
    BY <2>1
<1>8. Nat \subseteq N
  <2> HIDE DEF N
  <2> QED
    BY <1>6, <1>7, EveryNumber
<1>9. Cardinality(S) \in Nat
  BY <1>1, FS_CardinalityType
<1> QED
  BY <1>4, <1>8, <1>9

\* The sum of a set is a number, and sums of disjoint sets add up.
LEMMA SumIsNumber ==
  /\ SumOf({}) = 0
  /\ \A S \in SUBSET Elements : SumOf(S) \in Nat
<1>1. PICK g : IsTotal(g, Len(Key))
  BY TotalExists
<1>2. \A S \in SUBSET Elements : SumOf(S) = g[S] /\ S \in SUBSET (1..Len(Key))
  BY <1>1, SumIsTotal, KeyIsList
<1> QED
  BY <1>1, <1>2 DEF IsTotal

LEMMA SumsAdd ==
  ASSUME NEW A \in SUBSET Elements, NEW B \in SUBSET Elements, A \cap B = {}
  PROVE  SumOf(A \cup B) = SumOf(A) + SumOf(B)
<1>1. PICK g : IsTotal(g, Len(Key))
  BY TotalExists
<1>2. \A s \in SUBSET Elements :
        SumOf(s) = g[s] /\ g[s] \in Nat /\ \A x \in s : Key[x] \in Nat /\ g[s] = Key[x] + g[s \ {x}]
  BY <1>1, SumIsTotal, KeyIsList DEF IsTotal
<1>3. IsFiniteSet(B)
  BY ElementsFinite
<1> DEFINE N == {n \in Nat : \A s \in SUBSET B : Cardinality(s) = n => g[A \cup s] = g[A] + g[s]}
<1>4. 0 \in N
  <2>1. ASSUME NEW s \in SUBSET B, Cardinality(s) = 0 PROVE g[A \cup s] = g[A] + g[s]
    <3>1. s = {} /\ A \cup s = A
      BY <1>3, <2>1, FS_Subset, FS_EmptySet
    <3>2. g[s] = 0
      BY <3>1, <1>1 DEF IsTotal
    <3> QED
      BY <3>1, <3>2, <1>2
  <2> QED
    BY <2>1
<1>5. ASSUME NEW n \in Nat, n \in N PROVE n + 1 \in N
  <2>1. ASSUME NEW s \in SUBSET B, Cardinality(s) = n + 1 PROVE g[A \cup s] = g[A] + g[s]
    <3>1. IsFiniteSet(s)
      BY <1>3, FS_Subset
    <3>2. PICK x \in s : TRUE
      BY <2>1, FS_EmptySet
    <3>3. Cardinality(s \ {x}) = n
      <4>1. Cardinality(s \ {x}) = Cardinality(s) - 1
        BY <3>1, <3>2, FS_RemoveElement, Zenon
      <4> QED
        BY <4>1, <2>1
    <3>4. g[A \cup (s \ {x})] = g[A] + g[s \ {x}]
      BY <3>3, <1>5
    <3>5. (A \cup s) \ {x} = A \cup (s \ {x}) /\ x \in A \cup s /\ A \cup s \in SUBSET Elements
          /\ s \in SUBSET Elements /\ s \ {x} \in SUBSET Elements
      OBVIOUS
    <3>6. g[A \cup s] = Key[x] + g[A \cup (s \ {x})] /\ g[s] = Key[x] + g[s \ {x}] /\ Key[x] \in Nat
      BY <3>5, <1>2
    <3>7. g[A] \in Nat /\ g[s \ {x}] \in Nat
      BY <3>5, <1>2
    <3> QED
      BY <3>4, <3>6, <3>7
  <2> QED
    BY <1>5, <2>1
<1>6. Nat \subseteq N
  <2> HIDE DEF N
  <2> QED
    BY <1>4, <1>5, EveryNumber
<1>7. Cardinality(B) \in Nat
  BY <1>3, FS_CardinalityType
<1>8. g[A \cup B] = g[A] + g[B]
  BY <1>6, <1>7
<1> QED
  BY <1>2, <1>8

-----------------------------------------------------------------------------
(* Sequences, and sorted ones.                                             *)

LEMMA AppendIs ==
  ASSUME NEW S, NEW s \in Seq(S), NEW x \in S
  PROVE  /\ Append(s, x) \in Seq(S) /\ Len(Append(s, x)) = Len(s) + 1
         /\ \A k \in 1..Len(s) : Append(s, x)[k] = s[k]
         /\ Append(s, x)[Len(s) + 1] = x
OBVIOUS

LEMMA TailIs ==
  ASSUME NEW S, NEW s \in Seq(S), s # <<>>
  PROVE  /\ Tail(s) \in Seq(S) /\ Len(s) \in Nat \ {0} /\ Len(Tail(s)) = Len(s) - 1
         /\ \A k \in 1..Len(s) - 1 : Tail(s)[k] = s[k + 1]
         /\ Head(s) = s[1] /\ Head(s) \in S
OBVIOUS

LEMMA PrefixIs ==
  ASSUME NEW S, NEW s \in Seq(S), NEW n \in 0..Len(s)
  PROVE  /\ SubSeq(s, 1, n) \in Seq(S) /\ Len(SubSeq(s, 1, n)) = n
         /\ \A k \in 1..n : SubSeq(s, 1, n)[k] = s[k]
OBVIOUS

LEMMA JoinIs ==
  ASSUME NEW S, NEW s \in Seq(S), NEW x \in S
  PROVE  /\ s \o <<x>> \in Seq(S) /\ Len(s \o <<x>>) = Len(s) + 1
         /\ \A k \in 1..Len(s) : (s \o <<x>>)[k] = s[k]
         /\ (s \o <<x>>)[Len(s) + 1] = x
OBVIOUS

Sorting(s, S) ==
  /\ s \in Seq(Elements) /\ Len(s) = Cardinality(S)
  /\ \A i \in DOMAIN s : s[i] \in S
  /\ \A x \in S : \E i \in DOMAIN s : s[i] = x
  /\ \A i, j \in DOMAIN s : i < j => Key[s[i]] <= Key[s[j]]

Lower(chunk, p) == {x \in chunk : Key[x] < Key[p]}

LEMMA EmptySorted == Sorting(<<>>, {})
BY FS_EmptySet DEF Sorting

LEMMA PartsOf ==
  ASSUME NEW chunk \in SUBSET Elements, NEW p \in chunk
  PROVE  /\ Lower(chunk, p) \in SUBSET Elements /\ Higher(chunk, p) \in SUBSET Elements
         /\ chunk = (Lower(chunk, p) \cup Higher(chunk, p)) \cup {p}
         /\ p \notin Lower(chunk, p) \cup Higher(chunk, p)
         /\ Cardinality(chunk) = Cardinality(Lower(chunk, p)) + 1 + Cardinality(Higher(chunk, p))
<1> DEFINE L == Lower(chunk, p)
           H == Higher(chunk, p)
<1>1. L \in SUBSET Elements /\ H \in SUBSET Elements /\ L \cap H = {} /\ Key[p] \in Nat
  BY KeyIsList DEF Lower, Higher
<1>2. chunk = (L \cup H) \cup {p}
  BY DEF Lower, Higher
<1>3. p \notin L \cup H
  BY <1>1 DEF Lower, Higher
<1>4. IsFiniteSet(L) /\ IsFiniteSet(H)
  BY <1>1, ElementsFinite
<1> HIDE DEF L, H
<1>5. IsFiniteSet(L \cup H) /\ Cardinality(L \cup H) = Cardinality(L) + Cardinality(H) - Cardinality({})
  BY <1>1, <1>4, FS_Union, Zenon
<1>6. Cardinality((L \cup H) \cup {p}) = Cardinality(L \cup H) + 1
  BY <1>3, <1>5, FS_AddElement
<1>7. Cardinality(L) \in Nat /\ Cardinality(H) \in Nat /\ Cardinality({}) = 0
  BY <1>4, FS_CardinalityType, FS_EmptySet
<1>8. Cardinality(chunk) = Cardinality(L) + 1 + Cardinality(H)
  <2>1. Cardinality(chunk) = Cardinality(L \cup H) + 1
    BY <1>2, <1>6, Zenon
  <2> QED
    BY <2>1, <1>5, <1>7
<1> QED
  BY <1>1, <1>2, <1>3, <1>8 DEF L, H

\* Merge: the sorted lower part, the pivot and the sorted rest are sorted.
LEMMA MergeSorts ==
  ASSUME NEW chunk \in SUBSET Elements, NEW p \in chunk, NEW lower, NEW higher,
         Sorting(lower, Lower(chunk, p)), Sorting(higher, Higher(chunk, p))
  PROVE  Sorting(Merged(lower, p, higher), chunk)
<1> DEFINE L == Lower(chunk, p)
           H == Higher(chunk, p)
           m == Merged(lower, p, higher)
<1>1. lower \in Seq(Elements) /\ higher \in Seq(Elements) /\ p \in Elements
  BY DEF Sorting
<1>2. PICK a \in Nat : a = Len(lower)
  BY <1>1
<1>3. PICK b \in Nat : b = Len(higher)
  BY <1>1
<1>4. DOMAIN lower = 1..a /\ DOMAIN higher = 1..b
  BY <1>1, <1>2, <1>3
<1>5. m \in Seq(Elements) /\ Len(m) = a + 1 + b
  BY <1>1, <1>2, <1>3 DEF Merged
<1>6. DOMAIN m = 1..a + 1 + b
  BY <1>5
<1>7. (\A i \in 1..a : m[i] = lower[i]) /\ m[a + 1] = p /\ \A i \in 1..b : m[a + 1 + i] = higher[i]
  BY <1>1, <1>2, <1>3 DEF Merged
<1>8. \A i \in 1..a + 1 + b : i \in 1..a \/ i = a + 1 \/ \E j \in 1..b : i = a + 1 + j
  <2> TAKE i \in 1..a + 1 + b
  <2>1. CASE i > a + 1
    <3>1. i - (a + 1) \in 1..b /\ i = a + 1 + (i - (a + 1))
      BY <2>1
    <3> QED
      BY <3>1
  <2> QED
    BY <2>1
<1>9. (\A i \in 1..a : lower[i] \in L) /\ \A i \in 1..b : higher[i] \in H
  BY <1>4 DEF Sorting
<1>10. /\ \A i, j \in 1..a : i < j => Key[lower[i]] <= Key[lower[j]]
       /\ \A i, j \in 1..b : i < j => Key[higher[i]] <= Key[higher[j]]
  BY <1>4 DEF Sorting
<1>11. /\ \A x \in L : Key[x] \in Nat /\ Key[x] < Key[p]
       /\ \A x \in H : Key[x] \in Nat /\ Key[p] <= Key[x]
       /\ Key[p] \in Nat /\ L \subseteq chunk /\ H \subseteq chunk /\ chunk \subseteq L \cup H \cup {p}
  BY KeyIsList DEF Lower, Higher
<1>12. Len(m) = Cardinality(chunk)
  <2>1. a = Cardinality(L) /\ b = Cardinality(H)
    BY <1>2, <1>3 DEF Sorting
  <2>2. Cardinality(chunk) = Cardinality(L) + 1 + Cardinality(H)
    BY PartsOf, Zenon
  <2> QED
    BY <1>5, <2>1, <2>2
<1>20. (\A x \in L : \E i \in 1..a : lower[i] = x) /\ \A x \in H : \E i \in 1..b : higher[i] = x
  BY <1>4 DEF Sorting
<1> HIDE DEF L, H, m
<1>13. \A i \in 1..a + 1 + b : m[i] \in chunk
  BY <1>7, <1>8, <1>9, <1>11
<1>14. ASSUME NEW x \in chunk PROVE \E i \in 1..a + 1 + b : m[i] = x
  <2>1. CASE x \in L
    <3>1. PICK i \in 1..a : lower[i] = x
      BY <2>1, <1>20
    <3>2. i \in 1..a + 1 + b
      OBVIOUS
    <3> QED
      BY <3>1, <3>2, <1>7
  <2>2. CASE x = p
    BY <2>2, <1>7, a + 1 \in 1..a + 1 + b
  <2>3. CASE x \in H
    <3>1. PICK i \in 1..b : higher[i] = x
      BY <2>3, <1>20
    <3>2. a + 1 + i \in 1..a + 1 + b
      OBVIOUS
    <3> QED
      BY <3>1, <3>2, <1>7
  <2> QED
    BY <2>1, <2>2, <2>3, <1>11
<1>15. ASSUME NEW i \in 1..a + 1 + b, NEW j \in 1..a + 1 + b, i < j
       PROVE  Key[m[i]] <= Key[m[j]]
  <2>1. CASE i \in 1..a
    <3>1. m[i] = lower[i] /\ lower[i] \in L
      BY <2>1, <1>7, <1>9
    <3>2. CASE j \in 1..a
      BY <2>1, <3>2, <1>7, <1>10, <1>15
    <3>3. CASE j = a + 1
      BY <3>1, <3>3, <1>7, <1>11
    <3>4. ASSUME NEW k \in 1..b, j = a + 1 + k PROVE Key[m[i]] <= Key[m[j]]
      <4>1. m[j] \in H
        BY <3>4, <1>7, <1>9
      <4> QED
        BY <4>1, <3>1, <1>11
    <3> QED
      BY <3>2, <3>3, <3>4, <1>8
  <2>2. CASE i = a + 1
    <3>1. PICK k \in 1..b : j = a + 1 + k
      BY <2>2, <1>8, <1>15
    <3>2. m[j] \in H
      BY <3>1, <1>7, <1>9
    <3> QED
      BY <3>2, <2>2, <1>7, <1>11
  <2>3. ASSUME NEW l \in 1..b, i = a + 1 + l PROVE Key[m[i]] <= Key[m[j]]
    <3>1. PICK k \in 1..b : j = a + 1 + k
      BY <2>3, <1>8, <1>15
    <3>2. l < k
      BY <2>3, <3>1, <1>15
    <3> QED
      BY <3>1, <3>2, <2>3, <1>7, <1>10
  <2> QED
    BY <2>1, <2>2, <2>3, <1>8
<1> QED
  BY <1>5, <1>6, <1>12, <1>13, <1>14, <1>15 DEF Sorting, m

-----------------------------------------------------------------------------
(* The inductive invariant.                                                *)

Frames ==
  [task : Nat, chunk : SUBSET Elements, pc : {"begin", "higher", "wait", "block"},
   pivot : Nat, lower : Nat, higher : Seq(Elements)]
Tasks == [id : Nat \ {0}, chunk : SUBSET Elements]
Futures == [ready : BOOLEAN, value : Seq(Elements) \cup Nat]

PoolTypeOK ==
  /\ mode \in {"sort", "sum", "spawn"}
  /\ blocks \in Nat \ {0} /\ got \in 0..blocks
  /\ started \in SUBSET Workers
  /\ work_queue \in Seq(Tasks)
  /\ futures \in Seq(Futures)
  /\ stack \in [Threads -> Seq(Frames)]
  /\ done \in BOOLEAN

Submitted(id) == id \in 1..Len(futures)
Unfinished(id) == Submitted(id) /\ ~futures[id].ready
Calls(t) == 1..Len(stack[t])

\* Who is queued is unfinished and queued once.
QueueOK ==
  /\ \A i \in 1..Len(work_queue) : Unfinished(work_queue[i].id)
  /\ \A i, j \in 1..Len(work_queue) : work_queue[i].id = work_queue[j].id => i = j

\* What runs is unfinished and not queued, and runs once.
CallsOK ==
  /\ \A t \in Threads : \A k \in Calls(t) :
       stack[t][k].task # NoTask =>
         /\ Unfinished(stack[t][k].task)
         /\ \A i \in 1..Len(work_queue) : work_queue[i].id # stack[t][k].task
  /\ \A t, u \in Threads : \A k \in Calls(t) : \A l \in Calls(u) :
       stack[t][k].task = stack[u][l].task /\ stack[t][k].task # NoTask => t = u /\ k = l

NoneLost ==
  \A id \in Nat :
    Unfinished(id) =>
      \/ \E i \in 1..Len(work_queue) : work_queue[i].id = id
      \/ \E t \in Threads : \E k \in Calls(t) : stack[t][k].task = id

\* A call below another is in its own call of do_sort, or helps while it waits;
\* it waits for a task younger than the first of its thread.
CallOK(t, k) ==
  LET f == stack[t][k]
  IN  /\ k < Len(stack[t]) => /\ f.pc \in {"higher", "wait"}
                              /\ f.pc = "higher" <=> stack[t][k + 1].task = NoTask
      /\ k = Len(stack[t]) => f.pc \in IF mode = "sort" THEN {"begin", "wait"} ELSE {"block"}
      /\ f.pc \in {"begin", "block"} => f.lower = NoTask
      /\ f.pc \in {"higher", "wait"} => /\ Submitted(f.lower) /\ f.pivot \in f.chunk
                                        /\ stack[t][1].task < f.lower

\* A worker's first call is a task, that of the caller of the sort is not.
FirstOK(t) ==
  stack[t] # <<>> => /\ stack[t][1].task = NoTask <=> t = Main
                     /\ t # Main => t \in started
                     /\ mode # "sort" => Len(stack[t]) = 1 /\ mode = "spawn" /\ t # Main

StacksOK == \A t \in Threads : FirstOK(t) /\ \A k \in Calls(t) : CallOK(t, k)

\* Whoever submitted an unfinished task of the sort waits for it.
Awaited ==
  mode = "sort" =>
    \A id \in Nat :
      Unfinished(id) => \E t \in Threads : \E k \in Calls(t) : stack[t][k].lower = id

Right(v, S) == IF mode = "sort" THEN Sorting(v, S) ELSE v = SumOf(S)

\* given[id] is what task id was submitted with.
QueueRight(given) ==
  \A i \in 1..Len(work_queue) : work_queue[i].chunk = given[work_queue[i].id]

FuturesRight(given) ==
  /\ Len(given) = Len(futures)
  /\ \A id \in 1..Len(futures) : futures[id].ready => Right(futures[id].value, given[id])
  /\ mode # "sort" => \A id \in 1..Len(futures) : given[id] = Block(id)

CallRight(t, k, given) ==
  LET f == stack[t][k]
  IN  /\ f.task # NoTask => f.chunk = given[f.task]
      /\ f.lower # NoTask => given[f.lower] = Lower(f.chunk, f.pivot)
      /\ f.pc = "higher" => stack[t][k + 1].chunk = Higher(f.chunk, f.pivot)
      /\ f.pc = "wait" => Sorting(f.higher, Higher(f.chunk, f.pivot))

WorkRight(given) ==
  /\ QueueRight(given) /\ FuturesRight(given)
  /\ \A t \in Threads : \A k \in Calls(t) : CallRight(t, k, given)

\* What the caller has so far.
MainRight ==
  /\ mode = "sort" => /\ stack[Main] # <<>> => stack[Main][1].chunk = Elements
                      /\ stack[Main] = <<>> => Sorting(result, Elements)
  /\ mode # "sort" =>
       /\ Len(futures) < blocks /\ (blocks - 1) * SizeOfBlock <= Len(Key)
       /\ got > 0 => Len(futures) = blocks - 1
       /\ \A id \in 1..Len(futures) : id <= got => futures[id].ready
       /\ result = SumOf(IF got = blocks THEN Elements ELSE 1..got * SizeOfBlock)
  /\ mode = "spawn" => work_queue = <<>>
  /\ done => Finished

PoolInv ==
  /\ PoolTypeOK /\ QueueOK /\ CallsOK /\ NoneLost /\ StacksOK /\ Awaited /\ MainRight
  /\ \E given \in Seq(SUBSET Elements) : WorkRight(given)

-----------------------------------------------------------------------------
(* The steps.  Each lemma is one way of changing the pool.                 *)

LEMMA NoCalls == \A s \in Seq(Frames) : s = <<>> <=> Len(s) = 0
OBVIOUS

\* A task is run in one call.
LEMMA TaskInOneCall ==
  ASSUME PoolInv, NEW t \in Threads, NEW u \in Threads,
         NEW k \in 1..Len(stack[t]), NEW l \in 1..Len(stack[u]),
         stack[t][k].task = stack[u][l].task, stack[t][k].task # NoTask
  PROVE  t = u /\ k = l
BY DEF PoolInv, CallsOK, Calls

LEMMA FrameIs ==
  ASSUME NEW id \in Nat, NEW c \in SUBSET Elements
  PROVE  Frame(id, c) \in Frames
BY DEF Frame, Frames, NoTask

\* A thread takes the first task and begins to sort its chunk.
LEMMA TakeAndSort ==
  ASSUME PoolInv, NEW t \in Threads, mode = "sort", work_queue # <<>>,
         work_queue' = TakeFrom(work_queue),
         stack' = [stack EXCEPT ![t] = Append(@, Frame(Head(work_queue).id, Head(work_queue).chunk))],
         \/ stack[t] = <<>> /\ t \in started /\ t # Main
         \/ InSort(t, "wait"),
         UNCHANGED <<mode, blocks, started, futures, got, result, done>>
  PROVE  PoolInv'
<1> DEFINE h == work_queue[1]
           f == Frame(h.id, h.chunk)
<1>1. /\ work_queue \in Seq(Tasks) /\ stack \in [Threads -> Seq(Frames)] /\ futures \in Seq(Futures)
      /\ started \subseteq Workers /\ Main \notin Workers
  BY PoolAssumption DEF PoolInv, PoolTypeOK
<1>2. PICK m \in Nat : m = Len(work_queue) - 1
  <2>1. Len(work_queue) \in Nat \ {0} /\ Len(work_queue) - 1 \in Nat
    BY <1>1, TailIs
  <2> QED
    BY <2>1
<1>3. PICK n \in Nat : n = Len(stack[t])
  BY <1>1
<1>4. /\ work_queue' \in Seq(Tasks) /\ Len(work_queue') = m /\ Len(work_queue) = m + 1
      /\ \A i \in 1..m : work_queue'[i] = work_queue[i + 1]
      /\ Head(work_queue) = h /\ h \in Tasks
  BY <1>1, <1>2, TailIs DEF TakeFrom
<1>5. f \in Frames /\ f.task = h.id /\ f.chunk = h.chunk /\ f.pc = "begin" /\ f.lower = NoTask
      /\ h.id \in Nat \ {0} /\ h.chunk \in SUBSET Elements
  BY <1>4, FrameIs DEF Frame, Tasks
<1> HIDE DEF h, f
<1>6. /\ stack'[t] \in Seq(Frames) /\ Len(stack'[t]) = n + 1 /\ stack'[t][n + 1] = f
      /\ \A k \in 1..n : stack'[t][k] = stack[t][k]
  <2>1. stack'[t] = Append(stack[t], f)
    BY <1>1, <1>4 DEF f
  <2> QED
    BY <2>1, <1>1, <1>3, <1>5, AppendIs
<1>7. /\ stack' \in [Threads -> Seq(Frames)]
      /\ \A u \in Threads : u # t => stack'[u] = stack[u]
  BY <1>1, <1>4, <1>5, AppendIs DEF f
<1>8. \A u \in Threads : \A k \in 1..Len(stack'[u]) :
        \/ u = t /\ k = n + 1 /\ stack'[u][k] = f
        \/ k \in 1..Len(stack[u]) /\ stack'[u][k] = stack[u][k]
  BY <1>1, <1>3, <1>6, <1>7
<1>9. \A u \in Threads : \A k \in 1..Len(stack[u]) :
        k \in 1..Len(stack'[u]) /\ stack'[u][k] = stack[u][k] /\ (u = t => k < n + 1)
  BY <1>1, <1>3, <1>6, <1>7
<1>10. PoolTypeOK'
  BY <1>4, <1>7 DEF PoolInv, PoolTypeOK
<1>11. QueueOK'
  BY <1>4 DEF PoolInv, QueueOK, Unfinished, Submitted
<1>12. CallsOK'
  <2>1. /\ Unfinished(h.id)
        /\ \A i \in 1..m : work_queue'[i].id # h.id
    BY <1>4 DEF PoolInv, QueueOK, h
  <2>2. \A u \in Threads : \A k \in 1..Len(stack[u]) : stack[u][k].task # h.id
    BY <1>4, <1>5 DEF PoolInv, CallsOK, Calls, h, NoTask
  <2>3. ASSUME NEW u \in Threads, NEW k \in 1..Len(stack'[u]), stack'[u][k].task # NoTask
        PROVE  /\ Unfinished(stack'[u][k].task)
               /\ \A i \in 1..m : work_queue'[i].id # stack'[u][k].task
    <3>1. CASE k \in 1..Len(stack[u]) /\ stack'[u][k] = stack[u][k]
      BY <3>1, <2>3, <1>4 DEF PoolInv, CallsOK, Calls
    <3> QED
      BY <3>1, <2>1, <1>5, <1>8
  <2>4. ASSUME NEW u \in Threads, NEW v \in Threads,
               NEW k \in 1..Len(stack'[u]), NEW l \in 1..Len(stack'[v]),
               stack'[u][k].task = stack'[v][l].task, stack'[u][k].task # NoTask
        PROVE  u = v /\ k = l
    <3>1. CASE k \in 1..Len(stack[u]) /\ stack'[u][k] = stack[u][k]
      BY <3>1, <2>2, <2>4, <1>5, <1>8, TaskInOneCall
    <3> QED
      BY <3>1, <2>2, <2>4, <1>5, <1>8
  <2>5. \A u \in Threads : \A k \in 1..Len(stack'[u]) : stack'[u][k].task # NoTask =>
          /\ stack'[u][k].task \in 1..Len(futures') /\ ~futures'[stack'[u][k].task].ready
          /\ \A i \in 1..Len(work_queue') : work_queue'[i].id # stack'[u][k].task
    BY <2>3, <1>4 DEF Unfinished, Submitted
  <2>6. \A u, v \in Threads : \A k \in 1..Len(stack'[u]) : \A l \in 1..Len(stack'[v]) :
          stack'[u][k].task = stack'[v][l].task /\ stack'[u][k].task # NoTask => u = v /\ k = l
    BY <2>4
  <2> QED
    BY <2>5, <2>6, SMTT(30) DEF CallsOK, Calls, Unfinished, Submitted
<1>13. NoneLost'
  <2>1. ASSUME NEW id \in Nat, Unfinished(id)
        PROVE  \/ \E i \in 1..m : work_queue'[i].id = id
               \/ \E u \in Threads : \E k \in 1..Len(stack'[u]) : stack'[u][k].task = id
    <3>1. ASSUME NEW i \in 1..m + 1, work_queue[i].id = id, i # 1
          PROVE  \E j \in 1..m : work_queue'[j].id = id
      <4>1. i - 1 \in 1..m /\ (i - 1) + 1 = i
        BY <3>1
      <4> QED
        BY <4>1, <3>1, <1>4
    <3>2. CASE id = h.id
      BY <3>2, <1>5, <1>6, n + 1 \in 1..n + 1
    <3>3. ASSUME NEW u \in Threads, NEW k \in 1..Len(stack[u]), stack[u][k].task = id
          PROVE  \E l \in 1..Len(stack'[u]) : stack'[u][l].task = id
      BY <3>3, <1>9
    <3> QED
      BY <3>1, <3>2, <3>3, <2>1, <1>4 DEF PoolInv, NoneLost, Calls, h
  <2> QED
    BY <2>1, <1>4 DEF NoneLost, Unfinished, Submitted, Calls
<1>14. StacksOK'
  <2>0. stack[t] = <<>> <=> n = 0
    BY <1>1, <1>3, NoCalls
  <2>1. n # 0 => stack[t][n].pc = "wait"
    BY <2>0, <1>3, Zenon DEF InSort, Top
  <2>2. n = 0 => t \in started /\ t # Main
    BY <2>0 DEF InSort
  <2>3. \A u \in Threads : FirstOK(u) /\ \A k \in 1..Len(stack[u]) : CallOK(u, k)
    BY DEF PoolInv, StacksOK, Calls
  <2>4. n > 0 => stack'[t][1] = stack[t][1]
    BY <1>6
  <2>5. ASSUME NEW u \in Threads, u # t PROVE FirstOK(u)' /\ \A k \in 1..Len(stack'[u]) : CallOK(u, k)'
    BY <2>3, <2>5, <1>7 DEF FirstOK, CallOK, Submitted
  <2>6. FirstOK(t)'
    BY <2>2, <2>3, <2>4, <1>1, <1>3, <1>5, <1>6 DEF FirstOK, NoTask
  <2>7. ASSUME NEW k \in 1..n + 1 PROVE CallOK(t, k)'
    <3>1. CASE k < n
      <4>1. k \in 1..n /\ k + 1 \in 1..n /\ stack'[t][k] = stack[t][k] /\ stack'[t][k + 1] = stack[t][k + 1]
        BY <3>1, <1>6
      <4> QED
        BY <4>1, <3>1, <2>3, <2>4, <1>3, <1>6 DEF CallOK, Submitted
    <3>2. CASE k = n
      BY <3>2, <2>1, <2>3, <2>4, <1>3, <1>5, <1>6 DEF CallOK, Submitted, NoTask
    <3>3. CASE k = n + 1
      BY <3>3, <1>5, <1>6 DEF CallOK, NoTask
    <3> QED
      BY <3>1, <3>2, <3>3
  <2> QED
    BY <2>5, <2>6, <2>7, <1>6 DEF StacksOK, Calls
<1>15. Awaited'
  BY <1>9 DEF PoolInv, Awaited, Unfinished, Submitted, Calls
<1>16. MainRight'
  BY <1>1, <1>3, <1>6, <1>7 DEF PoolInv, MainRight, Finished, InSort, Threads
<1>17. PICK given \in Seq(SUBSET Elements) : WorkRight(given)
  BY DEF PoolInv
<1>18. WorkRight(given)'
  <2>1. QueueRight(given)'
    BY <1>4, <1>17 DEF WorkRight, QueueRight
  <2>2. FuturesRight(given)'
    BY <1>17 DEF WorkRight, FuturesRight, Right, Block, SizeOfBlock
  <2>3. \A u \in Threads : \A k \in 1..Len(stack'[u]) : CallRight(u, k, given)'
    <3>1. ASSUME NEW u \in Threads, NEW k \in 1..Len(stack'[u]),
                 k \in 1..Len(stack[u]), stack'[u][k] = stack[u][k]
          PROVE  CallRight(u, k, given)'
      <4>1. stack[u][k].pc = "higher" => stack'[u][k + 1] = stack[u][k + 1]
        BY <3>1, <1>1, <1>3, <1>6, <1>7 DEF PoolInv, StacksOK, CallOK, Calls, InSort, Top
      <4> QED
        BY <4>1, <3>1, <1>17 DEF WorkRight, CallRight, Calls
    <3>2. CallRight(t, n + 1, given)'
      BY <1>4, <1>5, <1>6, <1>17, 1 \in 1..m + 1 DEF CallRight, WorkRight, QueueRight, h
    <3> QED
      BY <3>1, <3>2, <1>8
  <2> QED
    BY <2>1, <2>2, <2>3 DEF WorkRight, Calls
<1> QED
  BY <1>10, <1>11, <1>12, <1>13, <1>14, <1>15, <1>16, <1>18 DEF PoolInv

\* What a finished task changes of the futures.
LEMMA FinishIs ==
  ASSUME NEW fu \in Seq(Futures), NEW id \in 1..Len(fu), NEW v \in Seq(Elements) \cup Nat
  PROVE  LET now == [fu EXCEPT ![id] = Ready(v)]
         IN  /\ now \in Seq(Futures) /\ Len(now) = Len(fu)
             /\ now[id].ready /\ now[id].value = v
             /\ \A i \in 1..Len(fu) : i # id => now[i] = fu[i]
BY DEF Ready, Futures

LEMMA QueuedOnce ==
  ASSUME PoolInv
  PROVE  \A i, j \in 1..Len(work_queue) : work_queue[i].id = work_queue[j].id => i = j
BY DEF PoolInv, QueueOK

\* The calls of a thread that the step leaves alone.
LEMMA OtherCalls ==
  ASSUME PoolInv, NEW u \in Threads, stack'[u] = stack[u], mode' = mode,
         started \subseteq started', Len(futures) \in Nat, Len(futures') \in Nat,
         Len(futures) <= Len(futures')
  PROVE  FirstOK(u)' /\ \A k \in 1..Len(stack[u]) : CallOK(u, k)'
<1>1. FirstOK(u) /\ \A k \in 1..Len(stack[u]) : CallOK(u, k)
  BY DEF PoolInv, StacksOK, Calls
<1>2. \A id : Submitted(id) => Submitted(id)'
  BY DEF Submitted
<1>3. FirstOK(u)'
  BY <1>1 DEF FirstOK
<1>4. ASSUME NEW k \in 1..Len(stack[u]) PROVE CallOK(u, k)'
  BY <1>1, <1>2 DEF CallOK
<1> QED
  BY <1>3, <1>4

\* A worker of the pool takes the first task of the sum and finishes it.
LEMMA TakeAndSum ==
  ASSUME PoolInv, mode # "sort", work_queue # <<>>,
         work_queue' = TakeFrom(work_queue),
         futures' = [futures EXCEPT ![Head(work_queue).id] = Ready(SumOf(Head(work_queue).chunk))],
         UNCHANGED <<mode, blocks, started, stack, got, result, done>>
  PROVE  PoolInv'
<1> DEFINE h == work_queue[1]
<1>1. /\ work_queue \in Seq(Tasks) /\ stack \in [Threads -> Seq(Frames)] /\ futures \in Seq(Futures)
  BY DEF PoolInv, PoolTypeOK
<1>2. PICK m \in Nat : m = Len(work_queue) - 1
  <2>1. Len(work_queue) \in Nat \ {0} /\ Len(work_queue) - 1 \in Nat
    BY <1>1, TailIs
  <2> QED
    BY <2>1
<1>4. /\ work_queue' \in Seq(Tasks) /\ Len(work_queue') = m /\ Len(work_queue) = m + 1
      /\ \A i \in 1..m : work_queue'[i] = work_queue[i + 1]
      /\ Head(work_queue) = h /\ h \in Tasks
  BY <1>1, <1>2, TailIs DEF TakeFrom
<1>5. h.id \in 1..Len(futures) /\ ~futures[h.id].ready /\ SumOf(h.chunk) \in Nat
  BY <1>4, SumIsNumber, 1 \in 1..m + 1 DEF PoolInv, QueueOK, Unfinished, Submitted, Tasks
<1>6. /\ futures' \in Seq(Futures) /\ Len(futures') = Len(futures)
      /\ futures'[h.id].ready /\ futures'[h.id].value = SumOf(h.chunk)
      /\ \A i \in 1..Len(futures) : i # h.id => futures'[i] = futures[i]
  BY <1>1, <1>4, <1>5, FinishIs
<1>7. \A id : Unfinished(id)' <=> Unfinished(id) /\ id # h.id
  BY <1>6 DEF Unfinished, Submitted
<1>8. \A i \in 1..m + 1 : i # 1 => work_queue[i].id # h.id
  BY <1>4, QueuedOnce, 1 \in 1..m + 1
<1>9. \A t \in Threads : \A k \in 1..Len(stack[t]) : stack[t][k].task # h.id
  <2>1. 1 \in 1..Len(work_queue) /\ h.id # NoTask
    BY <1>4 DEF Tasks, NoTask
  <2> QED
    BY <2>1 DEF PoolInv, CallsOK, Calls
<1>10. PoolTypeOK'
  BY <1>4, <1>6 DEF PoolInv, PoolTypeOK
<1>11. QueueOK'
  <2>1. ASSUME NEW i \in 1..m
        PROVE  /\ work_queue'[i].id \in 1..Len(futures') /\ ~futures'[work_queue'[i].id].ready
               /\ \A j \in 1..m : work_queue'[i].id = work_queue'[j].id => i = j
    <3>1. i + 1 \in 1..m + 1 /\ i + 1 # 1 /\ work_queue'[i] = work_queue[i + 1]
      BY <1>4
    <3>2. Unfinished(work_queue[i + 1].id) /\ work_queue[i + 1].id # h.id
      BY <3>1, <1>4, <1>8 DEF PoolInv, QueueOK
    <3>3. \A j \in 1..m : work_queue[i + 1].id = work_queue[j + 1].id => i = j
      BY <3>1, <1>4, QueuedOnce
    <3> QED
      BY <3>1, <3>2, <3>3, <1>4, <1>6 DEF Unfinished, Submitted
  <2> QED
    BY <2>1, <1>4 DEF QueueOK, Unfinished, Submitted
<1>12. CallsOK'
  <2>1. \A t \in Threads : \A k \in 1..Len(stack[t]) :
          stack[t][k].task # NoTask =>
            /\ Unfinished(stack[t][k].task)'
            /\ \A i \in 1..m : work_queue'[i].id # stack[t][k].task
    BY <1>4, <1>7, <1>9 DEF PoolInv, CallsOK, Calls
  <2> QED
    BY <2>1, <1>4 DEF PoolInv, CallsOK, Calls
<1>13. NoneLost'
  <2>1. ASSUME NEW id \in Nat, Unfinished(id)'
        PROVE  \/ \E i \in 1..m : work_queue'[i].id = id
               \/ \E u \in Threads : \E k \in 1..Len(stack[u]) : stack[u][k].task = id
    <3>1. ASSUME NEW i \in 1..m + 1, work_queue[i].id = id
          PROVE  \E j \in 1..m : work_queue'[j].id = id
      <4>1. i # 1
        BY <3>1, <2>1, <1>7
      <4>2. i - 1 \in 1..m /\ (i - 1) + 1 = i
        BY <4>1
      <4> QED
        BY <4>2, <3>1, <1>4
    <3> QED
      BY <3>1, <2>1, <1>4, <1>7 DEF PoolInv, NoneLost, Calls
  <2> QED
    BY <2>1, <1>4 DEF NoneLost, Calls
<1>14. StacksOK'
  BY <1>1, <1>6, OtherCalls DEF StacksOK, Calls
<1>15. Awaited'
  BY DEF Awaited
<1>16. MainRight'
  BY <1>1, <1>4, <1>6 DEF PoolInv, MainRight, Finished, SizeOfBlock
<1>17. PICK given \in Seq(SUBSET Elements) : WorkRight(given)
  BY DEF PoolInv
<1>18. WorkRight(given)'
  <2>1. QueueRight(given)'
    BY <1>4, <1>17 DEF WorkRight, QueueRight
  <2>2. FuturesRight(given)'
    <3>1. h.chunk = given[h.id]
      BY <1>4, <1>17, 1 \in 1..m + 1 DEF WorkRight, QueueRight
    <3> QED
      BY <3>1, <1>6, <1>17 DEF WorkRight, FuturesRight, Right, Block, SizeOfBlock
  <2> QED
    BY <2>1, <2>2, <1>17 DEF WorkRight, Calls, CallRight
<1> QED
  BY <1>10, <1>11, <1>12, <1>13, <1>14, <1>15, <1>16, <1>18 DEF PoolInv

\* What t sorted when its innermost call returns, and that the lower part of
\* the call is in.
Returning(t, sorted) ==
  /\ mode = "sort" /\ stack[t] # <<>> /\ Sorting(sorted, Top(t).chunk)
  /\ Top(t).lower # NoTask => futures[Top(t).lower].ready

\* A task is sorted: its future has the result, and its call is gone.
LEMMA ReturnTask ==
  ASSUME PoolInv, NEW t \in Threads, NEW sorted, Returning(t, sorted),
         Top(t).task # NoTask,
         futures' = [futures EXCEPT ![Top(t).task] = Ready(sorted)],
         stack' = [stack EXCEPT ![t] = Below(t)],
         UNCHANGED <<mode, blocks, started, work_queue, got, result, done>>
  PROVE  PoolInv'
<1> DEFINE f == Top(t)
           id == f.task
<1>1. /\ work_queue \in Seq(Tasks) /\ stack \in [Threads -> Seq(Frames)] /\ futures \in Seq(Futures)
      /\ mode = "sort"
  BY DEF PoolInv, PoolTypeOK, Returning
<1>2. PICK n \in Nat : n = Len(stack[t]) - 1
  <2>1. Len(stack[t]) \in Nat \ {0} /\ Len(stack[t]) - 1 \in Nat
    BY <1>1, TailIs DEF Returning
  <2> QED
    BY <2>1
<1>3. Len(stack[t]) = n + 1 /\ n \in 0..n + 1 /\ n + 1 \in 1..n + 1 /\ Len(stack[t]) - 1 = n
  BY <1>1, <1>2
<1>4. f = stack[t][n + 1] /\ f \in Frames
  BY <1>1, <1>3 DEF Top
<1>5. /\ id \in 1..Len(futures) /\ ~futures[id].ready /\ id \in Nat \ {0}
      /\ \A i \in 1..Len(work_queue) : work_queue[i].id # id
      /\ \A u \in Threads : \A k \in 1..Len(stack[u]) : stack[u][k].task = id => u = t /\ k = n + 1
  BY <1>1, <1>3, <1>4 DEF PoolInv, CallsOK, Calls, Unfinished, Submitted
<1>6. sorted \in Seq(Elements)
  BY DEF Returning, Sorting
<1> HIDE DEF f
<1>7. /\ futures' \in Seq(Futures) /\ Len(futures') = Len(futures)
      /\ futures'[id].ready /\ futures'[id].value = sorted
      /\ \A i \in 1..Len(futures) : i # id => futures'[i] = futures[i]
  <2>1. futures' = [futures EXCEPT ![id] = Ready(sorted)]
    BY DEF f
  <2> QED
    BY <2>1, <1>1, <1>5, <1>6, FinishIs
<1>8. /\ stack'[t] \in Seq(Frames) /\ Len(stack'[t]) = n
      /\ \A k \in 1..n : stack'[t][k] = stack[t][k]
      /\ stack' \in [Threads -> Seq(Frames)]
      /\ \A u \in Threads : u # t => stack'[u] = stack[u]
  <2>1. Below(t) = SubSeq(stack[t], 1, n)
    BY <1>3 DEF Below
  <2>2. /\ Below(t) \in Seq(Frames) /\ Len(Below(t)) = n
        /\ \A k \in 1..n : Below(t)[k] = stack[t][k]
    BY <2>1, <1>1, <1>3, PrefixIs
  <2>3. stack'[t] = Below(t)
    BY <1>1
  <2> QED
    BY <2>2, <2>3, <1>1
<1>9. \A u \in Threads : \A k \in 1..Len(stack'[u]) :
        k \in 1..Len(stack[u]) /\ stack'[u][k] = stack[u][k] /\ ~(u = t /\ k = n + 1)
  BY <1>1, <1>3, <1>8
<1>10. \A u \in Threads : \A k \in 1..Len(stack[u]) :
         \/ u = t /\ k = n + 1
         \/ k \in 1..Len(stack'[u]) /\ stack'[u][k] = stack[u][k]
  BY <1>1, <1>3, <1>8
<1>11. \A x : Unfinished(x)' <=> Unfinished(x) /\ x # id
  BY <1>5, <1>7 DEF Unfinished, Submitted
<1> HIDE DEF id
<1>12. PoolTypeOK'
  BY <1>7, <1>8 DEF PoolInv, PoolTypeOK
<1>13. QueueOK'
  BY <1>5, <1>11 DEF PoolInv, QueueOK
<1>14. CallsOK'
  <2>1. ASSUME NEW u \in Threads, NEW k \in 1..Len(stack'[u]), stack'[u][k].task # NoTask
        PROVE  /\ stack'[u][k].task \in 1..Len(futures') /\ ~futures'[stack'[u][k].task].ready
               /\ \A i \in 1..Len(work_queue) : work_queue[i].id # stack'[u][k].task
    <3>1. k \in 1..Len(stack[u]) /\ stack'[u][k] = stack[u][k] /\ stack[u][k].task # id
      BY <2>1, <1>5, <1>9
    <3>2. Unfinished(stack[u][k].task) /\ \A i \in 1..Len(work_queue) : work_queue[i].id # stack[u][k].task
      BY <3>1, <2>1 DEF PoolInv, CallsOK, Calls
    <3> QED
      BY <3>1, <3>2, <1>7 DEF Unfinished, Submitted
  <2>2. ASSUME NEW u \in Threads, NEW v \in Threads,
               NEW k \in 1..Len(stack'[u]), NEW l \in 1..Len(stack'[v]),
               stack'[u][k].task = stack'[v][l].task, stack'[u][k].task # NoTask
        PROVE  u = v /\ k = l
    BY <2>2, <1>9, TaskInOneCall
  <2> QED
    BY <2>1, <2>2 DEF CallsOK, Calls, Unfinished, Submitted
<1>15. NoneLost'
  <2>1. ASSUME NEW x \in Nat, Unfinished(x), x # id
        PROVE  \/ \E i \in 1..Len(work_queue) : work_queue[i].id = x
               \/ \E u \in Threads : \E k \in 1..Len(stack'[u]) : stack'[u][k].task = x
    BY <2>1, <1>4, <1>10 DEF PoolInv, NoneLost, Calls, id
  <2> QED
    BY <2>1, <1>11 DEF NoneLost, Calls
<1>16. StacksOK'
  <2>1. ASSUME NEW u \in Threads, u # t
        PROVE  FirstOK(u)' /\ \A k \in 1..Len(stack'[u]) : CallOK(u, k)'
    BY <2>1, <1>1, <1>7, <1>8, OtherCalls
  <2>2. FirstOK(t) /\ \A k \in 1..n + 1 : CallOK(t, k)
    BY <1>3 DEF PoolInv, StacksOK, Calls
  <2>3. FirstOK(t)'
    BY <2>2, <1>1, <1>3, <1>8, NoCalls DEF FirstOK, Returning
  <2>4. ASSUME NEW k \in 1..n PROVE CallOK(t, k)'
    <3>1. k \in 1..n + 1 /\ k < n + 1 /\ CallOK(t, k) /\ stack'[t][k] = stack[t][k]
          /\ stack'[t][1] = stack[t][1]
      BY <2>2, <1>8
    <3>2. CASE k < n
      <4>1. stack'[t][k + 1] = stack[t][k + 1]
        BY <3>2, <1>8
      <4> QED
        BY <4>1, <3>1, <3>2, <1>1, <1>3, <1>7, <1>8 DEF CallOK, Submitted
    <3>3. CASE k = n
      <4>1. stack[t][k + 1].task # NoTask
        BY <3>3, <1>4 DEF f
      <4> QED
        BY <4>1, <3>1, <3>3, <1>1, <1>3, <1>7, <1>8 DEF CallOK, Submitted
    <3> QED
      BY <3>2, <3>3
  <2> QED
    BY <2>1, <2>3, <2>4, <1>8 DEF StacksOK, Calls
<1>17. Awaited'
  <2>1. ASSUME NEW x \in Nat, Unfinished(x), x # id
        PROVE  \E u \in Threads : \E k \in 1..Len(stack'[u]) : stack'[u][k].lower = x
    <3>1. PICK u \in Threads : \E k \in 1..Len(stack[u]) : stack[u][k].lower = x
      BY <2>1, <1>1 DEF PoolInv, Awaited, Calls
    <3>2. PICK k \in 1..Len(stack[u]) : stack[u][k].lower = x
      BY <3>1
    <3>3. ~(u = t /\ k = n + 1)
      BY <3>2, <2>1, <1>1, <1>4 DEF Returning, Unfinished, Submitted, NoTask, f
    <3> QED
      BY <3>2, <3>3, <1>10
  <2> QED
    BY <2>1, <1>11 DEF Awaited, Calls
<1>18. MainRight'
  <2>1. stack[t][1].task = NoTask <=> t = Main
    BY <1>1 DEF PoolInv, StacksOK, FirstOK, Returning
  <2>2. t = Main => n > 0 /\ stack'[t] # <<>> /\ stack'[t][1] = stack[t][1]
    <3>1. t = Main => n # 0
      BY <2>1, <1>4 DEF f
    <3> QED
      BY <3>1, <1>8, NoCalls
  <2> QED
    BY <2>2, <1>1, <1>8 DEF PoolInv, MainRight, Finished, Returning, Threads
<1>19. PICK given \in Seq(SUBSET Elements) : WorkRight(given)
  BY DEF PoolInv
<1>20. WorkRight(given)'
  <2>1. QueueRight(given)'
    BY <1>19 DEF WorkRight, QueueRight
  <2>2. FuturesRight(given)'
    <3>1. f.chunk = given[id]
      BY <1>3, <1>4, <1>5, <1>19 DEF WorkRight, CallRight, Calls, NoTask, id
    <3>2. Right(sorted, given[id])
      BY <3>1 DEF Returning, Right, f
    <3> QED
      BY <3>2, <1>1, <1>7, <1>19 DEF WorkRight, FuturesRight, Right
  <2>3. ASSUME NEW u \in Threads, NEW k \in 1..Len(stack'[u]) PROVE CallRight(u, k, given)'
    <3>1. k \in 1..Len(stack[u]) /\ stack'[u][k] = stack[u][k]
      BY <1>9
    <3>2. CallRight(u, k, given) /\ CallOK(u, k)
      BY <3>1, <1>19 DEF WorkRight, PoolInv, StacksOK, Calls
    <3>3. stack[u][k].pc = "higher" => stack'[u][k + 1] = stack[u][k + 1]
      BY <3>1, <3>2, <1>1, <1>3, <1>4, <1>8, <1>9 DEF CallOK, f
    <3> QED
      BY <3>1, <3>2, <3>3 DEF CallRight
  <2> QED
    BY <2>1, <2>2, <2>3 DEF WorkRight, Calls
<1> QED
  BY <1>12, <1>13, <1>14, <1>15, <1>16, <1>17, <1>18, <1>20 DEF PoolInv

\* The first call of the caller returns: the list is sorted.
LEMMA ReturnToCaller ==
  ASSUME PoolInv, NEW t \in Threads, NEW sorted, Returning(t, sorted),
         Top(t).task = NoTask, Len(stack[t]) = 1,
         result' = sorted, stack' = [stack EXCEPT ![t] = <<>>],
         UNCHANGED <<mode, blocks, started, work_queue, futures, got, done>>
  PROVE  PoolInv'
<1>1. /\ stack \in [Threads -> Seq(Frames)] /\ futures \in Seq(Futures) /\ mode = "sort"
      /\ Top(t) = stack[t][1] /\ stack[t][1] \in Frames
  BY DEF PoolInv, PoolTypeOK, Returning, Top
<1>2. t = Main
  BY <1>1 DEF PoolInv, StacksOK, FirstOK, Returning
<1>3. /\ stack' \in [Threads -> Seq(Frames)] /\ stack'[t] = <<>> /\ Len(stack'[t]) = 0
      /\ \A u \in Threads : u # t => stack'[u] = stack[u]
  BY <1>1
<1>4. \A u \in Threads : \A k \in 1..Len(stack'[u]) : u # t /\ stack'[u] = stack[u]
  BY <1>3
<1>5. \A u \in Threads : \A k \in 1..Len(stack[u]) :
        \/ stack[u][k].task = NoTask /\ ~(stack[u][k].lower # NoTask /\ ~futures[stack[u][k].lower].ready)
        \/ k \in 1..Len(stack'[u]) /\ stack'[u][k] = stack[u][k]
  BY <1>1, <1>3 DEF Returning
<1>6. PoolTypeOK'
  BY <1>3 DEF PoolInv, PoolTypeOK
<1>7. QueueOK'
  BY DEF PoolInv, QueueOK, Unfinished, Submitted
<1>8. CallsOK'
  <2>1. ASSUME NEW u \in Threads, NEW k \in 1..Len(stack'[u]), stack'[u][k].task # NoTask
        PROVE  /\ stack'[u][k].task \in 1..Len(futures') /\ ~futures'[stack'[u][k].task].ready
               /\ \A i \in 1..Len(work_queue) : work_queue[i].id # stack'[u][k].task
    BY <2>1, <1>4 DEF PoolInv, CallsOK, Calls, Unfinished, Submitted
  <2>2. ASSUME NEW u \in Threads, NEW v \in Threads,
               NEW k \in 1..Len(stack'[u]), NEW l \in 1..Len(stack'[v]),
               stack'[u][k].task = stack'[v][l].task, stack'[u][k].task # NoTask
        PROVE  u = v /\ k = l
    BY <2>2, <1>4, TaskInOneCall
  <2> QED
    BY <2>1, <2>2 DEF CallsOK, Calls, Unfinished, Submitted
<1>9. NoneLost'
  <2>1. ASSUME NEW x \in Nat, Unfinished(x)
        PROVE  \/ \E i \in 1..Len(work_queue) : work_queue[i].id = x
               \/ \E u \in Threads : \E k \in 1..Len(stack'[u]) : stack'[u][k].task = x
    <3>1. x # NoTask
      BY <2>1 DEF Unfinished, Submitted, NoTask
    <3> QED
      BY <2>1, <3>1, <1>5 DEF PoolInv, NoneLost, Calls
  <2> QED
    BY <2>1 DEF NoneLost, Calls, Unfinished, Submitted
<1>10. StacksOK'
  <2>1. ASSUME NEW u \in Threads, u # t
        PROVE  FirstOK(u)' /\ \A k \in 1..Len(stack'[u]) : CallOK(u, k)'
    BY <2>1, <1>1, <1>3, OtherCalls
  <2>2. FirstOK(t)'
    BY <1>3 DEF FirstOK
  <2> QED
    BY <2>1, <2>2, <1>4 DEF StacksOK, Calls
<1>11. Awaited'
  <2>1. ASSUME NEW x \in Nat, Unfinished(x)
        PROVE  \E u \in Threads : \E k \in 1..Len(stack'[u]) : stack'[u][k].lower = x
    <3>1. PICK u \in Threads : \E k \in 1..Len(stack[u]) : stack[u][k].lower = x
      BY <2>1, <1>1 DEF PoolInv, Awaited, Calls
    <3>2. PICK k \in 1..Len(stack[u]) : stack[u][k].lower = x
      BY <3>1
    <3>3. x # NoTask /\ ~futures[x].ready
      BY <2>1 DEF Unfinished, Submitted, NoTask
    <3> QED
      BY <3>2, <3>3, <1>5
  <2> QED
    BY <2>1 DEF Awaited, Calls, Unfinished, Submitted
<1>12. MainRight'
  BY <1>1, <1>2, <1>3 DEF PoolInv, MainRight, Finished, Returning
<1>13. PICK given \in Seq(SUBSET Elements) : WorkRight(given)
  BY DEF PoolInv
<1>14. WorkRight(given)'
  <2>1. QueueRight(given)' /\ FuturesRight(given)'
    BY <1>1, <1>13 DEF WorkRight, QueueRight, FuturesRight, Right
  <2>2. ASSUME NEW u \in Threads, NEW k \in 1..Len(stack'[u]) PROVE CallRight(u, k, given)'
    BY <1>4, <1>13 DEF WorkRight, CallRight, Calls
  <2> QED
    BY <2>1, <2>2 DEF WorkRight, Calls
<1> QED
  BY <1>6, <1>7, <1>8, <1>9, <1>10, <1>11, <1>12, <1>14 DEF PoolInv

\* A call that do_sort made of itself returns: the call below waits.
BackToCall(t, sorted) ==
  stack' = [stack EXCEPT ![t] =
              SubSeq(@, 1, Len(@) - 2)
                \o <<[stack[t][Len(stack[t]) - 1] EXCEPT !.pc = "wait", !.higher = sorted]>>]

LEMMA ReturnToCall ==
  ASSUME PoolInv, NEW t \in Threads, NEW sorted, Returning(t, sorted),
         Top(t).task = NoTask, Len(stack[t]) # 1, BackToCall(t, sorted),
         UNCHANGED <<mode, blocks, started, work_queue, futures, got, result, done>>
  PROVE  PoolInv'
<1>1. /\ stack \in [Threads -> Seq(Frames)] /\ futures \in Seq(Futures) /\ mode = "sort"
  BY DEF PoolInv, PoolTypeOK, Returning
<1>2. PICK n \in Nat : n = Len(stack[t]) - 2
  <2>1. Len(stack[t]) \in Nat \ {0} /\ Len(stack[t]) # 1
    BY <1>1, TailIs DEF Returning
  <2>2. \A x \in Nat \ {0} : x # 1 => x - 2 \in Nat
    OBVIOUS
  <2> QED
    BY <2>1, <2>2
<1>3. /\ Len(stack[t]) = n + 2 /\ Len(stack[t]) - 2 = n /\ Len(stack[t]) - 1 = n + 1
      /\ n \in 0..n + 2 /\ n + 1 \in 1..n + 2 /\ n + 2 \in 1..n + 2
  BY <1>1, <1>2
<1> DEFINE f == stack[t][n + 1]
           g == [f EXCEPT !.pc = "wait", !.higher = sorted]
<1>4. /\ Top(t) = stack[t][n + 2] /\ f \in Frames /\ stack[t][n + 2] \in Frames
      /\ sorted \in Seq(Elements)
  BY <1>1, <1>3 DEF Top, Returning, Sorting
<1>5. /\ g \in Frames /\ g.task = f.task /\ g.chunk = f.chunk /\ g.pc = "wait" /\ g.pivot = f.pivot
      /\ g.lower = f.lower /\ g.higher = sorted
  BY <1>4 DEF Frames
<1>6. /\ stack'[t] \in Seq(Frames) /\ Len(stack'[t]) = n + 1 /\ stack'[t][n + 1] = g
      /\ \A k \in 1..n : stack'[t][k] = stack[t][k]
      /\ stack' \in [Threads -> Seq(Frames)]
      /\ \A u \in Threads : u # t => stack'[u] = stack[u]
  <2> DEFINE s == SubSeq(stack[t], 1, n)
  <2>1. s \in Seq(Frames) /\ Len(s) = n /\ \A k \in 1..n : s[k] = stack[t][k]
    BY <1>1, <1>3, PrefixIs
  <2>2. stack'[t] = s \o <<g>> /\ \A u \in Threads : u # t => stack'[u] = stack[u]
    BY <1>1, <1>3 DEF BackToCall
  <2> HIDE DEF s, g
  <2>3. /\ s \o <<g>> \in Seq(Frames) /\ Len(s \o <<g>>) = n + 1 /\ (s \o <<g>>)[n + 1] = g
        /\ \A k \in 1..n : (s \o <<g>>)[k] = s[k]
    BY <2>1, <1>5, JoinIs
  <2>4. stack' \in [Threads -> Seq(Frames)]
    <3>1. stack' = [stack EXCEPT ![t] = s \o <<g>>]
      BY <1>3 DEF s, g, BackToCall
    <3> QED
      BY <3>1, <2>3, <1>1
  <2> QED
    BY <2>1, <2>2, <2>3, <2>4
<1>7. f.pc = "higher" /\ CallOK(t, n + 1) /\ FirstOK(t) /\ \A k \in 1..n : CallOK(t, k)
  <2>1. CallOK(t, n + 1) /\ FirstOK(t) /\ \A k \in 1..n : CallOK(t, k)
    BY <1>3 DEF PoolInv, StacksOK, Calls
  <2> QED
    BY <2>1, <1>3, <1>4 DEF CallOK
<1> HIDE DEF f, g
<1>8. \A u \in Threads : \A k \in 1..Len(stack'[u]) :
        /\ k \in 1..Len(stack[u])
        /\ stack'[u][k].task = stack[u][k].task /\ stack'[u][k].chunk = stack[u][k].chunk
        /\ \/ u = t /\ k = n + 1 /\ stack'[u][k] = g
           \/ stack'[u][k] = stack[u][k]
  <2>1. ASSUME NEW k \in 1..n + 1 PROVE k = n + 1 \/ k \in 1..n
    OBVIOUS
  <2> QED
    BY <2>1, <1>3, <1>5, <1>6 DEF f
<1>9. \A u \in Threads : \A k \in 1..Len(stack[u]) :
        \/ u = t /\ k = n + 2
        \/ /\ k \in 1..Len(stack'[u])
           /\ stack'[u][k].task = stack[u][k].task /\ stack'[u][k].lower = stack[u][k].lower
  <2>1. ASSUME NEW k \in 1..n + 2 PROVE k = n + 2 \/ k = n + 1 \/ k \in 1..n
    OBVIOUS
  <2> QED
    BY <2>1, <1>3, <1>5, <1>6 DEF f
<1>19. \A u \in Threads : \A k \in 1..Len(stack'[u]) :
         k \in 1..Len(stack[u]) /\ stack'[u][k].task = stack[u][k].task
  BY <1>8
<1>20. \A u \in Threads : \A k \in 1..Len(stack[u]) :
         stack[u][k].task # NoTask => k \in 1..Len(stack'[u]) /\ stack'[u][k].task = stack[u][k].task
  BY <1>4, <1>9
<1>10. PoolTypeOK'
  BY <1>6 DEF PoolInv, PoolTypeOK
<1>11. QueueOK'
  BY DEF PoolInv, QueueOK, Unfinished, Submitted
<1>12. CallsOK'
  <2>1. ASSUME NEW u \in Threads, NEW k \in 1..Len(stack'[u]), stack'[u][k].task # NoTask
        PROVE  /\ stack'[u][k].task \in 1..Len(futures') /\ ~futures'[stack'[u][k].task].ready
               /\ \A i \in 1..Len(work_queue) : work_queue[i].id # stack'[u][k].task
    <3>1. k \in 1..Len(stack[u]) /\ stack'[u][k].task = stack[u][k].task
      BY <1>19
    <3>2. Unfinished(stack[u][k].task) /\ \A i \in 1..Len(work_queue) : work_queue[i].id # stack[u][k].task
      BY <3>1, <2>1 DEF PoolInv, CallsOK, Calls
    <3> QED
      BY <3>1, <3>2 DEF Unfinished, Submitted
  <2>2. ASSUME NEW u \in Threads, NEW v \in Threads,
               NEW k \in 1..Len(stack'[u]), NEW l \in 1..Len(stack'[v]),
               stack'[u][k].task = stack'[v][l].task, stack'[u][k].task # NoTask
        PROVE  u = v /\ k = l
    <3>1. /\ k \in 1..Len(stack[u]) /\ stack'[u][k].task = stack[u][k].task
          /\ l \in 1..Len(stack[v]) /\ stack'[v][l].task = stack[v][l].task
      BY <1>19
    <3>2. stack[u][k].task = stack[v][l].task /\ stack[u][k].task # NoTask
      BY <3>1, <2>2
    <3> QED
      BY <3>1, <3>2, TaskInOneCall
  <2> QED
    BY <2>1, <2>2 DEF CallsOK, Calls, Unfinished, Submitted
<1>13. NoneLost'
  <2>1. ASSUME NEW x \in Nat, Unfinished(x)
        PROVE  \/ \E i \in 1..Len(work_queue) : work_queue[i].id = x
               \/ \E u \in Threads : \E k \in 1..Len(stack'[u]) : stack'[u][k].task = x
    <3>1. x # NoTask
      BY <2>1 DEF Unfinished, Submitted, NoTask
    <3>2. \/ \E i \in 1..Len(work_queue) : work_queue[i].id = x
          \/ \E u \in Threads : \E k \in 1..Len(stack[u]) : stack[u][k].task = x
      BY <2>1 DEF PoolInv, NoneLost, Calls
    <3> QED
      BY <3>1, <3>2, <1>20
  <2> QED
    BY <2>1 DEF NoneLost, Calls, Unfinished, Submitted
<1>14. StacksOK'
  <2>1. ASSUME NEW u \in Threads, u # t
        PROVE  FirstOK(u)' /\ \A k \in 1..Len(stack'[u]) : CallOK(u, k)'
    BY <2>1, <1>1, <1>6, OtherCalls
  <2>2. stack'[t][1].task = stack[t][1].task
    BY <1>6, <1>8, 1 \in 1..n + 1
  <2>3. FirstOK(t)'
    BY <2>2, <1>1, <1>7 DEF FirstOK, Returning
  <2>4. ASSUME NEW k \in 1..n PROVE CallOK(t, k)'
    <3>1. CallOK(t, k) /\ stack'[t][k] = stack[t][k] /\ stack'[t][k + 1].task = stack[t][k + 1].task
          /\ k < n + 1 /\ k < n + 2
      <4>1. k + 1 \in 1..n + 1 /\ k < n + 1 /\ k < n + 2
        OBVIOUS
      <4> QED
        BY <4>1, <1>6, <1>7, <1>19
    <3>2. CallOK(t, k)' <=> CallOK(t, k)
      BY <3>1, <2>2, <1>1, <1>3, <1>6 DEF CallOK, Submitted
    <3> QED
      BY <3>1, <3>2
  <2>5. CallOK(t, n + 1)'
    <3>1. Submitted(f.lower) /\ f.pivot \in f.chunk /\ stack[t][1].task < f.lower
      BY <1>7 DEF CallOK, f
    <3>2. stack'[t][n + 1] = g /\ Len(stack'[t]) = n + 1 /\ ~(n + 1 < n + 1)
      BY <1>6
    <3> QED
      BY <3>1, <3>2, <2>2, <1>1, <1>5 DEF CallOK, Submitted
  <2>6. \A k \in 1..n + 1 : k \in 1..n \/ k = n + 1
    OBVIOUS
  <2> QED
    BY <2>1, <2>3, <2>4, <2>5, <2>6, <1>6 DEF StacksOK, Calls
<1>15. Awaited'
  <2>1. ASSUME NEW x \in Nat, Unfinished(x)
        PROVE  \E u \in Threads : \E k \in 1..Len(stack'[u]) : stack'[u][k].lower = x
    <3>1. PICK u \in Threads : \E k \in 1..Len(stack[u]) : stack[u][k].lower = x
      BY <2>1, <1>1 DEF PoolInv, Awaited, Calls
    <3>2. PICK k \in 1..Len(stack[u]) : stack[u][k].lower = x
      BY <3>1
    <3>3. ~(u = t /\ k = n + 2)
      BY <3>2, <2>1, <1>4 DEF Returning, Unfinished, Submitted, NoTask
    <3> QED
      BY <3>2, <3>3, <1>9
  <2> QED
    BY <2>1 DEF Awaited, Calls, Unfinished, Submitted
<1>16. MainRight'
  <2>1. stack'[t] # <<>> /\ stack'[t][1].chunk = stack[t][1].chunk
    BY <1>6, <1>8, NoCalls, 1 \in 1..n + 1
  <2> QED
    BY <2>1, <1>1, <1>6 DEF PoolInv, MainRight, Finished, Returning, Threads
<1>17. PICK given \in Seq(SUBSET Elements) : WorkRight(given)
  BY DEF PoolInv
<1>18. WorkRight(given)'
  <2>1. QueueRight(given)' /\ FuturesRight(given)'
    BY <1>1, <1>17 DEF WorkRight, QueueRight, FuturesRight, Right
  <2>2. CallRight(t, n + 1, given)'
    <3>1. CallRight(t, n + 1, given)
      BY <1>3, <1>17 DEF WorkRight, Calls
    <3>2. Sorting(sorted, Higher(f.chunk, f.pivot))
      BY <3>1, <1>4, <1>7 DEF CallRight, Returning, f
    <3> QED
      BY <3>1, <3>2, <1>5, <1>6 DEF CallRight, f
  <2>3. ASSUME NEW u \in Threads, NEW k \in 1..Len(stack'[u]), stack'[u][k] = stack[u][k]
        PROVE  CallRight(u, k, given)'
    <3>1. k \in 1..Len(stack[u])
      BY <1>8
    <3>2. CallRight(u, k, given) /\ CallOK(u, k)
      BY <3>1, <1>17 DEF WorkRight, PoolInv, StacksOK, Calls
    <3>3. stack[u][k].pc = "higher" => stack'[u][k + 1].chunk = stack[u][k + 1].chunk
      <4>1. CASE u # t
        BY <4>1, <1>6
      <4>2. CASE u = t /\ k \in 1..n
        BY <4>2, <1>6, <1>8, k + 1 \in 1..n + 1
      <4>3. CASE u = t /\ k = n + 1
        BY <4>3, <2>3, <1>5, <1>6
      <4>4. \A i \in 1..n + 1 : i \in 1..n \/ i = n + 1
        OBVIOUS
      <4> QED
        BY <4>1, <4>2, <4>3, <4>4, <1>6
    <3> QED
      BY <2>3, <3>1, <3>2, <3>3 DEF CallRight
  <2> QED
    BY <2>1, <2>2, <2>3, <1>8 DEF WorkRight, Calls
<1> QED
  BY <1>10, <1>11, <1>12, <1>13, <1>14, <1>15, <1>16, <1>18 DEF PoolInv

\* What submitting a task changes of the queue and of the futures.
LEMMA SubmitIs ==
  ASSUME PoolInv, NEW c \in SUBSET Elements, Submit(c)
  PROVE  /\ Len(futures) \in Nat /\ Len(work_queue) \in Nat
         /\ work_queue' \in Seq(Tasks) /\ Len(work_queue') = Len(work_queue) + 1
         /\ \A i \in 1..Len(work_queue) : work_queue'[i] = work_queue[i]
         /\ work_queue'[Len(work_queue) + 1].id = Len(futures) + 1
         /\ work_queue'[Len(work_queue) + 1].chunk = c
         /\ futures' \in Seq(Futures) /\ Len(futures') = Len(futures) + 1
         /\ \A i \in 1..Len(futures) : futures'[i] = futures[i]
         /\ ~futures'[Len(futures) + 1].ready
<1>1. work_queue \in Seq(Tasks) /\ futures \in Seq(Futures) /\ Len(futures) \in Nat /\ Len(work_queue) \in Nat
  BY DEF PoolInv, PoolTypeOK
<1>2. Task(Len(futures) + 1, c) \in Tasks /\ NotReady \in Futures
  BY <1>1 DEF Task, Tasks, NotReady, Futures
<1>3. /\ work_queue' \in Seq(Tasks) /\ Len(work_queue') = Len(work_queue) + 1
      /\ \A i \in 1..Len(work_queue) : work_queue'[i] = work_queue[i]
      /\ work_queue'[Len(work_queue) + 1] = Task(Len(futures) + 1, c)
  BY <1>1, <1>2, AppendIs DEF Submit
<1>4. /\ futures' \in Seq(Futures) /\ Len(futures') = Len(futures) + 1
      /\ \A i \in 1..Len(futures) : futures'[i] = futures[i]
      /\ futures'[Len(futures) + 1] = NotReady
  BY <1>1, <1>2, AppendIs DEF Submit
<1> QED
  BY <1>1, <1>3, <1>4 DEF Task, NotReady

\* The queue stays right when a task is submitted.
LEMMA SubmitKeepsQueue ==
  ASSUME PoolInv, NEW c \in SUBSET Elements, Submit(c)
  PROVE  QueueOK'
<1> DEFINE m == Len(work_queue)
           N == Len(futures)
<1>1. /\ N \in Nat /\ m \in Nat /\ Len(work_queue') = m + 1 /\ Len(futures') = N + 1
      /\ \A i \in 1..m : work_queue'[i] = work_queue[i]
      /\ work_queue'[m + 1].id = N + 1
      /\ \A i \in 1..N : futures'[i] = futures[i]
      /\ ~futures'[N + 1].ready
  BY SubmitIs
<1>2. \A i \in 1..m : work_queue[i].id \in 1..N /\ ~futures[work_queue[i].id].ready
  BY DEF PoolInv, QueueOK, Unfinished, Submitted
<1>3. \A i, j \in 1..m : work_queue[i].id = work_queue[j].id => i = j
  BY DEF PoolInv, QueueOK
<1>4. \A i \in 1..m + 1 : i \in 1..m \/ i = m + 1
  BY <1>1
<1>5. N + 1 \notin 1..N /\ N + 1 \in 1..N + 1 /\ \A i \in 1..N : i \in 1..N + 1
  BY <1>1
<1> HIDE DEF m, N
<1>6. ASSUME NEW i \in 1..m + 1
      PROVE  /\ work_queue'[i].id \in 1..N + 1 /\ ~futures'[work_queue'[i].id].ready
             /\ \A j \in 1..m + 1 : work_queue'[i].id = work_queue'[j].id => i = j
  <2>1. CASE i \in 1..m
    <3>1. work_queue'[i] = work_queue[i] /\ work_queue[i].id \in 1..N /\ ~futures[work_queue[i].id].ready
      BY <2>1, <1>1, <1>2
    <3>2. \A j \in 1..m : work_queue[i].id = work_queue[j].id => i = j
      BY <2>1, <1>3
    <3>3. work_queue[i].id # N + 1 /\ work_queue[i].id \in 1..N + 1
      BY <3>1, <1>5
    <3> QED
      BY <3>1, <3>2, <3>3, <1>1, <1>4
  <2>2. CASE i = m + 1
    BY <2>2, <1>1, <1>2, <1>4, <1>5
  <2> QED
    BY <2>1, <2>2, <1>4
<1> QED
  BY <1>1, <1>6 DEF QueueOK, Unfinished, Submitted

SplitAt(t, p) ==
  /\ Submit(Lower(Top(t).chunk, p))
  /\ stack' = [stack EXCEPT ![t] =
                 SetTop(t, [Top(t) EXCEPT !.pc = "higher", !.pivot = p, !.lower = Len(futures) + 1])
                   \o <<Frame(NoTask, Higher(Top(t).chunk, p))>>]

\* A call submits the lower part of its chunk and begins on the rest.
LEMMA SplitKeeps ==
  ASSUME PoolInv, NEW t \in Threads, InSort(t, "begin"), mode = "sort", NEW p \in Top(t).chunk,
         SplitAt(t, p), UNCHANGED <<mode, blocks, started, got, result, done>>
  PROVE  PoolInv'
<1>1. /\ stack \in [Threads -> Seq(Frames)] /\ futures \in Seq(Futures) /\ work_queue \in Seq(Tasks)
      /\ stack[t] # <<>> /\ Top(t).pc = "begin"
  BY DEF PoolInv, PoolTypeOK, InSort
<1>2. PICK n \in Nat : n = Len(stack[t]) - 1
  <2>1. Len(stack[t]) \in Nat \ {0} /\ Len(stack[t]) - 1 \in Nat
    BY <1>1, TailIs
  <2> QED
    BY <2>1
<1>3. Len(stack[t]) = n + 1 /\ Len(stack[t]) - 1 = n /\ n \in 0..n + 1 /\ n + 1 \in 1..n + 1
  BY <1>1, <1>2
<1> DEFINE f == stack[t][n + 1]
           N == Len(futures)
           m == Len(work_queue)
           g == [f EXCEPT !.pc = "higher", !.pivot = p, !.lower = N + 1]
           e == Frame(NoTask, Higher(f.chunk, p))
           c == Lower(f.chunk, p)
<1>4. Top(t) = f /\ f \in Frames /\ f.pc = "begin" /\ p \in f.chunk /\ f.chunk \in SUBSET Elements
      /\ p \in Nat /\ c \in SUBSET Elements /\ Higher(f.chunk, p) \in SUBSET Elements
  <2>1. Top(t) = f /\ f \in Frames /\ f.pc = "begin" /\ p \in f.chunk
    BY <1>1, <1>3 DEF Top
  <2>2. f.chunk \in SUBSET Elements
    BY <2>1 DEF Frames
  <2>3. p \in Nat
    BY <2>1, <2>2, KeyIsList
  <2> QED
    BY <2>1, <2>2, <2>3, PartsOf
<1>5. /\ N \in Nat /\ m \in Nat
      /\ work_queue' \in Seq(Tasks) /\ Len(work_queue') = m + 1
      /\ \A i \in 1..m : work_queue'[i] = work_queue[i]
      /\ work_queue'[m + 1].id = N + 1 /\ work_queue'[m + 1].chunk = c
      /\ futures' \in Seq(Futures) /\ Len(futures') = N + 1
      /\ \A i \in 1..N : futures'[i] = futures[i]
      /\ ~futures'[N + 1].ready
  <2>1. Submit(c)
    BY <1>4 DEF SplitAt
  <2> QED
    BY <2>1, <1>4, SubmitIs
<1>6. /\ g \in Frames /\ g.task = f.task /\ g.chunk = f.chunk /\ g.pc = "higher" /\ g.pivot = p
      /\ g.lower = N + 1 /\ g.higher = f.higher
  <2>1. N + 1 \in Nat
    BY <1>5
  <2> HIDE DEF f, N
  <2> QED
    BY <2>1, <1>4 DEF Frames
<1>7. /\ e \in Frames /\ e.task = NoTask /\ e.chunk = Higher(f.chunk, p) /\ e.pc = "begin" /\ e.lower = NoTask
  BY <1>4, FrameIs DEF Frame, NoTask
<1>8. /\ stack'[t] \in Seq(Frames) /\ Len(stack'[t]) = n + 2
      /\ stack'[t][n + 1] = g /\ stack'[t][n + 2] = e
      /\ \A k \in 1..n : stack'[t][k] = stack[t][k]
      /\ stack' \in [Threads -> Seq(Frames)]
      /\ \A u \in Threads : u # t => stack'[u] = stack[u]
  <2> DEFINE s == SubSeq(stack[t], 1, n)
             s1 == s \o <<g>>
             s2 == s1 \o <<e>>
  <2>1. s \in Seq(Frames) /\ Len(s) = n /\ \A k \in 1..n : s[k] = stack[t][k]
    BY <1>1, <1>3, PrefixIs
  <2>2. stack' = [stack EXCEPT ![t] = s2]
    BY <1>3, <1>4 DEF SplitAt, SetTop, Below
  <2> HIDE DEF s, g, e
  <2>3. s1 \in Seq(Frames) /\ Len(s1) = n + 1 /\ s1[n + 1] = g /\ \A k \in 1..n : s1[k] = s[k]
    BY <2>1, <1>6, JoinIs
  <2> HIDE DEF s1
  <2>4. s2 \in Seq(Frames) /\ Len(s2) = n + 1 + 1 /\ s2[n + 1 + 1] = e /\ \A k \in 1..n + 1 : s2[k] = s1[k]
    BY <2>3, <1>7, JoinIs
  <2>5. n + 1 + 1 = n + 2 /\ \A k \in 1..n : k \in 1..n + 1
    OBVIOUS
  <2> HIDE DEF s2
  <2>6. stack'[t] = s2 /\ stack' \in [Threads -> Seq(Frames)] /\ \A u \in Threads : u # t => stack'[u] = stack[u]
    BY <2>2, <2>4, <1>1
  <2> QED
    BY <2>1, <2>3, <2>4, <2>5, <2>6
<1>9. CallOK(t, n + 1) /\ FirstOK(t) /\ \A k \in 1..n : CallOK(t, k)
  BY <1>3 DEF PoolInv, StacksOK, Calls
<1> HIDE DEF f, g, e, N, m, c
<1>10. \A u \in Threads : \A k \in 1..Len(stack'[u]) :
         \/ u = t /\ k = n + 2 /\ stack'[u][k] = e
         \/ u = t /\ k = n + 1 /\ stack'[u][k] = g /\ k \in 1..Len(stack[u])
         \/ k \in 1..Len(stack[u]) /\ stack'[u][k] = stack[u][k]
  <2>1. \A k \in 1..n + 2 : k = n + 2 \/ k = n + 1 \/ k \in 1..n
    OBVIOUS
  <2>2. \A k \in 1..n : k \in 1..n + 1
    OBVIOUS
  <2> QED
    BY <2>1, <2>2, <1>3, <1>8
<1>11. \A u \in Threads : \A k \in 1..Len(stack'[u]) :
         stack'[u][k].task # NoTask => k \in 1..Len(stack[u]) /\ stack'[u][k].task = stack[u][k].task
  BY <1>10, <1>6, <1>7 DEF f
<1>12. \A u \in Threads : \A k \in 1..Len(stack[u]) :
         /\ k \in 1..Len(stack'[u]) /\ stack'[u][k].task = stack[u][k].task
         /\ \/ stack'[u][k].lower = stack[u][k].lower
            \/ u = t /\ k = n + 1
  <2>1. \A k \in 1..n + 1 : k = n + 1 \/ k \in 1..n
    OBVIOUS
  <2>2. \A k \in 1..n : k \in 1..n + 2
    OBVIOUS
  <2> QED
    BY <2>1, <2>2, <1>3, <1>6, <1>8, n + 1 \in 1..n + 2 DEF f
<1>13. PoolTypeOK'
  BY <1>5, <1>8 DEF PoolInv, PoolTypeOK
<1>14. QueueOK'
  <2>1. Submit(c)
    BY <1>4 DEF SplitAt, c
  <2> QED
    BY <2>1, <1>4, SubmitKeepsQueue DEF c
<1>15. \A x \in 1..N + 1 : x \in 1..N \/ x = N + 1
  BY <1>5
<1>16. \A x : Unfinished(x)' <=> Unfinished(x) \/ x = N + 1
  BY <1>5, <1>15, N + 1 \in 1..N + 1 DEF Unfinished, Submitted, N
<1>17. CallsOK'
  <2>1. ASSUME NEW u \in Threads, NEW k \in 1..Len(stack'[u]), stack'[u][k].task # NoTask
        PROVE  /\ stack'[u][k].task \in 1..Len(futures') /\ ~futures'[stack'[u][k].task].ready
               /\ \A i \in 1..Len(work_queue') : work_queue'[i].id # stack'[u][k].task
    <3>1. k \in 1..Len(stack[u]) /\ stack'[u][k].task = stack[u][k].task
      BY <2>1, <1>11
    <3>2. stack[u][k].task \in 1..N /\ ~futures[stack[u][k].task].ready
          /\ \A i \in 1..m : work_queue[i].id # stack[u][k].task
      BY <3>1, <2>1 DEF PoolInv, CallsOK, Calls, Unfinished, Submitted, N, m
    <3>3. \A i \in 1..m + 1 : i \in 1..m \/ i = m + 1
      BY <1>5
    <3>4. \A x \in 1..N : x # N + 1 /\ x \in 1..N + 1
      BY <1>5
    <3> QED
      BY <3>1, <3>2, <3>3, <3>4, <1>5
  <2>2. ASSUME NEW u \in Threads, NEW v \in Threads,
               NEW k \in 1..Len(stack'[u]), NEW l \in 1..Len(stack'[v]),
               stack'[u][k].task = stack'[v][l].task, stack'[u][k].task # NoTask
        PROVE  u = v /\ k = l
    BY <2>2, <1>11, TaskInOneCall
  <2> QED
    BY <2>1, <2>2 DEF CallsOK, Calls, Unfinished, Submitted
<1>18. NoneLost'
  <2>1. ASSUME NEW x \in Nat, Unfinished(x)
        PROVE  \/ \E i \in 1..Len(work_queue') : work_queue'[i].id = x
               \/ \E u \in Threads : \E k \in 1..Len(stack'[u]) : stack'[u][k].task = x
    <3>1. \A i \in 1..m : i \in 1..m + 1
      BY <1>5
    <3>2. \/ \E i \in 1..m : work_queue[i].id = x
          \/ \E u \in Threads : \E k \in 1..Len(stack[u]) : stack[u][k].task = x
      BY <2>1 DEF PoolInv, NoneLost, Calls, m
    <3>3. \A i \in 1..m : i \in 1..Len(work_queue') /\ work_queue'[i] = work_queue[i]
      BY <3>1, <1>5
    <3>4. \A u \in Threads : \A k \in 1..Len(stack[u]) :
            k \in 1..Len(stack'[u]) /\ stack'[u][k].task = stack[u][k].task
      BY <1>12
    <3> QED
      BY <3>2, <3>3, <3>4
  <2>2. \E i \in 1..Len(work_queue') : work_queue'[i].id = N + 1
    BY <1>5, m + 1 \in 1..m + 1
  <2> QED
    BY <2>1, <2>2, <1>16 DEF NoneLost, Calls
<1>19. StacksOK'
  <2>1. ASSUME NEW u \in Threads, u # t
        PROVE  FirstOK(u)' /\ \A k \in 1..Len(stack'[u]) : CallOK(u, k)'
    <3>1. Len(futures) \in Nat /\ Len(futures') \in Nat /\ Len(futures) <= Len(futures')
      BY <1>5 DEF N
    <3> QED
      BY <2>1, <3>1, <1>8, OtherCalls
  <2>2. stack'[t][1].task = stack[t][1].task /\ 1 \in 1..n + 1
    BY <1>3, <1>12
  <2>3. FirstOK(t)'
    BY <2>2, <1>1, <1>9 DEF FirstOK
  <2>4. ASSUME NEW k \in 1..n PROVE CallOK(t, k)'
    <3>1. CallOK(t, k) /\ stack'[t][k] = stack[t][k] /\ stack'[t][k + 1].task = stack[t][k + 1].task
          /\ k < n + 1 /\ k < n + 2 /\ k # n + 2
      <4>1. k + 1 \in 1..n + 1 /\ k < n + 1 /\ k < n + 2 /\ k # n + 2
        OBVIOUS
      <4> QED
        BY <4>1, <1>3, <1>8, <1>9, <1>12
    <3>2. Submitted(stack[t][k].lower) => Submitted(stack[t][k].lower)'
      BY <3>1, <1>5 DEF Submitted, N
    <3> QED
      BY <3>1, <3>2, <2>2, <1>3, <1>8 DEF CallOK
  <2>5. CallOK(t, n + 1)'
    <3>1. stack[t][1].task < N + 1
      <4>1. stack[t][1].task = NoTask \/ stack[t][1].task \in 1..N
        BY <2>2, <1>3 DEF PoolInv, CallsOK, Calls, Unfinished, Submitted, N
      <4> QED
        BY <4>1, <1>5 DEF NoTask
    <3>2. n + 1 < n + 2 /\ n + 1 # n + 2 /\ n + 1 + 1 = n + 2 /\ N + 1 \in 1..N + 1
      BY <1>5
    <3> QED
      BY <3>1, <3>2, <2>2, <1>4, <1>5, <1>6, <1>7, <1>8 DEF CallOK, Submitted
  <2>6. CallOK(t, n + 2)'
    BY <1>7, <1>8 DEF CallOK
  <2>7. \A k \in 1..n + 2 : k \in 1..n \/ k = n + 1 \/ k = n + 2
    OBVIOUS
  <2> QED
    BY <2>1, <2>3, <2>4, <2>5, <2>6, <2>7, <1>8 DEF StacksOK, Calls
<1>20. Awaited'
  <2>1. ASSUME NEW x \in Nat, Unfinished(x)
        PROVE  \E u \in Threads : \E k \in 1..Len(stack'[u]) : stack'[u][k].lower = x
    <3>1. PICK u \in Threads : \E k \in 1..Len(stack[u]) : stack[u][k].lower = x
      BY <2>1 DEF PoolInv, Awaited, Calls
    <3>2. PICK k \in 1..Len(stack[u]) : stack[u][k].lower = x
      BY <3>1
    <3>3. ~(u = t /\ k = n + 1)
      <4>1. x # NoTask
        BY <2>1 DEF Unfinished, Submitted, NoTask
      <4> QED
        BY <4>1, <3>2, <1>4, <1>9 DEF CallOK, f
    <3> QED
      BY <3>2, <3>3, <1>12
  <2>2. \E u \in Threads : \E k \in 1..Len(stack'[u]) : stack'[u][k].lower = N + 1
    BY <1>6, <1>8, n + 1 \in 1..n + 2
  <2> QED
    BY <2>1, <2>2, <1>16 DEF Awaited, Calls
<1>21. MainRight'
  <2>1. stack'[t] # <<>> /\ stack'[t][1].chunk = stack[t][1].chunk
    <3>1. 1 \in 1..n + 2 /\ (1 \in 1..n \/ n = 0)
      OBVIOUS
    <3> QED
      BY <3>1, <1>6, <1>8, NoCalls DEF f
  <2> QED
    BY <2>1, <1>1, <1>8 DEF PoolInv, MainRight, Finished, Threads
<1>22. PICK given \in Seq(SUBSET Elements) : WorkRight(given)
  BY DEF PoolInv
<1>23. Len(given) = N
  BY <1>22 DEF WorkRight, FuturesRight, N
<1>24. PICK now \in Seq(SUBSET Elements) :
         Len(now) = N + 1 /\ now[N + 1] = c /\ \A i \in 1..N : now[i] = given[i]
  <2> DEFINE r == Append(given, c)
  <2>1. /\ r \in Seq(SUBSET Elements) /\ Len(r) = N + 1 /\ r[N + 1] = c
        /\ \A i \in 1..N : r[i] = given[i]
    BY <1>4, <1>23, AppendIs DEF c
  <2> HIDE DEF r
  <2> QED
    BY <2>1
<1>25. WorkRight(now)'
  <2>1. QueueRight(now)'
    <3>1. \A i \in 1..m : work_queue[i].chunk = given[work_queue[i].id] /\ work_queue[i].id \in 1..N
      BY <1>22 DEF WorkRight, QueueRight, PoolInv, QueueOK, Unfinished, Submitted, N, m
    <3>2. \A i \in 1..m + 1 : i \in 1..m \/ i = m + 1
      BY <1>5
    <3>3. ASSUME NEW i \in 1..m + 1 PROVE work_queue'[i].chunk = now[work_queue'[i].id]
      <4>1. CASE i \in 1..m
        <5>1. work_queue'[i] = work_queue[i] /\ now[work_queue[i].id] = given[work_queue[i].id]
          BY <4>1, <3>1, <1>5, <1>24
        <5> QED
          BY <5>1, <4>1, <3>1
      <4>2. CASE i = m + 1
        BY <4>2, <1>5, <1>24
      <4> QED
        BY <4>1, <4>2, <3>2
    <3> QED
      BY <3>3, <1>5 DEF QueueRight
  <2>2. FuturesRight(now)'
    <3>1. \A x \in 1..N : futures[x].ready => Right(futures[x].value, given[x])
      BY <1>22 DEF WorkRight, FuturesRight, N
    <3> QED
      BY <3>1, <1>5, <1>15, <1>24 DEF FuturesRight, Right
  <2>3. \A u \in Threads : \A k \in 1..Len(stack[u]) : CallRight(u, k, given) /\ CallOK(u, k)
    BY <1>22 DEF WorkRight, PoolInv, StacksOK, Calls
  <2>4. \A u \in Threads : \A k \in 1..Len(stack[u]) :
          /\ stack[u][k].task # NoTask => now[stack[u][k].task] = given[stack[u][k].task]
          /\ stack[u][k].lower # NoTask => now[stack[u][k].lower] = given[stack[u][k].lower]
    <3>1. ASSUME NEW u \in Threads, NEW k \in 1..Len(stack[u])
          PROVE  /\ stack[u][k].task # NoTask => stack[u][k].task \in 1..N
                 /\ stack[u][k].lower # NoTask => stack[u][k].lower \in 1..N
      <4>1. stack[u][k] \in Frames
        BY <1>1
      <4>2. stack[u][k].pc \in {"begin", "higher", "wait", "block"}
        BY <4>1 DEF Frames
      <4>3. stack[u][k].lower # NoTask => stack[u][k].lower \in 1..N
        BY <4>2, <2>3 DEF CallOK, Submitted, N
      <4> QED
        BY <4>3 DEF PoolInv, CallsOK, Calls, Unfinished, Submitted, N
    <3> QED
      BY <3>1, <1>24
  <2>5. CallRight(t, n + 1, now)'
    <3>1. f.task # NoTask => f.chunk = now[f.task]
      BY <2>3, <2>4, <1>3 DEF CallRight, f
    <3>2. n + 1 + 1 = n + 2
      OBVIOUS
    <3> QED
      BY <3>1, <3>2, <1>6, <1>7, <1>8, <1>24 DEF CallRight, c
  <2>6. CallRight(t, n + 2, now)'
    BY <1>7, <1>8 DEF CallRight
  <2>7. ASSUME NEW u \in Threads, NEW k \in 1..Len(stack'[u]),
               k \in 1..Len(stack[u]), stack'[u][k] = stack[u][k]
        PROVE  CallRight(u, k, now)'
    <3>1. stack[u][k].pc = "higher" => stack'[u][k + 1].chunk = stack[u][k + 1].chunk
      <4>1. CASE u # t
        BY <4>1, <1>8
      <4>2. CASE u = t /\ k \in 1..n
        <5>1. k + 1 \in 1..n \/ k + 1 = n + 1
          BY <4>2
        <5> QED
          BY <5>1, <4>2, <1>6, <1>8 DEF f
      <4>3. CASE u = t /\ k = n + 1
        BY <4>3, <1>4 DEF f
      <4>4. \A i \in 1..n + 1 : i \in 1..n \/ i = n + 1
        OBVIOUS
      <4> QED
        BY <4>1, <4>2, <4>3, <4>4, <2>7, <1>3
    <3> QED
      BY <3>1, <2>3, <2>4, <2>7 DEF CallRight
  <2> QED
    BY <2>1, <2>2, <2>5, <2>6, <2>7, <1>10 DEF WorkRight, Calls
<1> QED
  BY <1>13, <1>14, <1>17, <1>18, <1>19, <1>20, <1>21, <1>24, <1>25 DEF PoolInv

-----------------------------------------------------------------------------
(* The steps of the sums.                                                  *)

LEMMA Products ==
  /\ \A a, s \in Nat : a * s \in Nat /\ (a + 1) * s = a * s + s
  /\ \A a, b, s \in Nat : a <= b => a * s <= b * s
<1>1. \A a, s \in Nat : a * s \in Nat /\ (a + 1) * s = a * s + s
  OBVIOUS
<1>2. ASSUME NEW a \in Nat, NEW b \in Nat, NEW s \in Nat, a <= b PROVE a * s <= b * s
  <2>1. PICK d \in Nat : b = a + d
    <3>1. b - a \in Nat /\ b = a + (b - a)
      BY <1>2
    <3> QED
      BY <3>1
  <2>2. b * s = a * s + d * s /\ d * s \in Nat /\ a * s \in Nat
    BY <2>1
  <2> QED
    BY <2>2
<1> QED
  BY <1>1, <1>2

\* Where the blocks lie.
LEMMA Blocks ==
  ASSUME PoolInv, mode # "sort"
  PROVE  /\ SizeOfBlock \in Nat
         /\ \A i \in Nat : i + 1 < blocks =>
              /\ 1..i * SizeOfBlock \in SUBSET Elements
              /\ Block(i + 1) \in SUBSET Elements
              /\ 1..(i + 1) * SizeOfBlock = 1..i * SizeOfBlock \cup Block(i + 1)
              /\ 1..i * SizeOfBlock \cap Block(i + 1) = {}
         /\ LastBlock \in SUBSET Elements /\ 1..(blocks - 1) * SizeOfBlock \in SUBSET Elements
         /\ Elements = 1..(blocks - 1) * SizeOfBlock \cup LastBlock
         /\ 1..(blocks - 1) * SizeOfBlock \cap LastBlock = {}
<1> DEFINE S == SizeOfBlock
<1>1. blocks \in Nat \ {0} /\ (blocks - 1) * S <= Len(Key) /\ Len(Key) \in Nat /\ Elements = 1..Len(Key)
  BY KeyIsList DEF PoolInv, PoolTypeOK, MainRight
<1>2. S \in Nat
  <2>1. Len(Key) \div blocks \in Nat
    BY <1>1
  <2> QED
    BY <2>1, PoolAssumption DEF SizeOfBlock
<1>3. LastBlock = ((blocks - 1) * S + 1)..Len(Key)
  BY DEF LastBlock
<1>4. \A i \in Nat : Block(i + 1) = (i * S + 1)..((i + 1) * S)
  <2>1. \A i \in Nat : (i + 1) - 1 = i
    OBVIOUS
  <2> QED
    BY <2>1 DEF Block
<1> HIDE DEF S
<1>5. PICK e \in Nat : e = (blocks - 1) * S
  <2>1. blocks - 1 \in Nat
    BY <1>1
  <2> QED
    BY <2>1, <1>2, Products
<1>6. ASSUME NEW i \in Nat, i + 1 < blocks
      PROVE  /\ 1..i * S \in SUBSET Elements /\ Block(i + 1) \in SUBSET Elements
             /\ 1..(i + 1) * S = 1..i * S \cup Block(i + 1) /\ 1..i * S \cap Block(i + 1) = {}
  <2>1. PICK a \in Nat : a = i * S
    BY <1>2, Products
  <2>2. (i + 1) * S = a + S
    BY <2>1, <1>2, Products
  <2>3. a + S <= e
    <3>1. i + 1 \in Nat /\ blocks - 1 \in Nat /\ i + 1 <= blocks - 1
      BY <1>1, <1>6
    <3> QED
      BY <3>1, <2>2, <1>2, <1>5, Products
  <2>4. Block(i + 1) = (a + 1)..(a + S)
    BY <2>1, <2>2, <1>4
  <2>5. /\ 1..a \in SUBSET (1..Len(Key)) /\ (a + 1)..(a + S) \in SUBSET (1..Len(Key))
        /\ 1..a + S = 1..a \cup (a + 1)..(a + S) /\ 1..a \cap (a + 1)..(a + S) = {}
    BY <2>3, <1>1, <1>2, <1>5
  <2> QED
    BY <2>1, <2>2, <2>4, <2>5, <1>1
<1>7. /\ (e + 1)..Len(Key) \in SUBSET (1..Len(Key)) /\ 1..e \in SUBSET (1..Len(Key))
      /\ 1..Len(Key) = 1..e \cup (e + 1)..Len(Key) /\ 1..e \cap (e + 1)..Len(Key) = {}
  BY <1>1, <1>5
<1>8. /\ LastBlock \in SUBSET Elements /\ 1..(blocks - 1) * S \in SUBSET Elements
      /\ Elements = 1..(blocks - 1) * S \cup LastBlock
      /\ 1..(blocks - 1) * S \cap LastBlock = {}
  BY <1>1, <1>3, <1>5, <1>7
<1> QED
  BY <1>2, <1>6, <1>8 DEF S

\* The caller hands a block to the pool.
LEMMA SubmitBlockKeeps ==
  ASSUME PoolInv, SubmitBlock
  PROVE  PoolInv'
<1> DEFINE c == Block(Len(futures) + 1)
<1>1. /\ stack \in [Threads -> Seq(Frames)] /\ futures \in Seq(Futures) /\ work_queue \in Seq(Tasks)
      /\ mode = "sum" /\ Len(futures) < blocks - 1 /\ blocks \in Nat \ {0} /\ Len(futures) \in Nat
      /\ got \in 0..blocks
      /\ UNCHANGED <<mode, blocks, started, stack, got, result, done>>
  BY DEF PoolInv, PoolTypeOK, SubmitBlock
<1>2. c \in SUBSET Elements /\ Submit(c)
  <2>1. Len(futures) + 1 < blocks
    BY <1>1
  <2>2. c \in SUBSET Elements
    BY <2>1, <1>1, Blocks
  <2>3. Block(Len(futures) + 1) \cap Elements = c
    BY <2>2
  <2>4. Submit(Block(Len(futures) + 1) \cap Elements)
    BY DEF SubmitBlock
  <2> QED
    BY <2>2, <2>3, <2>4, Zenon
<1>3. \A u \in Threads : stack[u] = <<>>
  BY <1>1 DEF PoolInv, StacksOK, FirstOK
<1>4. \A u \in Threads : Calls(u) = {} /\ Calls(u)' = {}
  BY <1>1, <1>3 DEF Calls
<1>5. PICK N \in Nat : N = Len(futures)
  BY <1>1
<1>6. PICK m \in Nat : m = Len(work_queue)
  BY <1>1
<1> HIDE DEF c
<1>7. /\ work_queue' \in Seq(Tasks) /\ Len(work_queue') = m + 1
      /\ \A i \in 1..m : work_queue'[i] = work_queue[i]
      /\ work_queue'[m + 1].id = N + 1 /\ work_queue'[m + 1].chunk = c
      /\ futures' \in Seq(Futures) /\ Len(futures') = N + 1
      /\ \A i \in 1..N : futures'[i] = futures[i]
      /\ ~futures'[N + 1].ready
  BY <1>2, <1>5, <1>6, SubmitIs
<1>8. \A x \in 1..N + 1 : x \in 1..N \/ x = N + 1
  OBVIOUS
<1>9. \A x : Unfinished(x)' <=> Unfinished(x) \/ x = N + 1
  <2>1. N + 1 \in 1..N + 1 /\ N + 1 \notin 1..N /\ \A x \in 1..N : x \in 1..N + 1
    OBVIOUS
  <2> QED
    BY <2>1, <1>5, <1>7, <1>8 DEF Unfinished, Submitted
<1>10. PoolTypeOK'
  BY <1>1, <1>7 DEF PoolInv, PoolTypeOK
<1>11. QueueOK'
  BY <1>2, SubmitKeepsQueue
<1>12. CallsOK'
  BY <1>4 DEF CallsOK
<1>13. NoneLost'
  <2>1. ASSUME NEW x \in Nat, Unfinished(x)
        PROVE  \E i \in 1..m + 1 : work_queue'[i].id = x
    <3>1. PICK i \in 1..m : work_queue[i].id = x
      BY <2>1, <1>4, <1>6 DEF PoolInv, NoneLost
    <3>2. i \in 1..m + 1
      OBVIOUS
    <3> QED
      BY <3>1, <3>2, <1>7
  <2>2. m + 1 \in 1..m + 1
    OBVIOUS
  <2> QED
    BY <2>1, <2>2, <1>7, <1>9 DEF NoneLost
<1>14. StacksOK'
  BY <1>1, <1>3, <1>4 DEF StacksOK, FirstOK
<1>15. Awaited'
  BY <1>1 DEF Awaited
<1>16. got = 0 /\ ~done
  <2>1. got = 0
    BY <1>1 DEF PoolInv, MainRight
  <2> QED
    BY <2>1, <1>1 DEF PoolInv, MainRight, Finished
<1>17. MainRight'
  <2>1. N + 1 < blocks /\ \A i \in 1..N + 1 : ~(i <= 0)
    BY <1>1, <1>5
  <2> QED
    BY <2>1, <1>1, <1>7, <1>16 DEF PoolInv, MainRight, SizeOfBlock
<1>18. PICK given \in Seq(SUBSET Elements) : WorkRight(given)
  BY DEF PoolInv
<1>19. PICK now \in Seq(SUBSET Elements) :
         Len(now) = N + 1 /\ now[N + 1] = c /\ \A i \in 1..N : now[i] = given[i]
  <2> DEFINE r == Append(given, c)
  <2>1. Len(given) = N
    BY <1>5, <1>18 DEF WorkRight, FuturesRight
  <2>2. /\ r \in Seq(SUBSET Elements) /\ Len(r) = N + 1 /\ r[N + 1] = c
        /\ \A i \in 1..N : r[i] = given[i]
    BY <1>2, <2>1, AppendIs
  <2> HIDE DEF r
  <2> QED
    BY <2>2
<1>20. WorkRight(now)'
  <2>1. QueueRight(now)'
    <3>1. ASSUME NEW i \in 1..m + 1 PROVE work_queue'[i].chunk = now[work_queue'[i].id]
      <4>1. CASE i \in 1..m
        <5>1. work_queue'[i] = work_queue[i]
          BY <4>1, <1>7
        <5>2. work_queue[i].chunk = given[work_queue[i].id] /\ work_queue[i].id \in 1..N
          BY <4>1, <1>5, <1>6, <1>18 DEF WorkRight, QueueRight, PoolInv, QueueOK, Unfinished, Submitted
        <5> QED
          BY <5>1, <5>2, <1>19
      <4>2. CASE i = m + 1
        BY <4>2, <1>7, <1>19
      <4> QED
        BY <4>1, <4>2
    <3> QED
      BY <3>1, <1>7 DEF QueueRight
  <2>2. FuturesRight(now)'
    <3>1. \A x \in 1..N : futures[x].ready => futures[x].value = SumOf(given[x])
      BY <1>1, <1>5, <1>18 DEF WorkRight, FuturesRight, Right
    <3>2. \A x \in 1..N : given[x] = Block(x)
      BY <1>1, <1>5, <1>18 DEF WorkRight, FuturesRight
    <3>3. \A x \in 1..N + 1 : now[x] = Block(x)
      BY <3>2, <1>5, <1>8, <1>19 DEF c
    <3>4. \A x : Block(x)' = Block(x)
      BY <1>1 DEF Block, SizeOfBlock
    <3> QED
      BY <3>1, <3>3, <3>4, <1>1, <1>7, <1>8, <1>19 DEF FuturesRight, Right
  <2> QED
    BY <2>1, <2>2, <1>4 DEF WorkRight
<1> QED
  BY <1>10, <1>11, <1>12, <1>13, <1>14, <1>15, <1>17, <1>20 DEF PoolInv

\* The caller starts a thread for a block.
StartsFor(w) ==
  stack' = [stack EXCEPT ![w] = <<[Frame(Len(futures) + 1, Block(Len(futures) + 1)) EXCEPT !.pc = "block"]>>]

LEMMA SpawnBlockKeeps ==
  ASSUME PoolInv, mode = "spawn", Len(futures) < blocks - 1, NEW w \in Workers \ started,
         started' = started \cup {w}, StartsFor(w), futures' = Append(futures, NotReady),
         UNCHANGED <<mode, blocks, work_queue, got, result, done>>
  PROVE  PoolInv'
<1> DEFINE c == Block(Len(futures) + 1)
           f == [Frame(Len(futures) + 1, c) EXCEPT !.pc = "block"]
<1>1. /\ stack \in [Threads -> Seq(Frames)] /\ futures \in Seq(Futures)
      /\ blocks \in Nat \ {0} /\ Len(futures) \in Nat /\ got \in 0..blocks
      /\ work_queue = <<>> /\ Len(work_queue) = 0 /\ 1..Len(work_queue) = {}
      /\ w \in Threads /\ w # Main
  BY PoolAssumption DEF PoolInv, PoolTypeOK, MainRight, Threads
<1>2. c \in SUBSET Elements
  <2>1. Len(futures) + 1 < blocks
    BY <1>1
  <2> QED
    BY <2>1, <1>1, Blocks
<1>3. PICK N \in Nat : N = Len(futures)
  BY <1>1
<1>4. N + 1 \in Nat /\ N + 1 # NoTask /\ N + 1 \in 1..N + 1 /\ N + 1 \notin 1..N
      /\ (\A x \in 1..N : x \in 1..N + 1) /\ \A x \in 1..N + 1 : x \in 1..N \/ x = N + 1
  BY DEF NoTask
<1> HIDE DEF c
<1>5. /\ f \in Frames /\ f.task = N + 1 /\ f.chunk = c /\ f.pc = "block" /\ f.lower = NoTask
  BY <1>2, <1>3, <1>4, FrameIs DEF Frame, Frames
<1>6. stack[w] = <<>>
  BY <1>1 DEF PoolInv, StacksOK, FirstOK
<1> HIDE DEF f
<1>7. /\ futures' \in Seq(Futures) /\ Len(futures') = N + 1
      /\ \A i \in 1..N : futures'[i] = futures[i]
      /\ ~futures'[N + 1].ready
  <2>1. NotReady \in Futures /\ ~NotReady.ready
    BY DEF NotReady, Futures
  <2> QED
    BY <2>1, <1>1, <1>3, AppendIs
<1>8. /\ stack' \in [Threads -> Seq(Frames)] /\ Len(stack'[w]) = 1 /\ stack'[w][1] = f
      /\ \A u \in Threads : u # w => stack'[u] = stack[u]
  <2>1. stack' = [stack EXCEPT ![w] = <<f>>]
    BY DEF StartsFor, f, c
  <2>2. <<f>> \in Seq(Frames) /\ Len(<<f>>) = 1 /\ <<f>>[1] = f
    BY <1>5
  <2> QED
    BY <2>1, <2>2, <1>1
<1>9. \A u \in Threads : \A k \in 1..Len(stack'[u]) :
        \/ u = w /\ k = 1 /\ stack'[u][k] = f
        \/ u # w /\ stack'[u] = stack[u]
  <2>1. \A k \in 1..Len(stack'[w]) : k = 1
    BY <1>8
  <2> QED
    BY <2>1, <1>8
<1>10. \A u \in Threads : \A k \in 1..Len(stack[u]) : u # w /\ stack'[u] = stack[u]
  <2>1. Len(stack[w]) = 0
    BY <1>6
  <2> QED
    BY <2>1, <1>8
<1>11. \A x : Unfinished(x)' <=> Unfinished(x) \/ x = N + 1
  BY <1>3, <1>4, <1>7 DEF Unfinished, Submitted
<1>12. \A u \in Threads : \A k \in 1..Len(stack[u]) :
         stack[u][k].task # NoTask => stack[u][k].task \in 1..N /\ ~futures[stack[u][k].task].ready
  BY <1>3 DEF PoolInv, CallsOK, Calls, Unfinished, Submitted
<1>13. PoolTypeOK'
  BY <1>7, <1>8 DEF PoolInv, PoolTypeOK
<1>14. QueueOK'
  BY <1>1 DEF QueueOK
<1>15. CallsOK'
  <2>1. ASSUME NEW u \in Threads, NEW k \in 1..Len(stack'[u]), stack'[u][k].task # NoTask
        PROVE  stack'[u][k].task \in 1..N + 1 /\ ~futures'[stack'[u][k].task].ready
    <3>1. CASE u # w
      BY <3>1, <2>1, <1>4, <1>7, <1>9, <1>12
    <3>2. CASE u = w
      BY <3>2, <1>4, <1>5, <1>7, <1>9
    <3> QED
      BY <3>1, <3>2
  <2>2. ASSUME NEW u \in Threads, NEW v \in Threads,
               NEW k \in 1..Len(stack'[u]), NEW l \in 1..Len(stack'[v]),
               stack'[u][k].task = stack'[v][l].task, stack'[u][k].task # NoTask
        PROVE  u = v /\ k = l
    <3>1. \A x \in Threads : \A i \in 1..Len(stack'[x]) :
            \/ x = w /\ i = 1 /\ stack'[x][i].task = N + 1
            \/ /\ x # w /\ i \in 1..Len(stack[x]) /\ stack[x][i].task = stack'[x][i].task
               /\ stack'[x][i].task # NoTask => stack'[x][i].task # N + 1
      BY <1>4, <1>5, <1>9, <1>12
    <3>2. CASE u = w
      BY <3>1, <3>2, <2>2
    <3>3. CASE u # w
      <4>1. /\ k \in 1..Len(stack[u]) /\ stack[u][k].task = stack'[u][k].task
            /\ stack'[u][k].task # N + 1
        BY <3>1, <3>3, <2>2
      <4>2. l \in 1..Len(stack[v]) /\ stack[v][l].task = stack'[v][l].task
        BY <3>1, <4>1, <2>2
      <4>3. stack[u][k].task = stack[v][l].task /\ stack[u][k].task # NoTask
        BY <4>1, <4>2, <2>2
      <4> QED
        BY <4>1, <4>2, <4>3, TaskInOneCall
    <3> QED
      BY <3>2, <3>3
  <2> QED
    <3>1. 1..Len(work_queue') = {}
      BY <1>1
    <3>2. \A u \in Threads : \A k \in 1..Len(stack'[u]) : stack'[u][k].task # NoTask =>
            /\ stack'[u][k].task \in 1..Len(futures') /\ ~futures'[stack'[u][k].task].ready
            /\ \A i \in 1..Len(work_queue') : work_queue'[i].id # stack'[u][k].task
      BY <2>1, <3>1, <1>7
    <3>3. \A u, v \in Threads : \A k \in 1..Len(stack'[u]) : \A l \in 1..Len(stack'[v]) :
            stack'[u][k].task = stack'[v][l].task /\ stack'[u][k].task # NoTask => u = v /\ k = l
      BY <2>2
    <3> QED
      BY <3>2, <3>3, SMTT(30) DEF CallsOK, Calls, Unfinished, Submitted
<1>16. NoneLost'
  <2>1. ASSUME NEW x \in Nat, Unfinished(x)
        PROVE  \E u \in Threads : \E k \in 1..Len(stack'[u]) : stack'[u][k].task = x
    <3>1. \E u \in Threads : \E k \in 1..Len(stack[u]) : stack[u][k].task = x
      BY <2>1, <1>1 DEF PoolInv, NoneLost, Calls
    <3> QED
      BY <3>1, <1>10
  <2>2. \E u \in Threads : \E k \in 1..Len(stack'[u]) : stack'[u][k].task = N + 1
    <3>1. \E k \in 1..Len(stack'[w]) : stack'[w][k].task = N + 1
      BY <1>5, <1>8
    <3> QED
      BY <3>1, <1>1
  <2>3. \A x \in Nat : Unfinished(x)' =>
          \E u \in Threads : \E k \in 1..Len(stack'[u]) : stack'[u][k].task = x
    BY <2>1, <2>2, <1>11
  <2> QED
    BY <2>3 DEF NoneLost, Calls
<1>17. StacksOK'
  <2>1. ASSUME NEW u \in Threads, u # w
        PROVE  FirstOK(u)' /\ \A k \in 1..Len(stack'[u]) : CallOK(u, k)'
    <3>1. Len(futures) \in Nat /\ Len(futures') \in Nat /\ Len(futures) <= Len(futures')
      BY <1>3, <1>7
    <3> QED
      BY <2>1, <3>1, <1>8, OtherCalls
  <2>2. FirstOK(w)'
    BY <1>1, <1>4, <1>5, <1>8 DEF FirstOK
  <2>3. CallOK(w, 1)'
    BY <1>5, <1>8 DEF CallOK
  <2> QED
    BY <2>1, <2>2, <2>3, <1>9 DEF StacksOK, Calls
<1>18. Awaited'
  BY DEF Awaited
<1>19. MainRight'
  <2>1. got = 0
    BY <1>1 DEF PoolInv, MainRight
  <2>2. ~done
    BY <2>1, <1>1 DEF PoolInv, MainRight, Finished
  <2>3. N + 1 < blocks /\ \A i \in 1..N + 1 : ~(i <= 0)
    BY <1>1, <1>3
  <2> QED
    BY <2>1, <2>2, <2>3, <1>1, <1>7 DEF PoolInv, MainRight, SizeOfBlock
<1>20. PICK given \in Seq(SUBSET Elements) : WorkRight(given)
  BY DEF PoolInv
<1>21. PICK now \in Seq(SUBSET Elements) :
         Len(now) = N + 1 /\ now[N + 1] = c /\ \A i \in 1..N : now[i] = given[i]
  <2> DEFINE r == Append(given, c)
  <2>1. Len(given) = N
    BY <1>3, <1>20 DEF WorkRight, FuturesRight
  <2>2. /\ r \in Seq(SUBSET Elements) /\ Len(r) = N + 1 /\ r[N + 1] = c
        /\ \A i \in 1..N : r[i] = given[i]
    BY <1>2, <2>1, AppendIs
  <2> HIDE DEF r
  <2> QED
    BY <2>2
<1>22. WorkRight(now)'
  <2>1. QueueRight(now)'
    BY <1>1 DEF QueueRight
  <2>2. FuturesRight(now)'
    <3>1. \A x \in 1..N : futures[x].ready => futures[x].value = SumOf(given[x])
      BY <1>3, <1>20 DEF WorkRight, FuturesRight, Right
    <3>2. \A x \in 1..N : given[x] = Block(x)
      BY <1>3, <1>20 DEF WorkRight, FuturesRight
    <3>3. \A x \in 1..N + 1 : now[x] = Block(x)
      BY <3>2, <1>3, <1>4, <1>21 DEF c
    <3>4. \A x : Block(x)' = Block(x)
      BY DEF Block, SizeOfBlock
    <3> QED
      BY <3>1, <3>3, <3>4, <1>4, <1>7, <1>21 DEF FuturesRight, Right
  <2>3. CallRight(w, 1, now)'
    BY <1>5, <1>8, <1>21 DEF CallRight
  <2>4. ASSUME NEW u \in Threads, NEW k \in 1..Len(stack[u])
        PROVE  CallRight(u, k, now)'
    <3>1. stack'[u] = stack[u] /\ CallRight(u, k, given) /\ CallOK(u, k) /\ k = Len(stack[u])
      <4>1. stack'[u] = stack[u] /\ CallRight(u, k, given) /\ CallOK(u, k) /\ FirstOK(u)
        BY <1>10, <1>20 DEF WorkRight, Calls, PoolInv, StacksOK
      <4>2. stack[u] # <<>> /\ stack[u] \in Seq(Frames)
        BY <1>1
      <4>3. Len(stack[u]) = 1 /\ 1..1 = {1}
        BY <4>1, <4>2 DEF FirstOK
      <4> QED
        BY <4>1, <4>3
    <3>2. stack[u][k].pc = "block" /\ stack[u][k].lower = NoTask
      BY <3>1 DEF CallOK
    <3> QED
      BY <3>1, <3>2, <1>12, <1>21 DEF CallRight
  <2> QED
    BY <2>1, <2>2, <2>3, <2>4, <1>9 DEF WorkRight, Calls
<1> QED
  BY <1>13, <1>14, <1>15, <1>16, <1>17, <1>18, <1>19, <1>21, <1>22 DEF PoolInv

\* A thread sums its block up.
LEMMA RunBlockKeeps ==
  ASSUME PoolInv, NEW t \in Threads, RunBlock(t)
  PROVE  PoolInv'
<1> DEFINE f == stack[t][1]
           id == f.task
<1>1. /\ stack \in [Threads -> Seq(Frames)] /\ futures \in Seq(Futures) /\ work_queue \in Seq(Tasks)
      /\ stack[t] # <<>> /\ Top(t).pc = "block" /\ Len(stack[t]) \in Nat \ {0}
      /\ UNCHANGED <<mode, blocks, started, work_queue, got, result, done>>
  <2>1. stack \in [Threads -> Seq(Frames)] /\ stack[t] # <<>>
    BY DEF PoolInv, PoolTypeOK, RunBlock, InSort
  <2>2. Len(stack[t]) \in Nat \ {0}
    BY <2>1, TailIs
  <2> QED
    BY <2>1, <2>2 DEF PoolInv, PoolTypeOK, RunBlock, InSort
<1>2. mode = "spawn" /\ Len(stack[t]) = 1 /\ t # Main /\ Top(t) = f /\ f \in Frames
  <2>1. CallOK(t, Len(stack[t])) /\ FirstOK(t)
    BY <1>1 DEF PoolInv, StacksOK, Calls
  <2>2. mode # "sort"
    BY <2>1, <1>1 DEF CallOK, Top
  <2>3. mode = "spawn" /\ Len(stack[t]) = 1 /\ t # Main
    BY <2>1, <2>2, <1>1 DEF FirstOK
  <2>4. f \in Frames
    BY <2>3, <1>1
  <2> QED
    BY <2>3, <2>4 DEF Top
<1>3. /\ id \in 1..Len(futures) /\ ~futures[id].ready /\ id # NoTask
      /\ \A u \in Threads : \A k \in 1..Len(stack[u]) : stack[u][k].task = id => u = t
  <2>1. 1 \in 1..Len(stack[t])
    BY <1>2
  <2>2. id # NoTask
    BY <1>1, <1>2 DEF PoolInv, StacksOK, FirstOK
  <2> QED
    BY <2>1, <2>2 DEF PoolInv, CallsOK, Calls, Unfinished, Submitted
<1>4. work_queue = <<>> /\ Len(work_queue) = 0 /\ work_queue' = <<>> /\ Len(work_queue') = 0
  BY <1>1, <1>2 DEF PoolInv, MainRight
<1> HIDE DEF f, id
<1>5. /\ futures' \in Seq(Futures) /\ Len(futures') = Len(futures)
      /\ futures'[id].ready /\ futures'[id].value = SumOf(f.chunk)
      /\ \A i \in 1..Len(futures) : i # id => futures'[i] = futures[i]
  <2>1. futures' = [futures EXCEPT ![id] = Ready(SumOf(f.chunk))]
    BY <1>2 DEF RunBlock, id
  <2>2. SumOf(f.chunk) \in Nat
    BY <1>2, SumIsNumber DEF Frames
  <2> QED
    BY <2>1, <2>2, <1>1, <1>3, FinishIs
<1>6. /\ stack' \in [Threads -> Seq(Frames)] /\ stack'[t] = <<>> /\ Len(stack'[t]) = 0
      /\ \A u \in Threads : u # t => stack'[u] = stack[u]
  BY <1>1 DEF RunBlock
<1>7. \A u \in Threads : \A k \in 1..Len(stack'[u]) : u # t /\ stack'[u] = stack[u]
  BY <1>6
<1>8. \A u \in Threads : \A k \in 1..Len(stack[u]) :
        \/ stack[u][k].task = id
        \/ k \in 1..Len(stack'[u]) /\ stack'[u][k] = stack[u][k]
  BY <1>2, <1>6 DEF id, f
<1>9. \A x : Unfinished(x)' <=> Unfinished(x) /\ x # id
  BY <1>3, <1>5 DEF Unfinished, Submitted
<1>10. PoolTypeOK'
  BY <1>1, <1>5, <1>6 DEF PoolInv, PoolTypeOK
<1>11. QueueOK'
  BY <1>4 DEF QueueOK
<1>12. CallsOK'
  <2>1. ASSUME NEW u \in Threads, NEW k \in 1..Len(stack'[u]), stack'[u][k].task # NoTask
        PROVE  stack'[u][k].task \in 1..Len(futures') /\ ~futures'[stack'[u][k].task].ready
    <3>1. u # t /\ stack'[u] = stack[u] /\ stack[u][k].task # id
      BY <1>3, <1>7
    <3>2. Unfinished(stack[u][k].task)
      BY <3>1, <2>1 DEF PoolInv, CallsOK, Calls
    <3> QED
      BY <3>1, <3>2, <1>5 DEF Unfinished, Submitted
  <2>2. ASSUME NEW u \in Threads, NEW v \in Threads,
               NEW k \in 1..Len(stack'[u]), NEW l \in 1..Len(stack'[v]),
               stack'[u][k].task = stack'[v][l].task, stack'[u][k].task # NoTask
        PROVE  u = v /\ k = l
    <3>1. /\ k \in 1..Len(stack[u]) /\ stack[u][k].task = stack'[u][k].task
          /\ l \in 1..Len(stack[v]) /\ stack[v][l].task = stack'[v][l].task
      BY <2>2, <1>7
    <3>2. stack[u][k].task = stack[v][l].task /\ stack[u][k].task # NoTask
      BY <3>1, <2>2
    <3> QED
      BY <3>1, <3>2, TaskInOneCall
  <2> QED
    BY <2>1, <2>2, <1>4 DEF CallsOK, Calls, Unfinished, Submitted
<1>13. NoneLost'
  <2>1. ASSUME NEW x \in Nat, Unfinished(x), x # id
        PROVE  \E u \in Threads : \E k \in 1..Len(stack'[u]) : stack'[u][k].task = x
    <3>1. \E u \in Threads : \E k \in 1..Len(stack[u]) : stack[u][k].task = x
      BY <2>1, <1>4 DEF PoolInv, NoneLost, Calls
    <3> QED
      BY <3>1, <2>1, <1>8
  <2> QED
    BY <2>1, <1>9 DEF NoneLost, Calls
<1>14. StacksOK'
  <2>1. ASSUME NEW u \in Threads, u # t
        PROVE  FirstOK(u)' /\ \A k \in 1..Len(stack'[u]) : CallOK(u, k)'
    BY <2>1, <1>1, <1>5, <1>6, OtherCalls
  <2>2. FirstOK(t)'
    BY <1>6 DEF FirstOK
  <2> QED
    BY <2>1, <2>2, <1>7 DEF StacksOK, Calls
<1>15. Awaited'
  BY <1>1, <1>2 DEF Awaited
<1>16. MainRight'
  BY <1>1, <1>2, <1>4, <1>5 DEF PoolInv, MainRight, Finished, SizeOfBlock
<1>17. PICK given \in Seq(SUBSET Elements) : WorkRight(given)
  BY DEF PoolInv
<1>18. WorkRight(given)'
  <2>1. QueueRight(given)'
    BY <1>4 DEF QueueRight
  <2>2. FuturesRight(given)'
    <3>1. f.chunk = given[id]
      <4>1. 1 \in 1..Len(stack[t])
        BY <1>2
      <4> QED
        BY <4>1, <1>3, <1>17 DEF WorkRight, CallRight, Calls, f, id
    <3>2. \A x : Block(x)' = Block(x)
      BY <1>1 DEF Block, SizeOfBlock
    <3> QED
      BY <3>1, <3>2, <1>1, <1>2, <1>5, <1>17 DEF WorkRight, FuturesRight, Right
  <2>3. ASSUME NEW u \in Threads, NEW k \in 1..Len(stack'[u]) PROVE CallRight(u, k, given)'
    BY <1>7, <1>17 DEF WorkRight, CallRight, Calls
  <2> QED
    BY <2>1, <2>2, <2>3 DEF WorkRight, Calls
<1> QED
  BY <1>10, <1>11, <1>12, <1>13, <1>14, <1>15, <1>16, <1>18 DEF PoolInv

\* A step that leaves queue, futures and calls alone.
LEMMA QuietStep ==
  ASSUME PoolInv, UNCHANGED <<mode, blocks, started, work_queue, futures, stack>>,
         got' \in 0..blocks, done' \in BOOLEAN, MainRight'
  PROVE  PoolInv'
<1>1. PoolTypeOK' /\ QueueOK' /\ CallsOK' /\ NoneLost' /\ Awaited'
  BY DEF PoolInv, PoolTypeOK, QueueOK, CallsOK, NoneLost, Awaited, Unfinished, Submitted, Calls
<1>2. StacksOK'
  BY DEF PoolInv, StacksOK, FirstOK, CallOK, Submitted, Calls
<1>3. PICK given \in Seq(SUBSET Elements) : WorkRight(given)
  BY DEF PoolInv
<1>4. WorkRight(given)'
  BY <1>3 DEF WorkRight, QueueRight, FuturesRight, CallRight, Right, Block, SizeOfBlock, Calls
<1> QED
  BY <1>1, <1>2, <1>4 DEF PoolInv

\* The caller takes the next future of the sum, or adds its own block.
LEMMA GetBlockKeeps ==
  ASSUME PoolInv, GetBlock
  PROVE  PoolInv'
<1>1. /\ mode # "sort" /\ ~done /\ Len(futures) = blocks - 1 /\ got < blocks - 1 /\ futures[got + 1].ready
      /\ got' = got + 1 /\ result' = result + futures[got + 1].value
      /\ UNCHANGED <<mode, blocks, started, work_queue, futures, stack, done>>
      /\ blocks \in Nat \ {0} /\ got \in Nat /\ got \in 0..blocks
  BY DEF GetBlock, PoolInv, PoolTypeOK
<1>2. got + 1 \in 1..Len(futures) /\ got + 1 < blocks /\ got # blocks /\ got + 1 # blocks /\ got + 1 \in 0..blocks
  BY <1>1
<1>3. futures[got + 1].value = SumOf(Block(got + 1))
  BY <1>1, <1>2 DEF PoolInv, WorkRight, FuturesRight, Right
<1>4. result = SumOf(1..got * SizeOfBlock)
  BY <1>1, <1>2 DEF PoolInv, MainRight
<1>5. result' = SumOf(1..(got + 1) * SizeOfBlock)
  <2> DEFINE A == 1..got * SizeOfBlock
             B == Block(got + 1)
  <2>1. /\ A \in SUBSET Elements /\ B \in SUBSET Elements
        /\ 1..(got + 1) * SizeOfBlock = A \cup B /\ A \cap B = {}
    BY <1>1, <1>2, Blocks
  <2>2. result' = SumOf(A) + SumOf(B)
    BY <1>1, <1>3, <1>4
  <2> HIDE DEF A, B
  <2>3. SumOf(A \cup B) = SumOf(A) + SumOf(B)
    BY <2>1, SumsAdd
  <2> QED
    BY <2>1, <2>2, <2>3
<1>6. \A id \in 1..Len(futures) : id <= got + 1 => futures[id].ready
  <2>1. \A id \in 1..Len(futures) : id <= got + 1 => id <= got \/ id = got + 1
    BY <1>1
  <2> QED
    BY <2>1, <1>1 DEF PoolInv, MainRight
<1>7. MainRight'
  <2>1. result' = SumOf(IF got' = blocks' THEN Elements ELSE 1..got' * SizeOfBlock')
    BY <1>1, <1>2, <1>5 DEF SizeOfBlock
  <2>2. Len(futures) < blocks /\ (blocks - 1) * SizeOfBlock <= Len(Key) /\ (mode = "spawn" => work_queue = <<>>)
    BY <1>1 DEF PoolInv, MainRight
  <2>3. ((blocks - 1) * SizeOfBlock <= Len(Key))'
    BY <2>2, <1>1 DEF SizeOfBlock
  <2> QED
    BY <2>1, <2>2, <2>3, <1>1, <1>6 DEF MainRight
<1> QED
  BY <1>1, <1>2, <1>7, QuietStep DEF PoolInv, PoolTypeOK

LEMMA AddLastKeeps ==
  ASSUME PoolInv, AddLast
  PROVE  PoolInv'
<1>1. /\ mode # "sort" /\ Len(futures) = blocks - 1 /\ got = blocks - 1
      /\ got' = blocks /\ result' = result + SumOf(LastBlock)
      /\ UNCHANGED <<mode, blocks, started, work_queue, futures, stack, done>>
      /\ blocks \in Nat \ {0}
  BY DEF AddLast, PoolInv, PoolTypeOK
<1>2. blocks - 1 # blocks /\ blocks \in 0..blocks /\ \A id \in 1..blocks - 1 : id <= blocks - 1
  BY <1>1
<1>3. result = SumOf(1..(blocks - 1) * SizeOfBlock)
  BY <1>1, <1>2 DEF PoolInv, MainRight
<1>4. result' = SumOf(Elements)
  <2> DEFINE first == 1..(blocks - 1) * SizeOfBlock
  <2>1. /\ LastBlock \in SUBSET Elements /\ first \in SUBSET Elements
        /\ Elements = first \cup LastBlock /\ first \cap LastBlock = {}
    BY <1>1, Blocks, Zenon
  <2>2. result' = SumOf(first) + SumOf(LastBlock)
    BY <1>1, <1>3
  <2> HIDE DEF first
  <2>3. SumOf(first \cup LastBlock) = SumOf(first) + SumOf(LastBlock)
    BY <2>1, SumsAdd
  <2> QED
    BY <2>1, <2>2, <2>3
<1>5. MainRight'
  <2>1. Len(futures) < blocks /\ (blocks - 1) * SizeOfBlock <= Len(Key) /\ (mode = "spawn" => work_queue = <<>>)
        /\ \A id \in 1..Len(futures) : id <= got => futures[id].ready
    BY <1>1 DEF PoolInv, MainRight
  <2>2. \A id \in 1..Len(futures) : futures[id].ready
    BY <2>1, <1>1, <1>2
  <2>3. ((blocks - 1) * SizeOfBlock <= Len(Key))'
    BY <2>1, <1>1 DEF SizeOfBlock
  <2> QED
    BY <2>1, <2>2, <2>3, <1>1, <1>4 DEF MainRight, Finished
<1> QED
  BY <1>1, <1>2, <1>5, QuietStep DEF PoolInv, PoolTypeOK

LEMMA ShutdownKeeps ==
  ASSUME PoolInv, Shutdown
  PROVE  PoolInv'
<1>1. MainRight'
  BY DEF PoolInv, MainRight, Shutdown, Finished, SizeOfBlock
<1> QED
  BY <1>1, QuietStep DEF PoolInv, PoolTypeOK, Shutdown

LEMMA IdleKeeps ==
  ASSUME PoolInv, UNCHANGED <<mode, blocks, started, work_queue, futures, stack, got, result, done>>
  PROVE  PoolInv'
<1>1. MainRight'
  BY DEF PoolInv, MainRight, Finished, SizeOfBlock
<1> QED
  BY <1>1, QuietStep DEF PoolInv, PoolTypeOK

-----------------------------------------------------------------------------
(* The actions.                                                            *)

\* A call that is in do_sort is the sort's.
LEMMA SortsInSort ==
  ASSUME PoolInv, NEW t \in Threads, stack[t] # <<>>, Top(t).pc \in {"begin", "wait"}
  PROVE  mode = "sort" /\ CallOK(t, Len(stack[t])) /\ Len(stack[t]) \in Calls(t) /\ Top(t) \in Frames
<1>1. stack \in [Threads -> Seq(Frames)]
  BY DEF PoolInv, PoolTypeOK
<1>2. Len(stack[t]) \in 1..Len(stack[t])
  BY <1>1
<1>3. CallOK(t, Len(stack[t]))
  BY <1>2 DEF PoolInv, StacksOK, Calls
<1>4. mode = "sort"
  BY <1>3 DEF CallOK, Top
<1> QED
  BY <1>1, <1>2, <1>3, <1>4 DEF Calls, Top

LEMMA ReturnKeeps ==
  ASSUME PoolInv, NEW t \in Threads, NEW sorted, Returning(t, sorted), Returns(t, sorted),
         UNCHANGED <<mode, blocks, started, work_queue, got, done>>
  PROVE  PoolInv'
<1>1. CASE Top(t).task # NoTask
  <2>1. /\ futures' = [futures EXCEPT ![Top(t).task] = Ready(sorted)]
        /\ stack' = [stack EXCEPT ![t] = Below(t)] /\ result' = result
    BY <1>1 DEF Returns
  <2> QED
    BY <2>1, <1>1, ReturnTask
<1>2. CASE Top(t).task = NoTask /\ Len(stack[t]) = 1
  <2>1. result' = sorted /\ stack' = [stack EXCEPT ![t] = <<>>] /\ futures' = futures
    BY <1>2 DEF Returns
  <2> QED
    BY <2>1, <1>2, ReturnToCaller
<1>3. CASE Top(t).task = NoTask /\ Len(stack[t]) # 1
  <2>1. BackToCall(t, sorted) /\ futures' = futures /\ result' = result
    BY <1>3 DEF Returns, BackToCall
  <2> QED
    BY <2>1, <1>3, ReturnToCall
<1> QED
  BY <1>1, <1>2, <1>3

LEMMA DoSortKeeps ==
  ASSUME PoolInv, NEW t \in Threads, DoSort(t)
  PROVE  PoolInv'
<1>1. CASE ReturnEmpty(t)
  <2>1. stack[t] # <<>> /\ Top(t).pc = "begin" /\ Top(t).chunk = {} /\ Returns(t, <<>>)
        /\ UNCHANGED <<mode, blocks, started, work_queue, got, done>>
    BY <1>1 DEF ReturnEmpty, InSort
  <2>2. mode = "sort" /\ Top(t).lower = NoTask
    BY <2>1, SortsInSort DEF CallOK, Top
  <2>3. Returning(t, <<>>)
    BY <2>1, <2>2, EmptySorted DEF Returning
  <2> QED
    BY <2>1, <2>3, ReturnKeeps
<1>2. CASE Split(t)
  <2>1. stack[t] # <<>> /\ Top(t).pc = "begin" /\ InSort(t, "begin")
    BY <1>2 DEF Split, InSort
  <2>2. mode = "sort"
    BY <2>1, SortsInSort
  <2>3. PICK p \in Top(t).chunk : SplitAt(t, p)
    BY <1>2 DEF Split, SplitAt, Lower
  <2>4. UNCHANGED <<mode, blocks, started, got, result, done>>
    BY <1>2 DEF Split
  <2> QED
    BY <2>1, <2>2, <2>3, <2>4, SplitKeeps
<1>3. CASE Merge(t)
  <2> DEFINE f == Top(t)
             sorted == Merged(futures[f.lower].value, f.pivot, f.higher)
  <2>1. stack[t] # <<>> /\ f.pc = "wait" /\ futures[f.lower].ready /\ Returns(t, sorted)
        /\ UNCHANGED <<mode, blocks, started, work_queue, got, done>>
    BY <1>3 DEF Merge, InSort, LowerReady
  <2>2. mode = "sort" /\ CallOK(t, Len(stack[t])) /\ Len(stack[t]) \in Calls(t) /\ f \in Frames
    BY <2>1, SortsInSort
  <2>3. Submitted(f.lower) /\ f.pivot \in f.chunk /\ f.chunk \in SUBSET Elements
    BY <2>1, <2>2 DEF CallOK, Top, Frames
  <2>4. PICK given \in Seq(SUBSET Elements) : WorkRight(given)
    BY DEF PoolInv
  <2>5. f.lower # NoTask
    <3>1. Len(futures) \in Nat
      BY DEF PoolInv, PoolTypeOK
    <3> QED
      BY <3>1, <2>3 DEF Submitted, NoTask
  <2>6. given[f.lower] = Lower(f.chunk, f.pivot) /\ Sorting(f.higher, Higher(f.chunk, f.pivot))
    BY <2>1, <2>2, <2>4, <2>5 DEF WorkRight, CallRight, Top
  <2>7. Sorting(futures[f.lower].value, Lower(f.chunk, f.pivot))
    BY <2>1, <2>2, <2>3, <2>4, <2>6 DEF WorkRight, FuturesRight, Right, Submitted
  <2> HIDE DEF f
  <2>8. Sorting(sorted, f.chunk)
    BY <2>3, <2>6, <2>7, MergeSorts
  <2>9. Returning(t, sorted)
    BY <2>1, <2>2, <2>8 DEF Returning, f
  <2> HIDE DEF sorted
  <2> QED
    BY <2>1, <2>9, ReturnKeeps
<1>4. CASE Help(t)
  <2>1. InSort(t, "wait") /\ RunTask(t) /\ UNCHANGED <<mode, blocks, started, got, result, done>>
    BY <1>4 DEF Help, MayHelp
  <2>2. mode = "sort"
    BY <2>1, SortsInSort DEF InSort
  <2>3. /\ work_queue # <<>> /\ work_queue' = TakeFrom(work_queue) /\ futures' = futures
        /\ stack' = [stack EXCEPT ![t] = Append(@, Frame(Head(work_queue).id, Head(work_queue).chunk))]
    BY <2>1, <2>2 DEF RunTask
  <2> QED
    BY <2>1, <2>2, <2>3, TakeAndSort
<1> QED
  BY <1>1, <1>2, <1>3, <1>4 DEF DoSort

LEMMA WorkerRunsKeeps ==
  ASSUME PoolInv, NEW t \in Workers, WorkerRuns(t)
  PROVE  PoolInv'
<1>1. /\ t \in started /\ t \in Threads /\ t # Main /\ stack[t] = <<>> /\ RunTask(t)
      /\ UNCHANGED <<mode, blocks, started, got, result, done>>
  BY PoolAssumption DEF WorkerRuns, Threads
<1>2. CASE mode = "sort"
  <2>1. /\ work_queue # <<>> /\ work_queue' = TakeFrom(work_queue) /\ futures' = futures
        /\ stack' = [stack EXCEPT ![t] = Append(@, Frame(Head(work_queue).id, Head(work_queue).chunk))]
    BY <1>1, <1>2 DEF RunTask
  <2> QED
    BY <2>1, <1>1, <1>2, TakeAndSort
<1>3. CASE mode # "sort"
  <2>1. /\ work_queue # <<>> /\ work_queue' = TakeFrom(work_queue) /\ stack' = stack
        /\ futures' = [futures EXCEPT ![Head(work_queue).id] = Ready(SumOf(Head(work_queue).chunk))]
    BY <1>1, <1>3 DEF RunTask
  <2> QED
    BY <2>1, <1>1, <1>3, TakeAndSum
<1> QED
  BY <1>2, <1>3

LEMMA StepKeeps ==
  ASSUME PoolInv, PoolNext
  PROVE  PoolInv'
<1>1. Main \in Threads /\ Workers \subseteq Threads
  BY DEF Threads
<1>2. CASE DoSort(Main)
  BY <1>1, <1>2, DoSortKeeps
<1>3. CASE SubmitBlock
  BY <1>3, SubmitBlockKeeps
<1>4. CASE SpawnBlock
  <2>1. PICK w \in Workers \ started : started' = started \cup {w} /\ StartsFor(w)
    BY <1>4 DEF SpawnBlock, StartsFor
  <2>2. mode = "spawn" /\ Len(futures) < blocks - 1 /\ futures' = Append(futures, NotReady)
        /\ UNCHANGED <<mode, blocks, work_queue, got, result, done>>
    BY <1>4 DEF SpawnBlock
  <2> QED
    BY <2>1, <2>2, SpawnBlockKeeps
<1>5. CASE GetBlock
  BY <1>5, GetBlockKeeps
<1>6. CASE AddLast
  BY <1>6, AddLastKeeps
<1>7. CASE Shutdown
  BY <1>7, ShutdownKeeps
<1>8. CASE Join
  BY <1>8, IdleKeeps DEF Join
<1>9. ASSUME NEW t \in Workers, WorkerThread(t) PROVE PoolInv'
  <2>1. CASE WorkerRuns(t)
    BY <2>1, WorkerRunsKeeps
  <2>2. CASE WorkerEnds(t)
    BY <2>2, IdleKeeps DEF WorkerEnds
  <2>3. CASE DoSort(t)
    BY <2>3, <1>1, DoSortKeeps
  <2>4. CASE RunBlock(t)
    BY <2>4, <1>1, RunBlockKeeps
  <2> QED
    BY <2>1, <2>2, <2>3, <2>4, <1>9 DEF WorkerThread
<1> QED
  BY <1>2, <1>3, <1>4, <1>5, <1>6, <1>7, <1>8, <1>9 DEF PoolNext, MainThread

-----------------------------------------------------------------------------
(* The beginning.                                                          *)

LEMMA QuotientIs ==
  ASSUME NEW a \in Nat, NEW b \in Nat \ {0}
  PROVE  a \div b \in Nat /\ b * (a \div b) <= a /\ a < b * (a \div b) + b
OBVIOUS

LEMMA BlocksAtFirst ==
  /\ BlocksOfMinSize \in Nat \ {0}
  /\ (BlocksOfMinSize - 1) * BlockSize <= Len(Key)
  /\ NumThreads \subseteq Nat \ {0}
  /\ \A n \in Nat \ {0} : (n - 1) * (Len(Key) \div n) <= Len(Key)
<1>1. PICK L \in Nat \ {0} : L = Len(Key)
  BY KeyIsList
<1>2. PICK b \in Nat \ {0} : b = BlockSize
  BY PoolAssumption
<1>3. PICK q \in Nat : q = (L + b - 1) \div b
  <2>1. L + b - 1 \in Nat
    OBVIOUS
  <2> QED
    BY <2>1, QuotientIs
<1>4. q = BlocksOfMinSize
  BY <1>1, <1>2, <1>3 DEF BlocksOfMinSize
<1>5. b * q <= L + b - 1 /\ L + b - 1 < b * q + b
  BY <1>3, QuotientIs, L + b - 1 \in Nat
<1>6. q # 0
  BY <1>5
<1>7. (q - 1) * b <= L
  <2>1. PICK r \in Nat : q = r + 1
    <3>1. q - 1 \in Nat /\ q = (q - 1) + 1
      BY <1>6
    <3> QED
      BY <3>1
  <2>2. b * q = r * b + b /\ q - 1 = r /\ r * b \in Nat
    BY <2>1
  <2> QED
    BY <2>2, <1>5
<1>8. NumThreads \subseteq Nat \ {0}
  <2>1. ASSUME NEW h \in Nat PROVE Min({IF h # 0 THEN h ELSE 2, BlocksOfMinSize}) \in Nat \ {0}
    <3>1. PICK x \in Nat \ {0} : x = IF h # 0 THEN h ELSE 2
      OBVIOUS
    <3>2. \E y \in {x, q} : \A z \in {x, q} : y <= z
      OBVIOUS
    <3>3. Min({x, q}) \in {x, q}
      BY <3>2 DEF Min
    <3> QED
      BY <3>1, <3>3, <1>4, <1>6
  <2>2. 0..Cardinality(Workers) + 1 \subseteq Nat
    BY PoolAssumption, FS_CardinalityType
  <2>3. ASSUME NEW h \in 0..Cardinality(Workers) + 1
        PROVE  Min({IF h # 0 THEN h ELSE 2, BlocksOfMinSize}) \in Nat \ {0}
    <3>1. h \in Nat
      BY <2>2
    <3> QED
      BY <3>1, <2>1
  <2> QED
    BY <2>3, ZenonT(60) DEF NumThreads
<1>9. ASSUME NEW n \in Nat \ {0} PROVE (n - 1) * (L \div n) <= L
  <2>1. PICK d \in Nat : d = L \div n
    BY QuotientIs
  <2>2. n * d <= L
    BY <2>1, QuotientIs
  <2>3. (n - 1) * d <= n * d /\ n * d \in Nat /\ (n - 1) * d \in Nat
    <3>1. n - 1 \in Nat /\ n - 1 <= n
      OBVIOUS
    <3> QED
      BY <3>1, Products
  <2> QED
    BY <2>1, <2>2, <2>3
<1> QED
  BY <1>1, <1>2, <1>4, <1>6, <1>7, <1>8, <1>9

LEMMA BeginsRight == PoolInit => PoolInv
<1> SUFFICES ASSUME PoolInit PROVE PoolInv
  OBVIOUS
<1> DEFINE e == Frame(NoTask, Elements)
<1>1. /\ mode \in {"sort", "sum", "spawn"} /\ work_queue = <<>> /\ futures = <<>> /\ got = 0
      /\ done = FALSE /\ result = IF mode = "sort" THEN <<>> ELSE 0
      /\ Len(work_queue) = 0 /\ Len(futures) = 0
      /\ stack = [t \in Threads |-> IF mode = "sort" /\ t = Main THEN <<e>> ELSE <<>>]
      /\ Main \in Threads
  BY DEF PoolInit, SortCall, Threads
<1>2. blocks \in Nat \ {0} /\ (blocks - 1) * SizeOfBlock <= Len(Key)
  <2>1. CASE mode = "spawn"
    BY <2>1, BlocksAtFirst DEF PoolInit, SizeOfBlock
  <2>2. CASE mode # "spawn"
    BY <2>2, BlocksAtFirst DEF PoolInit, SizeOfBlock
  <2> QED
    BY <2>1, <2>2
<1>3. started \in SUBSET Workers
  BY DEF PoolInit
<1>4. /\ e \in Frames /\ e.task = NoTask /\ e.chunk = Elements /\ e.pc = "begin" /\ e.lower = NoTask
  BY FrameIs DEF Frame, NoTask
<1> HIDE DEF e
<1>5. /\ stack \in [Threads -> Seq(Frames)]
      /\ \A t \in Threads : mode = "sort" /\ t = Main => stack[t] = <<e>> /\ Len(stack[t]) = 1
      /\ \A t \in Threads : ~(mode = "sort" /\ t = Main) => stack[t] = <<>> /\ Len(stack[t]) = 0
  BY <1>1, <1>4
<1>6. \A t \in Threads : \A k \in 1..Len(stack[t]) :
        mode = "sort" /\ t = Main /\ k = 1 /\ stack[t][k] = e /\ Len(stack[t]) = 1
  <2> SUFFICES ASSUME NEW t \in Threads, NEW k \in 1..Len(stack[t])
               PROVE  mode = "sort" /\ t = Main /\ k = 1 /\ stack[t][k] = e /\ Len(stack[t]) = 1
    OBVIOUS
  <2>1. mode = "sort" /\ t = Main
    <3>1. Len(stack[t]) # 0
      OBVIOUS
    <3> QED
      BY <3>1, <1>5
  <2>2. stack[t] = <<e>> /\ Len(stack[t]) = 1
    BY <2>1, <1>5
  <2>3. k = 1
    BY <2>2
  <2> QED
    BY <2>1, <2>2, <2>3
<1>7. \A x : ~Submitted(x) /\ ~Unfinished(x)
  <2>1. 1..Len(futures) = {}
    BY <1>1
  <2> QED
    BY <2>1 DEF Submitted, Unfinished
<1>8. PoolTypeOK
  <2>1. work_queue \in Seq(Tasks) /\ futures \in Seq(Futures) /\ got \in 0..blocks
    BY <1>1, <1>2
  <2>2. done \in BOOLEAN
    BY <1>1, Zenon
  <2>3. mode \in {"sort", "sum", "spawn"} /\ blocks \in Nat \ {0} /\ stack \in [Threads -> Seq(Frames)]
    BY <1>1, <1>2, <1>5
  <2> QED
    BY <2>1, <2>2, <2>3, <1>3 DEF PoolTypeOK
<1>9. QueueOK
  BY <1>1 DEF QueueOK
<1>10. CallsOK
  BY <1>4, <1>6 DEF CallsOK, Calls
<1>11. NoneLost /\ Awaited
  BY <1>7 DEF NoneLost, Awaited
<1>12. StacksOK
  <2>1. ASSUME NEW t \in Threads PROVE FirstOK(t)
    BY <1>4, <1>5, <1>6 DEF FirstOK
  <2>2. ASSUME NEW t \in Threads, NEW k \in 1..Len(stack[t]) PROVE CallOK(t, k)
    BY <1>4, <1>6 DEF CallOK
  <2> QED
    BY <2>1, <2>2 DEF StacksOK, Calls
<1>13. MainRight
  <2>1. mode = "sort" => stack[Main] # <<>> /\ stack[Main][1].chunk = Elements
    BY <1>1, <1>4, <1>5
  <2>2. mode # "sort" => result = SumOf(1..0 * SizeOfBlock)
    <3>1. mode # "sort" => SizeOfBlock \in Nat
      <4>1. Len(Key) \div blocks \in Nat
        BY <1>2, KeyIsList, QuotientIs
      <4> QED
        BY <4>1, PoolAssumption DEF SizeOfBlock
    <3>2. mode # "sort" => 1..0 * SizeOfBlock = {}
      BY <3>1
    <3> QED
      BY <3>2, <1>1, SumIsNumber
  <2>3. Len(futures) < blocks /\ got # blocks
    BY <1>1, <1>2
  <2> QED
    BY <2>1, <2>2, <2>3, <1>1, <1>2 DEF MainRight
<1>14. WorkRight(<<>>)
  <2>1. QueueRight(<<>>) /\ FuturesRight(<<>>)
    BY <1>1 DEF QueueRight, FuturesRight
  <2>2. \A t \in Threads : \A k \in Calls(t) : CallRight(t, k, <<>>)
    BY <1>4, <1>6 DEF CallRight, Calls
  <2> QED
    BY <2>1, <2>2 DEF WorkRight
<1>15. <<>> \in Seq(SUBSET Elements)
  OBVIOUS
<1> QED
  BY <1>8, <1>9, <1>10, <1>11, <1>12, <1>13, <1>14, <1>15 DEF PoolInv

-----------------------------------------------------------------------------
(* The theorems.                                                           *)

\* The parts of the invariant, of every reachable state: what is queued or runs
\* is unfinished, each once, whoever submitted an unfinished task waits for it,
\* and every value is right for what it was computed from.
THEOREM PoolInvariant == PoolSpec => []PoolInv
<1>1. PoolInit => PoolInv
  BY BeginsRight
<1>2. PoolInv /\ [PoolNext]_poolVars => PoolInv'
  <2>1. ASSUME PoolInv, UNCHANGED poolVars PROVE PoolInv'
    BY <2>1, IdleKeeps DEF poolVars
  <2> QED
    BY <2>1, StepKeeps
<1> QED
  BY <1>1, <1>2, PTL DEF PoolSpec

\* A promise of the pool is never set twice and none is forgotten: every task
\* is in the queue, in one call of one thread or finished.
THEOREM TasksOnce == PoolSpec => []EachTaskOnce
<1>1. ASSUME PoolInv PROVE EachTaskOnce
  <2>1. /\ work_queue \in Seq(Tasks) /\ stack \in [Threads -> Seq(Frames)] /\ futures \in Seq(Futures)
    BY <1>1 DEF PoolInv, PoolTypeOK
  <2>2. ASSUME NEW id \in DOMAIN futures
        PROVE  Cardinality(Queued(id)) + Cardinality(Running(id)) + (IF futures[id].ready THEN 1 ELSE 0) = 1
    <3>1. id \in Nat /\ id # NoTask /\ Submitted(id)
      BY <2>1 DEF Submitted, NoTask
    <3>2. Queued(id) = {i \in 1..Len(work_queue) : work_queue[i].id = id}
      BY <2>1 DEF Queued
    <3>3. Running(id) = {t \in Threads : \E k \in 1..Len(stack[t]) : stack[t][k].task = id}
      BY <2>1 DEF Running
    <3>4. Cardinality({}) = 0 /\ \A x : Cardinality({x}) = 1
      BY FS_EmptySet, FS_Singleton
    <3>5. CASE futures[id].ready
      <4>1. Queued(id) = {}
        BY <3>2, <3>5, <1>1 DEF PoolInv, QueueOK, Unfinished
      <4>2. Running(id) = {}
        BY <3>1, <3>3, <3>5, <1>1 DEF PoolInv, CallsOK, Unfinished, Calls
      <4> QED
        BY <4>1, <4>2, <3>4, <3>5
    <3>6. ASSUME ~futures[id].ready, NEW i \in 1..Len(work_queue), work_queue[i].id = id
          PROVE  Cardinality(Queued(id)) = 1 /\ Cardinality(Running(id)) = 0
      <4>1. Queued(id) = {i}
        BY <3>2, <3>6, <1>1 DEF PoolInv, QueueOK
      <4>2. Running(id) = {}
        BY <3>1, <3>3, <3>6, <1>1 DEF PoolInv, CallsOK, Calls
      <4> QED
        BY <4>1, <4>2, <3>4
    <3>7. ASSUME ~futures[id].ready, NEW t \in Threads, NEW k \in 1..Len(stack[t]), stack[t][k].task = id
          PROVE  Cardinality(Queued(id)) = 0 /\ Cardinality(Running(id)) = 1
      <4>1. Queued(id) = {}
        BY <3>1, <3>2, <3>7, <1>1 DEF PoolInv, CallsOK, Calls
      <4>2. Running(id) = {t}
        BY <3>1, <3>3, <3>7, <1>1 DEF PoolInv, CallsOK, Calls
      <4> QED
        BY <4>1, <4>2, <3>4
    <3>8. CASE ~futures[id].ready
      <4>1. \/ \E i \in 1..Len(work_queue) : work_queue[i].id = id
            \/ \E t \in Threads : \E k \in 1..Len(stack[t]) : stack[t][k].task = id
        BY <3>1, <3>8, <1>1 DEF PoolInv, NoneLost, Unfinished, Calls
      <4> QED
        BY <4>1, <3>6, <3>7, <3>8
    <3> QED
      BY <3>5, <3>8
  <2> QED
    BY <2>2 DEF EachTaskOnce
<1> QED
  BY <1>1, PoolInvariant, PTL

\* An unfinished task of the sort has an unfinished call at the bottom of a
\* thread, and the oldest of them is the caller's: while any task is
\* unfinished, so is the sort.
LEMMA CallerWaits ==
  ASSUME PoolInv, mode = "sort", stack[Main] = <<>>
  PROVE  \A id \in Nat : ~Unfinished(id)
<1> DEFINE S == {n \in Nat : \A id \in Nat : id <= n => ~Unfinished(id)}
<1>1. Len(futures) \in Nat /\ stack \in [Threads -> Seq(Frames)]
  BY DEF PoolInv, PoolTypeOK
<1>2. 0 \in S
  <2>1. \A id \in Nat : id <= 0 => id \notin 1..Len(futures)
    BY <1>1
  <2> QED
    BY <2>1 DEF Unfinished, Submitted
<1>3. ASSUME NEW n \in Nat, n \in S PROVE n + 1 \in S
  <2>1. \A id \in Nat : id <= n => ~Unfinished(id)
    BY <1>3
  <2>2. ASSUME Unfinished(n + 1) PROVE FALSE
    <3>1. PICK t \in Threads : \E k \in Calls(t) : stack[t][k].lower = n + 1
      BY <2>2, n + 1 \in Nat DEF PoolInv, Awaited
    <3>2. PICK k \in Calls(t) : stack[t][k].lower = n + 1
      BY <3>1
    <3>3. stack[t] \in Seq(Frames) /\ k \in 1..Len(stack[t]) /\ stack[t] # <<>> /\ 1 \in 1..Len(stack[t])
      <4>1. stack[t] \in Seq(Frames) /\ k \in 1..Len(stack[t])
        BY <1>1, <3>2 DEF Calls
      <4> QED
        BY <4>1, NoCalls
    <3>4. CallOK(t, k) /\ FirstOK(t) /\ stack[t][k] \in Frames
      BY <3>2, <3>3 DEF PoolInv, StacksOK
    <3>5. stack[t][1].task < n + 1
      <4>1. stack[t][k].pc \in {"begin", "higher", "wait", "block"} /\ n + 1 # NoTask
        BY <3>4 DEF Frames, NoTask
      <4> QED
        BY <4>1, <3>2, <3>4 DEF CallOK
    <3>6. t # Main /\ stack[t][1].task # NoTask
      BY <3>3, <3>4 DEF FirstOK
    <3>7. Unfinished(stack[t][1].task) /\ stack[t][1].task \in Nat
      <4>1. Unfinished(stack[t][1].task)
        BY <3>3, <3>6 DEF PoolInv, CallsOK, Calls
      <4> QED
        BY <4>1, <1>1 DEF Unfinished, Submitted
    <3> QED
      BY <2>1, <3>5, <3>7
  <2>3. \A id \in Nat : id <= n + 1 => id <= n \/ id = n + 1
    OBVIOUS
  <2> QED
    BY <2>1, <2>2, <2>3
<1>4. Nat \subseteq S
  <2> HIDE DEF S
  <2> QED
    BY <1>2, <1>3, EveryNumber
<1>5. ASSUME NEW id \in Nat PROVE ~Unfinished(id)
  <2>1. id \in S /\ id <= id
    BY <1>4
  <2> QED
    BY <2>1
<1> QED
  BY <1>5

\* What ~thread_pool would drop: when it runs, the queue is empty and every
\* future is ready.
THEOREM NothingLeft == PoolSpec => []NothingLeftAtShutdown
<1>1. ASSUME PoolInv PROVE NothingLeftAtShutdown
  <2> SUFFICES ASSUME done PROVE work_queue = <<>> /\ \A id \in DOMAIN futures : futures[id].ready
    BY DEF NothingLeftAtShutdown
  <2>1. /\ work_queue \in Seq(Tasks) /\ futures \in Seq(Futures) /\ Finished
        /\ blocks \in Nat \ {0} /\ DOMAIN futures = 1..Len(futures) /\ Len(futures) \in Nat
    BY <1>1 DEF PoolInv, PoolTypeOK, MainRight
  <2>2. \A id \in 1..Len(futures) : futures[id].ready
    <3>1. CASE mode = "sort"
      <4>1. \A id \in Nat : ~Unfinished(id)
        BY <3>1, <2>1, <1>1, CallerWaits DEF Finished
      <4> QED
        BY <4>1, <2>1 DEF Unfinished, Submitted
    <3>2. CASE mode # "sort"
      <4>1. got = blocks /\ Len(futures) = blocks - 1
        BY <3>2, <2>1, <1>1 DEF PoolInv, MainRight, Finished
      <4>2. \A id \in 1..Len(futures) : id <= got
        BY <4>1, <2>1
      <4> QED
        BY <4>2, <3>2, <1>1 DEF PoolInv, MainRight
    <3> QED
      BY <3>1, <3>2
  <2>3. work_queue = <<>>
    <3>1. ~\E i \in 1..Len(work_queue) : TRUE
      BY <2>2, <1>1 DEF PoolInv, QueueOK, Unfinished, Submitted
    <3>2. work_queue # <<>> => 1 \in 1..Len(work_queue)
      BY <2>1
    <3> QED
      BY <3>1, <3>2
  <2> QED
    BY <2>1, <2>2, <2>3
<1> QED
  BY <1>1, PoolInvariant, PTL

\* parallel_quick_sort returns the elements of the list in order, and both sums
\* the sum of the list, whatever the threads do.
THEOREM ValueReturnedRight == PoolSpec => []ResultRight
<1>1. ASSUME PoolInv PROVE ResultRight
  <2> SUFFICES ASSUME done PROVE IF mode # "sort"
          THEN result = SumOf(Elements)
          ELSE /\ Len(result) = Len(Key) /\ {result[i] : i \in DOMAIN result} = Elements
               /\ \A i, j \in DOMAIN result : i < j => Key[result[i]] <= Key[result[j]]
    BY DEF ResultRight
  <2>1. Finished
    BY <1>1 DEF PoolInv, MainRight
  <2>2. CASE mode # "sort"
    BY <2>1, <2>2, <1>1 DEF PoolInv, MainRight, Finished
  <2>3. CASE mode = "sort"
    <3>1. Sorting(result, Elements)
      BY <2>1, <2>3, <1>1 DEF PoolInv, MainRight, Finished
    <3>2. Cardinality(Elements) = Len(Key)
      <4>1. Cardinality(1..Len(Key)) = IF 1 > Len(Key) THEN 0 ELSE Len(Key) - 1 + 1
        BY KeyIsList, FS_Interval
      <4> QED
        BY <4>1, KeyIsList
    <3>3. {result[i] : i \in DOMAIN result} = Elements
      BY <3>1 DEF Sorting
    <3> QED
      BY <3>1, <3>2, <3>3, <2>3 DEF Sorting
  <2> QED
    BY <2>2, <2>3
<1> QED
  BY <1>1, PoolInvariant, PTL
=============================================================================
