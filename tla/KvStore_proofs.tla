--------------------------- MODULE KvStore_proofs ---------------------------
(***************************************************************************)
(* What is proved about the store of hw1, for every set of keys, every     *)
(* size of the tables and any number of puts, starts and kills: what merge *)
(* and load_storage compute, that no pair is ever invented, and that the   *)
(* number and the length of the tables stay bounded.  KvReads_proofs goes  *)
(* on with the values that are read.                                       *)
(***************************************************************************)
EXTENDS KvStore, TLAPS, FiniteSetTheorems, SequenceTheorems, WellFoundedInduction

----------------------------------------------------------------------------
(* Order.                                                                  *)

\* The numbers of a sequence of n elements are n.
LEMMA Interval ==
  ASSUME NEW n \in Nat
  PROVE  IsFiniteSet(1..n) /\ Cardinality(1..n) = n
<1>1. 1 \in Int /\ n \in Int /\ n = IF 1 > n THEN 0 ELSE n - 1 + 1
  OBVIOUS
<1>2. IsFiniteSet(1..n) /\ Cardinality(1..n) = IF 1 > n THEN 0 ELSE n - 1 + 1
  BY <1>1, FS_Interval, Zenon
<1>3. QED
  BY <1>1, <1>2, Zenon

\* A strict total order on S, given by what comes before each element.
Ordering(S, below) ==
  /\ below \in [S -> SUBSET S]
  /\ \A x \in S : x \notin below[x]
  /\ \A x, y \in S : x # y => x \in below[y] \/ y \in below[x]
  /\ \A x, y \in S : x \in below[y] => below[x] \subseteq below[y]

\* f lists each element of S, which has n, once and in order.
Enumerates(f, n, S, below) ==
  /\ n \in Nat
  /\ f \in [1..n -> S]
  /\ \A x \in S : \E i \in 1..n : f[i] = x
  /\ \A i, j \in 1..n : i < j => f[i] \in below[f[j]]

\* InOrder does.
LEMMA InOrderEnumerates ==
  ASSUME NEW S, IsFiniteSet(S), NEW below, Ordering(S, below)
  PROVE  Enumerates(InOrder(S, below), Cardinality(S), S, below)
<1> DEFINE n == Cardinality(S)
           c(x) == Cardinality(below[x])
           f == InOrder(S, below)
<1>1. n \in Nat
  BY FS_CardinalityType
<1>2. ASSUME NEW x \in S
      PROVE  IsFiniteSet(below[x]) /\ c(x) \in Nat /\ c(x) < n
  <2>1. below[x] \in SUBSET S /\ below[x] # S
    BY DEF Ordering
  <2>2. IsFiniteSet(below[x]) /\ Cardinality(below[x]) <= Cardinality(S)
        /\ Cardinality(S) # Cardinality(below[x])
    BY <2>1, FS_Subset
  <2>3. c(x) \in Nat
    BY <2>2, FS_CardinalityType
  <2>4. QED
    BY <1>1, <2>2, <2>3
<1>3. ASSUME NEW x \in S, NEW y \in S, x \in below[y]
      PROVE  c(x) < c(y)
  <2>1. below[x] \in SUBSET below[y] /\ below[x] # below[y]
    BY <1>3 DEF Ordering
  <2>2. Cardinality(below[x]) <= Cardinality(below[y])
        /\ Cardinality(below[y]) # Cardinality(below[x])
    BY <1>2, <2>1, FS_Subset
  <2>3. QED
    BY <1>2, <2>2
<1> HIDE DEF n, c, f
<1>4. \A x, y \in S : c(x) = c(y) => x = y
  <2> TAKE x, y \in S
  <2>1. ASSUME c(x) = c(y), x # y
        PROVE  FALSE
    <3>1. x \in below[y] \/ y \in below[x]
      BY <2>1 DEF Ordering
    <3>2. c(x) < c(y) \/ c(y) < c(x)
      BY <1>3, <3>1
    <3>3. c(x) \in Nat /\ c(y) \in Nat
      BY <1>2
    <3>4. QED
      BY <2>1, <3>2, <3>3
  <2>2. QED
    BY <2>1
<1>5. \A i \in 1..n : \E x \in S : c(x) = i - 1
  <2> DEFINE g == [x \in S |-> c(x) + 1]
  <2>1. \A x \in S : c(x) + 1 \in 1..n
    BY <1>1, <1>2
  <2>2. \A x, y \in S : c(x) + 1 = c(y) + 1 => c(x) = c(y)
    BY <1>2
  <2>3. g \in [S -> 1..n]
    BY <2>1
  <2>4. IsInjective(g)
    BY <1>4, <2>2 DEF IsInjective
  <2>5. g \in Injection(S, 1..n)
    BY <2>3, <2>4 DEF Injection
  <2>6. IsFiniteSet(1..n) /\ Cardinality(1..n) = n
    BY <1>1, Interval
  <2>7. Cardinality(S) = n
    BY DEF n
  <2> HIDE DEF g
  <2>8. g \in Surjection(S, 1..n)
    BY <2>5, <2>6, <2>7, FS_Injection
  <2>9. \A i \in 1..n : \E x \in S : g[x] = i
    BY <2>8 DEF Surjection
  <2> TAKE i \in 1..n
  <2>10. PICK x \in S : g[x] = i
    BY <2>9
  <2>11. c(x) + 1 = i /\ c(x) \in Nat
    BY <1>2, <2>10 DEF g
  <2>12. c(x) = i - 1
    BY <2>11
  <2>13. QED
    BY <2>12
<1>6. f = [i \in 1..n |-> CHOOSE x \in S : c(x) = i - 1]
  BY DEF f, n, c, InOrder
<1>7. \A i \in 1..n : f[i] \in S /\ c(f[i]) = i - 1
  BY <1>5, <1>6
<1>8. f \in [1..n -> S]
  BY <1>6, <1>7
<1>9. ASSUME NEW x \in S
      PROVE  \E i \in 1..n : f[i] = x
  <2> DEFINE i == c(x) + 1
  <2>1. i \in 1..n /\ i - 1 = c(x)
    BY <1>1, <1>2
  <2> HIDE DEF i
  <2>2. f[i] \in S /\ c(f[i]) = c(x)
    BY <1>7, <2>1
  <2>3. QED
    BY <1>4, <2>1, <2>2
<1>10. ASSUME NEW i \in 1..n, NEW j \in 1..n, i < j
       PROVE  f[i] \in below[f[j]]
  <2>1. c(f[i]) < c(f[j])
    BY <1>1, <1>7, <1>10
  <2>2. ASSUME f[j] \in below[f[i]]
        PROVE  FALSE
    <3>1. c(f[j]) < c(f[i])
      BY <1>3, <1>7, <2>2
    <3>2. c(f[i]) \in Nat /\ c(f[j]) \in Nat
      BY <1>2, <1>7
    <3>3. QED
      BY <2>1, <3>1, <3>2
  <2>3. f[i] # f[j]
    <3>1. c(f[i]) \in Nat
      BY <1>2, <1>7
    <3>2. QED
      BY <2>1, <3>1
  <2>4. QED
    BY <1>7, <2>2, <2>3 DEF Ordering
<1>11. QED
  BY <1>1, <1>8, <1>9, <1>10 DEF Enumerates, f, n

\* A set of positions that is not empty has a last one.
LEMMA LastPosition ==
  ASSUME NEW n \in Nat, NEW I \in SUBSET (1..n), I # {}
  PROVE  Max(I) \in I /\ \A y \in I : y <= Max(I)
<1> DEFINE Rel == OpToRel(<, Nat)
           D == {n - i : i \in I}
<1>1. I \subseteq Nat /\ \A i \in I : n - i \in Nat
  OBVIOUS
<1>2. D \subseteq Nat /\ D # {}
  BY <1>1
<1>3. IsWellFoundedOn(Rel, Nat)
  BY NatLessThanWellFounded
<1>4. \A x, y \in Nat : <<x, y>> \in Rel <=> x < y
  BY DEF OpToRel
<1> HIDE DEF Rel, D
<1>5. PICK d \in D : \A y \in D : ~(<<y, d>> \in Rel)
  BY <1>2, <1>3, WFMin
<1>6. PICK x \in I : d = n - x
  BY DEF D
<1>7. ASSUME NEW y \in I
      PROVE  y <= x
  <2>1. n - y \in D
    BY DEF D
  <2>2. ~(n - y < d) /\ n - y \in Nat
    BY <1>1, <1>2, <1>4, <1>5, <2>1
  <2>3. QED
    BY <1>1, <1>6, <2>2
<1>8. \E z \in I : \A y \in I : z >= y
  BY <1>1, <1>7
<1>9. Max(I) \in I /\ \A y \in I : Max(I) >= y
  BY <1>8 DEF Max
<1>10. QED
  BY <1>1, <1>9

\* Induction, for a set of numbers.
LEMMA AllNumbers ==
  ASSUME NEW S \in SUBSET Nat, 0 \in S, \A m \in S : m + 1 \in S
  PROVE  S = Nat
<1> DEFINE Rel == OpToRel(<, Nat)
           T == Nat \ S
<1>1. SUFFICES ASSUME T # {}
               PROVE  FALSE
  OBVIOUS
<1>2. IsWellFoundedOn(Rel, Nat) /\ T \subseteq Nat
  BY NatLessThanWellFounded
<1>3. \A x, y \in Nat : <<x, y>> \in Rel <=> x < y
  BY DEF OpToRel
<1> HIDE DEF Rel, T
<1>4. PICK x \in T : \A y \in T : ~(<<y, x>> \in Rel)
  BY <1>1, <1>2, WFMin
<1>5. x \in Nat /\ x # 0 /\ x \notin S
  BY DEF T
<1>6. x - 1 \in Nat /\ x - 1 < x /\ (x - 1) + 1 = x
  BY <1>5
<1>7. x - 1 \notin T
  BY <1>3, <1>4, <1>5, <1>6
<1>8. x - 1 \in S
  BY <1>6, <1>7 DEF T
<1>9. QED
  BY <1>5, <1>6, <1>8

----------------------------------------------------------------------------
(* merge.                                                                  *)

\* A pair as it is stored.
Pair == [index : Nat, key : Keys, value : Nat]

\* Pairs have the domain 1..Len and keys that can be compared.
LEMMA PairKeys ==
  ASSUME NEW t \in Seq(Pair)
  PROVE  /\ Len(t) \in Nat /\ DOMAIN t = 1..Len(t)
         /\ \A i \in 1..Len(t) : t[i] \in Pair /\ t[i].key \in Keys /\ t[i].key \in Nat
<1>1. Len(t) \in Nat /\ DOMAIN t = 1..Len(t)
  BY LenProperties
<1>2. ASSUME NEW i \in 1..Len(t)
      PROVE  t[i] \in Pair /\ t[i].key \in Keys /\ t[i].key \in Nat
  <2>1. t[i] \in Pair
    BY ElementOfSeq
  <2>2. t[i].key \in Keys
    BY <2>1 DEF Pair
  <2>3. QED
    BY <2>1, <2>2, KvStoreAssumption
<1>3. QED
  BY <1>1, <1>2

\* The order of qsort: by keys, and equal keys as they were.
KeyBefore(t, i, j) == t[i].key < t[j].key \/ (t[i].key = t[j].key /\ i < j)

\* p is the permutation by which the table t is sorted.
SortedBy(t, p) ==
  /\ p \in [1..Len(t) -> 1..Len(t)]
  /\ \A x \in 1..Len(t) : \E i \in 1..Len(t) : p[i] = x
  /\ \A i, j \in 1..Len(t) : i < j => KeyBefore(t, p[i], p[j])

\* sort_by_key permutes the pairs into the order of the keys and keeps the order of
\* pairs with the same key.
LEMMA SortByKey ==
  ASSUME NEW t \in Seq(Pair)
  PROVE  \E p : SortedBy(t, p) /\ sort_by_key(t) = [i \in 1..Len(t) |-> t[p[i]]]
<1> DEFINE n == Len(t)
           below == [j \in 1..n |-> {i \in 1..n : KeyBefore(t, i, j)}]
           p == InOrder(1..n, below)
<1>1. n \in Nat /\ DOMAIN t = 1..n /\ \A i \in 1..n : t[i].key \in Nat
  BY PairKeys
<1>2. IsFiniteSet(1..n) /\ Cardinality(1..n) = n
  BY <1>1, Interval
<1>3. Ordering(1..n, below)
  <2>1. \A x \in 1..n : ~KeyBefore(t, x, x)
    BY <1>1 DEF KeyBefore
  <2>2. \A x, y \in 1..n : x # y => KeyBefore(t, x, y) \/ KeyBefore(t, y, x)
    BY <1>1 DEF KeyBefore
  <2>3. \A x, y, z \in 1..n : KeyBefore(t, x, y) /\ KeyBefore(t, z, x) => KeyBefore(t, z, y)
    BY <1>1 DEF KeyBefore
  <2>4. QED
    BY <2>1, <2>2, <2>3 DEF Ordering
<1>4. Enumerates(p, n, 1..n, below)
  BY <1>2, <1>3, InOrderEnumerates
<1>5. SortedBy(t, p)
  <2>1. p \in [1..n -> 1..n] /\ \A x \in 1..n : \E i \in 1..n : p[i] = x
    BY <1>4 DEF Enumerates
  <2>2. \A i, j \in 1..n : i < j => p[i] \in below[p[j]]
    BY <1>4 DEF Enumerates
  <2> HIDE DEF p
  <2>3. \A i, j \in 1..n : i < j => KeyBefore(t, p[i], p[j])
    BY <2>1, <2>2
  <2>4. QED
    BY <2>1, <2>3 DEF SortedBy
<1>6. sort_by_key(t) = [i \in 1..n |-> t[p[i]]]
  <2>1. sort_by_key(t) = At(t, p)
    BY <1>1 DEF sort_by_key, KeyBefore
  <2>2. DOMAIN p = 1..n
    BY <1>2 DEF InOrder
  <2> HIDE DEF p
  <2>3. QED
    BY <2>1, <2>2 DEF At
<1>7. QED
  BY <1>5, <1>6

\* q lists the m positions of the table s that remove_duplicates keeps.
KeptBy(s, m, q) ==
  /\ m \in Nat
  /\ q \in [1..m -> 1..Len(s)]
  /\ \A a, b \in 1..m : a < b => q[a] < q[b]
  /\ \A i \in 1..Len(s) :
       (i < Len(s) => s[i].key # s[i + 1].key) <=> \E a \in 1..m : q[a] = i

\* remove_duplicates keeps the last of neighbours with the same key, in order.
LEMMA RemoveDuplicates ==
  ASSUME NEW s \in Seq(Pair)
  PROVE  \E m, q : KeptBy(s, m, q) /\ remove_duplicates(s) = [a \in 1..m |-> s[q[a]]]
<1> DEFINE n == Len(s)
           S == {i \in 1..n : i < n => s[i].key # s[i + 1].key}
           below == [j \in S |-> {i \in S : i < j}]
           q == InOrder(S, below)
           m == Cardinality(S)
<1>1. n \in Nat /\ DOMAIN s = 1..n
  BY PairKeys
<1>2. IsFiniteSet(S)
  <2>1. S \in SUBSET Nat /\ \A x \in S : x <= n
    BY <1>1
  <2> HIDE DEF S, n
  <2>2. n \in Nat
    BY <1>1
  <2>3. QED
    BY <2>1, <2>2, FS_BoundedSetOfNaturals
<1>3. Ordering(S, below)
  <2>1. S \subseteq Nat
    BY <1>1
  <2> HIDE DEF S
  <2>2. \A x, y, z \in S : ~(x < x) /\ (x # y => x < y \/ y < x) /\ (x < y /\ z < x => z < y)
    BY <2>1
  <2>3. below \in [S -> SUBSET S] /\ \A x, y \in S : x \in below[y] <=> x < y
    OBVIOUS
  <2> HIDE DEF below
  <2>4. /\ \A x \in S : x \notin below[x]
        /\ \A x, y \in S : x # y => x \in below[y] \/ y \in below[x]
    BY <2>2, <2>3, Zenon
  <2>5. \A x, y \in S : x \in below[y] => below[x] \subseteq below[y]
    BY <2>2, <2>3
  <2>6. QED
    BY <2>3, <2>4, <2>5 DEF Ordering
<1>4. Enumerates(q, m, S, below)
  BY <1>2, <1>3, InOrderEnumerates
<1>5. DOMAIN q = 1..m
  BY DEF InOrder
<1>6. remove_duplicates(s) = At(s, q)
  BY <1>1 DEF remove_duplicates, Ascending
<1> HIDE DEF q, m
<1>7. KeptBy(s, m, q)
  <2>1. m \in Nat /\ q \in [1..m -> S] /\ \A x \in S : \E i \in 1..m : q[i] = x
    BY <1>4 DEF Enumerates
  <2>2. \A i, j \in 1..m : i < j => q[i] < q[j]
    BY <1>4 DEF Enumerates
  <2>3. QED
    BY <2>1, <2>2 DEF KeptBy
<1>8. remove_duplicates(s) = [a \in 1..m |-> s[q[a]]]
  BY <1>5, <1>6 DEF At
<1>9. QED
  BY <1>7, <1>8

\* r lists the m pairs of t that a merge keeps: one of each key, in the order of the
\* keys, and the last one of its key.
MergedBy(t, m, r) ==
  /\ m \in Nat
  /\ r \in [1..m -> 1..Len(t)]
  /\ \A a, b \in 1..m : a < b => t[r[a]].key < t[r[b]].key
  /\ \A j \in 1..Len(t) : \E a \in 1..m : t[r[a]].key = t[j].key /\ r[a] >= j

\* The table with these pairs and new indexes.
Picked(t, m, r) == [a \in 1..m |-> [t[r[a]] EXCEPT !.index = a]]

\* What sort_by_key, remove_duplicates and reindex compute together.
LEMMA MergedPairs ==
  ASSUME NEW t \in Seq(Pair)
  PROVE  \E m, r : MergedBy(t, m, r) /\ Merged(t) = Picked(t, m, r)
<1> DEFINE n == Len(t)
<1>1. n \in Nat /\ \A i \in 1..n : t[i] \in Pair /\ t[i].key \in Nat
  BY PairKeys
<1>2. PICK p : SortedBy(t, p) /\ sort_by_key(t) = [i \in 1..n |-> t[p[i]]]
  BY SortByKey
<1> DEFINE s == [i \in 1..n |-> t[p[i]]]
<1>3. /\ p \in [1..n -> 1..n]
      /\ \A x \in 1..n : \E i \in 1..n : p[i] = x
      /\ \A i, j \in 1..n : i < j => KeyBefore(t, p[i], p[j])
  BY <1>2 DEF SortedBy
<1>4. s \in Seq(Pair) /\ Len(s) = n /\ \A i \in 1..n : s[i] = t[p[i]]
  <2>1. s \in [1..n -> Pair]
    BY <1>1, <1>3
  <2>2. QED
    BY <1>1, <2>1
<1>5. sort_by_key(t) = s
  BY <1>2
<1> HIDE DEF s
<1>6. PICK m, q : KeptBy(s, m, q) /\ remove_duplicates(s) = [a \in 1..m |-> s[q[a]]]
  BY <1>4, RemoveDuplicates
<1>7. /\ m \in Nat /\ q \in [1..m -> 1..n] /\ \A a, b \in 1..m : a < b => q[a] < q[b]
      /\ \A i \in 1..n : (i < n => s[i].key # s[i + 1].key) <=> \E a \in 1..m : q[a] = i
  BY <1>4, <1>6 DEF KeptBy
<1> DEFINE r == [a \in 1..m |-> p[q[a]]]
           K(i) == t[p[i]].key
<1>8. r \in [1..m -> 1..n]
  BY <1>3, <1>7
<1>9. Merged(t) = [a \in 1..m |-> [t[r[a]] EXCEPT !.index = a]]
  <2>1. Merged(t) = reindex([a \in 1..m |-> s[q[a]]])
    BY <1>5, <1>6 DEF Merged
  <2>2. \A a \in 1..m : s[q[a]] = t[r[a]]
    BY <1>4, <1>7
  <2> HIDE DEF r
  <2>3. [a \in 1..m |-> s[q[a]]] = [a \in 1..m |-> t[r[a]]]
    BY <2>2
  <2>4. QED
    BY <2>1, <2>3 DEF reindex
<1>10. /\ \A i \in 1..n : K(i) \in Nat /\ p[i] \in 1..n /\ p[i] \in Nat
       /\ \A i, j \in 1..n : i < j => K(i) < K(j) \/ (K(i) = K(j) /\ p[i] < p[j])
       /\ \A i \in 1..n : (i < n => K(i) # K(i + 1)) <=> \E a \in 1..m : q[a] = i
  <2>1. \A i \in 1..n : p[i] \in 1..n /\ K(i) \in Nat
    BY <1>1, <1>3
  <2>2. \A i \in 1..n : p[i] \in Nat
    BY <1>1, <2>1
  <2>3. \A i, j \in 1..n : i < j => K(i) < K(j) \/ (K(i) = K(j) /\ p[i] < p[j])
    BY <1>3 DEF KeyBefore
  <2>4. ASSUME NEW i \in 1..n
        PROVE  (i < n => K(i) # K(i + 1)) <=> \E a \in 1..m : q[a] = i
    <3>1. i < n => i + 1 \in 1..n
      BY <1>1
    <3>2. s[i].key = K(i) /\ (i < n => s[i + 1].key = K(i + 1))
      BY <1>4, <3>1
    <3>3. QED
      BY <1>7, <3>2
  <2>5. QED
    BY <2>1, <2>2, <2>3, <2>4
<1> HIDE DEF K
<1>11. ASSUME NEW a \in 1..m, NEW b \in 1..m, a < b
       PROVE  K(q[a]) < K(q[b])
  <2> DEFINE i == q[a]
             j == q[b]
  <2>1. i \in 1..n /\ j \in 1..n /\ i < j
    BY <1>7, <1>11
  <2>2. \E c \in 1..m : q[c] = i
    OBVIOUS
  <2> HIDE DEF i, j
  <2>3. i < n /\ i + 1 \in 1..n
    BY <1>1, <2>1
  <2>4. K(i) # K(i + 1)
    BY <1>10, <2>1, <2>2, <2>3
  <2>5. K(i) < K(i + 1)
    BY <1>1, <1>10, <2>1, <2>3, <2>4
  <2>6. CASE i + 1 = j
    BY <2>5, <2>6 DEF i, j
  <2>7. CASE i + 1 < j
    <3>1. K(i + 1) <= K(j)
      BY <1>10, <2>1, <2>3, <2>7
    <3>2. K(i) \in Nat /\ K(i + 1) \in Nat /\ K(j) \in Nat
      BY <1>10, <2>1, <2>3
    <3>3. K(i) < K(j)
      BY <2>5, <3>1, <3>2
    <3>4. QED
      BY <3>3 DEF i, j
  <2>8. i + 1 = j \/ i + 1 < j
    BY <1>1, <2>1
  <2>9. QED
    BY <2>6, <2>7, <2>8
<1>12. ASSUME NEW j \in 1..n
       PROVE  \E a \in 1..m : t[r[a]].key = t[j].key /\ r[a] >= j
  <2>1. PICK i \in 1..n : p[i] = j
    BY <1>3
  <2> DEFINE I == {x \in 1..n : K(x) = K(i)}
             l == Max(I)
  <2>2. I \in SUBSET (1..n) /\ i \in I
    OBVIOUS
  <2>3. l \in I /\ \A y \in I : y <= l
    <3> HIDE DEF I
    <3>1. I # {}
      BY <2>2
    <3>2. QED
      BY <1>1, <2>2, <3>1, LastPosition
  <2> HIDE DEF l
  <2>4. l \in 1..n /\ K(l) = K(i) /\ i <= l
    BY <2>2, <2>3
  <2>5. ASSUME l < n
        PROVE  K(l) # K(l + 1)
    <3>1. l + 1 \in 1..n /\ ~(l + 1 <= l)
      BY <1>1, <2>4, <2>5
    <3>2. l + 1 \notin I
      BY <2>3, <3>1
    <3>3. QED
      BY <2>4, <3>1, <3>2
  <2>6. PICK a \in 1..m : q[a] = l
    BY <1>10, <2>4, <2>5
  <2>7. r[a] = p[l]
    BY <2>6
  <2>8. p[l] >= p[i]
    <3>1. CASE i = l
      BY <1>10, <2>4, <3>1
    <3>2. CASE i < l
      <4>1. p[i] < p[l]
        <5>1. ~(K(i) < K(l))
          BY <1>10, <2>4
        <5>2. QED
          BY <1>10, <2>4, <3>2, <5>1
      <4>2. QED
        BY <1>10, <2>4, <4>1
    <3>3. QED
      BY <1>1, <2>4, <3>1, <3>2
  <2>9. t[r[a]].key = t[j].key
    BY <2>1, <2>4, <2>7 DEF K
  <2>10. r[a] >= j
    BY <2>1, <2>7, <2>8
  <2>11. QED
    BY <2>9, <2>10
<1>13. \A a, b \in 1..m : a < b => t[r[a]].key < t[r[b]].key
  BY <1>11 DEF K
<1>14. MergedBy(t, m, r)
  BY <1>7, <1>8, <1>12, <1>13 DEF MergedBy
<1>15. Merged(t) = Picked(t, m, r)
  BY <1>9 DEF Picked
<1> HIDE DEF r
<1>16. QED
  BY <1>14, <1>15, Zenon

\* What is written to a file is read back, and an empty file has no pairs.
LEMMA ReadBack ==
  /\ \A t \in Seq(Pair) : Pairs(Lines(t)) = t
  /\ Pairs(<<>>) = <<>>
<1>1. ASSUME NEW t \in Seq(Pair)
      PROVE  Pairs(Lines(t)) = t
  <2>1. DOMAIN t = 1..Len(t) /\ \A i \in 1..Len(t) : t[i] \in Pair
    BY PairKeys
  <2>2. DOMAIN Pairs(Lines(t)) = DOMAIN t
    BY DEF Pairs, Lines
  <2>3. ASSUME NEW i \in DOMAIN t
        PROVE  Pairs(Lines(t))[i] = t[i]
    <3>1. Pairs(Lines(t))[i] = [index |-> t[i].index, key |-> t[i].key, value |-> t[i].value]
      BY DEF Pairs, Lines, Line, Parse
    <3>2. t[i] \in Pair
      BY <2>1
    <3>3. QED
      BY <3>1, <3>2 DEF Pair
  <2>4. /\ Pairs(Lines(t)) = [i \in DOMAIN t |-> Pairs(Lines(t))[i]]
        /\ t = [i \in DOMAIN t |-> t[i]]
    BY <2>1 DEF Pairs, Lines
  <2>5. QED
    BY <2>3, <2>4
<1>2. Pairs(<<>>) = <<>>
  BY DEF Pairs
<1>3. QED
  BY <1>1, <1>2

----------------------------------------------------------------------------
(* No pair is invented.                                                    *)

\* The pairs that were put.
Written == {pair \in Pair : pair.value \in 1..Len(puts) /\ puts[pair.value] = pair.key}

\* They are all there is, in the memory table, in the array of merge, in the buffer
\* of the file that is being written and on disk.
ContentInv ==
  /\ puts \in Seq(Keys) /\ Len(puts) <= MaxPuts
  /\ table_index \in Nat
  /\ memory_table \in Seq(Written)
  /\ temp \in Seq(Written)
  /\ Pairs(out.lines) \in Seq(Written)
  /\ \A f \in DOMAIN files : Pairs(files[f]) \in Seq(Written)

\* A merge of such pairs has such pairs only.
LEMMA MergedWritten ==
  ASSUME NEW t \in Seq(Written)
  PROVE  Merged(t) \in Seq(Written)
<1>1. t \in Seq(Pair) /\ \A i \in 1..Len(t) : t[i] \in Written
  BY ElementOfSeq, SeqMonotonic DEF Written
<1>2. PICK m, r : MergedBy(t, m, r) /\ Merged(t) = Picked(t, m, r)
  BY <1>1, MergedPairs
<1>3. m \in Nat /\ r \in [1..m -> 1..Len(t)]
  BY <1>2 DEF MergedBy
<1>4. ASSUME NEW a \in 1..m
      PROVE  [t[r[a]] EXCEPT !.index = a] \in Written
  <2>1. PICK x \in Written : x = t[r[a]]
    BY <1>1, <1>3
  <2>2. a \in Nat
    BY <1>3
  <2>3. /\ [x EXCEPT !.index = a] \in Pair
        /\ [x EXCEPT !.index = a].key = x.key /\ [x EXCEPT !.index = a].value = x.value
    BY <2>2 DEF Written, Pair
  <2>4. [x EXCEPT !.index = a] \in Written
    BY <2>3 DEF Written
  <2>5. QED
    BY <2>1, <2>4
<1>5. Picked(t, m, r) \in [1..m -> Written]
  BY <1>4 DEF Picked
<1>6. QED
  BY <1>2, <1>3, <1>5

\* Nothing that was put is forgotten by a step that leaves puts alone, or adds to it.
LEMMA WrittenStays ==
  ASSUME ContentInv, UNCHANGED puts \/ \E k \in Keys : puts' = Append(puts, k)
  PROVE  Written \subseteq Written' /\ \A t \in Seq(Written) : t \in Seq(Written')
<1>1. Written \subseteq Written'
  <2>1. CASE UNCHANGED puts
    BY <2>1 DEF Written
  <2>2. ASSUME NEW k \in Keys, puts' = Append(puts, k)
        PROVE  Written \subseteq Written'
    <3>1. Len(puts) \in Nat /\ Len(puts') = Len(puts) + 1
          /\ \A i \in 1..Len(puts) : puts'[i] = puts[i]
      BY <2>2, LenProperties, AppendProperties DEF ContentInv
    <3>2. \A i \in 1..Len(puts) : i \in 1..Len(puts')
      BY <3>1
    <3>3. QED
      BY <3>1, <3>2 DEF Written
  <2>3. QED
    BY <2>1, <2>2
<1>2. QED
  BY <1>1, SeqMonotonic

\* A disk with pairs from W only.
DiskOf(disk, W) == \A f \in DOMAIN disk : Pairs(disk[f]) \in Seq(W)

\* Opening, closing and removing a file keeps it so.
LEMMA DiskOps ==
  ASSUME NEW disk, NEW W, DiskOf(disk, W), NEW n
  PROVE  /\ DiskOf(OpenFile(disk, n), W)
         /\ DiskOf(RemoveFile(disk, n), W)
         /\ \A lines : Pairs(lines) \in Seq(W) => DiskOf([disk EXCEPT ![n] = lines], W)
<1>1. Pairs(<<>>) \in Seq(W)
  BY ReadBack, EmptySeq
<1>2. DiskOf(OpenFile(disk, n), W)
  BY <1>1 DEF DiskOf, OpenFile
<1>3. DiskOf(RemoveFile(disk, n), W)
  BY DEF DiskOf, RemoveFile
<1>4. \A lines : Pairs(lines) \in Seq(W) => DiskOf([disk EXCEPT ![n] = lines], W)
  BY DEF DiskOf
<1>5. QED
  BY <1>2, <1>3, <1>4

\* Flushing pairs that were put.
LEMMA FlushContent ==
  ASSUME NEW W, W \subseteq Pair, NEW t \in Seq(W), DiskOf(files, W), Flush(t)
  PROVE  /\ memory_table' \in Seq(W) /\ Pairs(out'.lines) \in Seq(W) /\ DiskOf(files', W)
<1>1. t \in Seq(Pair)
  BY SeqMonotonic
<1>2. out'.lines = Lines(t) /\ memory_table' = <<>> /\ files' = OpenFile(files, meta_index)
  BY DEF Flush
<1>3. Pairs(out'.lines) = t
  BY <1>1, <1>2, ReadBack
<1>4. QED
  BY <1>2, <1>3, DiskOps, EmptySeq

\* Every step keeps ContentInv.
LEMMA ContentStep ==
  ASSUME ContentInv, [Next]_vars
  PROVE  ContentInv'
<1> DEFINE W == Written'
<1>1. DiskOf(files, Written) /\ Written \subseteq Pair /\ W \subseteq Pair
  BY DEF ContentInv, DiskOf, Written
<1>2. Pairs(NoFile.lines) \in Seq(W) /\ <<>> \in Seq(W)
  BY ReadBack, EmptySeq DEF NoFile
<1>3. ASSUME UNCHANGED puts
      PROVE  /\ DiskOf(files, W) /\ \A t \in Seq(Written) : t \in Seq(W)
             /\ puts' \in Seq(Keys) /\ Len(puts') <= MaxPuts
  BY <1>1, <1>3, WrittenStays DEF ContentInv, DiskOf
<1>4. ASSUME /\ puts' \in Seq(Keys) /\ Len(puts') <= MaxPuts /\ table_index' \in Nat
             /\ memory_table' \in Seq(W) /\ temp' \in Seq(W)
             /\ Pairs(out'.lines) \in Seq(W) /\ DiskOf(files', W)
      PROVE  ContentInv'
  BY <1>4 DEF ContentInv, DiskOf
<1>5. /\ memory_table \in Seq(Written) /\ temp \in Seq(Written) /\ table_index \in Nat
      /\ Pairs(out.lines) \in Seq(Written)
  BY DEF ContentInv
<1> HIDE DEF W
<1>6. CASE Start
  BY <1>2, <1>3, <1>4, <1>6 DEF Start
<1>7. CASE Back
  <2>1. UNCHANGED <<puts, temp, table_index>>
    BY <1>7 DEF Back, mergeVars, envVars
  <2>2. CASE memory_table # <<>>
    <3>1. Flush(memory_table)
      BY <1>7, <2>2 DEF Back
    <3>2. memory_table' \in Seq(W) /\ Pairs(out'.lines) \in Seq(W) /\ DiskOf(files', W)
      BY <1>1, <1>3, <1>5, <2>1, <3>1, FlushContent
    <3>3. QED
      BY <1>3, <1>4, <1>5, <2>1, <3>2
  <2>3. CASE memory_table = <<>>
    <3>1. UNCHANGED <<memory_table, files, out>>
      BY <1>7, <2>3 DEF Back
    <3>2. QED
      BY <1>3, <1>4, <1>5, <2>1, <3>1
  <2>4. QED
    BY <2>2, <2>3
<1>8. CASE CloseFlush \/ CloseMerge
  <2>1. /\ UNCHANGED <<puts, memory_table, temp, table_index>>
        /\ files' = [files EXCEPT ![out.number] = out.lines] /\ out' = NoFile
    BY <1>8 DEF CloseFlush, CloseMerge, ramVars, mergeVars, envVars
  <2>2. DiskOf(files', W)
    BY <1>3, <1>5, <2>1, DiskOps
  <2>3. QED
    BY <1>2, <1>3, <1>4, <1>5, <2>1, <2>2
<1>9. CASE ManualMerge
  BY <1>3, <1>4, <1>5, <1>9 DEF ManualMerge, ramVars, mergeVars, envVars
<1>10. CASE MergeRead
  <2>1. UNCHANGED <<puts, memory_table, out, table_index>>
    BY <1>10 DEF MergeRead, envVars
  <2>2. CASE Head(meta_list).file \in DOMAIN files
    <3>1. /\ temp' = temp \o Pairs(files[Head(meta_list).file])
          /\ files' = RemoveFile(files, Head(meta_list).file)
      BY <1>10, <2>2 DEF MergeRead
    <3>2. DiskOf(files', W) /\ Pairs(files[Head(meta_list).file]) \in Seq(W)
      BY <1>3, <2>1, <2>2, <3>1, DiskOps DEF DiskOf
    <3>3. temp' \in Seq(W)
      BY <1>3, <1>5, <2>1, <3>1, <3>2, ConcatProperties
    <3>4. QED
      BY <1>3, <1>4, <1>5, <2>1, <3>2, <3>3
  <2>3. CASE Head(meta_list).file \notin DOMAIN files
    <3>1. files' = files /\ (temp' = temp \/ temp' = <<>>)
      BY <1>10, <2>3 DEF MergeRead, MergerDies, mergeVars
    <3>2. QED
      BY <1>2, <1>3, <1>4, <1>5, <2>1, <3>1
  <2>4. QED
    BY <2>2, <2>3
<1>11. CASE MergeWrite
  <2>1. /\ UNCHANGED <<puts, memory_table, table_index>> /\ temp' = <<>>
        /\ files' = OpenFile(files, meta_index) /\ out'.lines = Lines(Merged(temp))
    BY <1>11 DEF MergeWrite, envVars
  <2>2. Merged(temp) \in Seq(Written)
    BY <1>5, MergedWritten
  <2>3. Merged(temp) \in Seq(Pair)
    BY <1>1, <2>2, SeqMonotonic
  <2>4. Pairs(out'.lines) \in Seq(W)
    BY <1>3, <2>1, <2>2, <2>3, ReadBack
  <2>5. DiskOf(files', W)
    BY <1>3, <2>1, DiskOps
  <2>6. QED
    BY <1>2, <1>3, <1>4, <1>5, <2>1, <2>4, <2>5
<1>12. CASE Crash
  BY <1>2, <1>3, <1>4, <1>5, <1>12 DEF Crash
<1>13. ASSUME NEW k \in Keys, put_pair(k)
       PROVE  ContentInv'
  <2> DEFINE pair == [index |-> table_index, key |-> k, value |-> Len(puts) + 1]
             t == Append(memory_table, pair)
  <2>1. /\ puts' = Append(puts, k) /\ table_index' = table_index + 1 /\ temp' = temp
        /\ Len(puts) < MaxPuts
    BY <1>13 DEF put_pair, mergeVars
  <2>2. /\ Len(puts) \in Nat /\ puts' \in Seq(Keys) /\ Len(puts') = Len(puts) + 1
        /\ puts'[Len(puts) + 1] = k
    BY <2>1, LenProperties, AppendProperties DEF ContentInv
  <2>3. Len(puts') <= MaxPuts
    BY <2>1, <2>2, KvStoreAssumption
  <2>4. DiskOf(files, W) /\ \A u \in Seq(Written) : u \in Seq(W)
    BY <1>1, <2>1, WrittenStays DEF ContentInv, DiskOf, W
  <2>5. pair \in W
    <3>1. pair \in Pair
      BY <1>5, <2>2 DEF Pair
    <3>2. Len(puts) + 1 \in 1..Len(puts')
      BY <2>2
    <3>3. pair.value \in 1..Len(puts') /\ puts'[pair.value] = pair.key
      BY <2>2, <3>2
    <3> HIDE DEF pair
    <3>4. QED
      BY <3>1, <3>3 DEF W, Written
  <2> HIDE DEF pair
  <2>6. t \in Seq(W)
    BY <1>5, <2>4, <2>5, AppendProperties
  <2>7. temp' \in Seq(W) /\ table_index' \in Nat
    BY <1>5, <2>1, <2>4
  <2>8. CASE Full(t)
    <3>1. Flush(t)
      BY <1>13, <2>8 DEF put_pair, pair
    <3> HIDE DEF t
    <3>2. memory_table' \in Seq(W) /\ Pairs(out'.lines) \in Seq(W) /\ DiskOf(files', W)
      BY <1>1, <2>4, <2>6, <3>1, FlushContent
    <3>3. QED
      BY <1>4, <2>2, <2>3, <2>7, <3>2
  <2>9. CASE ~Full(t)
    <3>1. memory_table' = t /\ UNCHANGED <<files, out>>
      BY <1>13, <2>9 DEF put_pair, pair
    <3> HIDE DEF t
    <3>2. QED
      BY <1>4, <1>5, <2>2, <2>3, <2>4, <2>6, <2>7, <3>1
  <2>10. QED
    BY <2>8, <2>9
<1>14. ASSUME NEW k \in Keys, Get(k)
       PROVE  ContentInv'
  BY <1>3, <1>4, <1>5, <1>14 DEF Get, ramVars, mergeVars
<1>15. CASE UNCHANGED vars
  BY <1>3, <1>4, <1>5, <1>15 DEF vars
<1>16. QED
  BY <1>6, <1>7, <1>8, <1>9, <1>10, <1>11, <1>12, <1>13, <1>14, <1>15 DEF Next

\* It holds at the start.
LEMMA ContentInit ==
  ASSUME Init
  PROVE  ContentInv
<1>1. /\ memory_table = <<>> /\ temp = <<>> /\ out = NoFile /\ puts = <<>>
      /\ table_index = 1 /\ files = [f \in {} |-> <<>>]
  BY DEF Init
<1>2. Len(puts) = 0 /\ \A S : <<>> \in Seq(S)
  BY <1>1, EmptySeq
<1>3. Pairs(out.lines) = <<>> /\ DOMAIN files = {}
  BY <1>1, ReadBack DEF NoFile
<1>4. QED
  BY <1>1, <1>2, <1>3, KvStoreAssumption DEF ContentInv

\* Whatever is put, flushed and merged, and however often the program is started and
\* killed between two file operations, with file numbers that may be used twice: every
\* pair in memory or on disk has the key of the put that its value comes from.
THEOREM NothingInvented == Spec => []NoInvention
<1>1. Init => ContentInv
  BY ContentInit
<1>2. ContentInv /\ [Next]_vars => ContentInv'
  BY ContentStep
<1>3. ContentInv => NoInvention
  <2> SUFFICES ASSUME ContentInv
               PROVE  NoInvention
    OBVIOUS
  <2> DEFINE Wrote(pair) == pair.value <= Len(puts) /\ puts[pair.value] = pair.key
  <2>1. Len(puts) \in Nat
    BY LenProperties DEF ContentInv
  <2>2. ASSUME NEW t \in Seq(Written), NEW i \in DOMAIN t
        PROVE  Wrote(t[i])
    <3>1. t[i] \in Written
      BY LenProperties, ElementOfSeq
    <3>2. QED
      BY <2>1, <3>1 DEF Written
  <2>3. \A f \in DOMAIN files : DOMAIN files[f] = DOMAIN Pairs(files[f])
    BY DEF Pairs
  <2> HIDE DEF Wrote
  <2>4. /\ \A i \in DOMAIN memory_table : Wrote(memory_table[i])
        /\ \A f \in DOMAIN files : \A i \in DOMAIN files[f] : Wrote(Pairs(files[f])[i])
    BY <2>2, <2>3 DEF ContentInv
  <2>5. QED
    BY <2>4 DEF NoInvention, Wrote
<1>4. QED
  BY <1>1, <1>2, <1>3, PTL DEF Spec

----------------------------------------------------------------------------
(* The list of tables.                                                     *)

\* A node of the list.
Node == [index : Nat \ {0}, file : Nat \ {0}]

\* new is list with a node after its first c nodes.
Inserted(list, new, c, node) ==
  /\ new \in Seq(Node) /\ Len(new) = Len(list) + 1
  /\ \A j \in 1..c : new[j] = list[j]
  /\ new[c + 1] = node
  /\ \A j \in (c + 1)..Len(list) : new[j + 1] = list[j]

\* A set of positions that has all positions before each of its own.
LEMMA Prefix ==
  ASSUME NEW n \in Nat, NEW I \in SUBSET (1..n), \A i \in I : \A j \in 1..i : j \in I
  PROVE  Cardinality(I) \in 0..n /\ I = 1..Cardinality(I)
<1>1. CASE I = {}
  <2>1. Cardinality(I) = 0
    BY <1>1, FS_EmptySet
  <2>2. QED
    BY <1>1, <2>1
<1>2. CASE I # {}
  <2> DEFINE m == Max(I)
  <2>1. m \in I /\ \A y \in I : y <= m
    BY <1>2, LastPosition
  <2> HIDE DEF m
  <2>2. m \in 1..n /\ m \in Nat /\ I = 1..m
    <3>1. m \in 1..n /\ m \in Nat
      BY <2>1
    <3>2. \A j \in 1..m : j \in I
      BY <2>1
    <3>3. \A j \in I : j \in 1..m
      BY <2>1, <3>1
    <3>4. QED
      BY <3>1, <3>2, <3>3
  <2>3. Cardinality(1..m) = m
    BY <2>2, Interval
  <2>4. Cardinality(I) = m
    BY <2>2, <2>3
  <2>5. QED
    BY <2>2, <2>4
<1>3. QED
  BY <1>1, <1>2

\* Where insert_node puts a node when one is free.
LEMMA InsertNode ==
  ASSUME NEW list \in Seq(Node), Len(list) # META_LIST_CNT,
         NEW index \in Nat \ {0}, NEW number \in Nat \ {0}
  PROVE  \E c \in 0..Len(list) :
           /\ Inserted(list, insert_node(list, index, number), c,
                       [index |-> index, file |-> number])
           /\ \A j \in 1..c : list[j].index < index
           /\ c < Len(list) => ~(list[c + 1].index < index)
<1> DEFINE n == Len(list)
           I == {i \in DOMAIN list : \A j \in 1..i : list[j].index < index}
           c == Cardinality(I)
           node == [index |-> index, file |-> number]
           new == insert_node(list, index, number)
<1>1. n \in Nat /\ DOMAIN list = 1..n /\ \A i \in 1..n : list[i] \in Node
  BY LenProperties, ElementOfSeq
<1>2. I \in SUBSET (1..n) /\ \A i \in I : \A j \in 1..i : j \in I
  BY <1>1
<1> HIDE DEF I
<1>3. c \in 0..n /\ I = 1..c
  BY <1>1, <1>2, Prefix
<1>4. node \in Node
  BY DEF Node
<1>5. new = InsertAt(list, c + 1, node)
  BY DEF insert_node, I
<1> HIDE DEF c, node, new
<1> DEFINE a == SubSeq(list, 1, (c + 1) - 1)
           b == SubSeq(list, c + 1, n)
<1>6. new = a \o <<node>> \o b
  BY <1>5, Zenon DEF InsertAt
<1>7. a \in Seq(Node) /\ Len(a) = c /\ \A i \in 1..c : a[i] = list[i]
  <2>1. (c + 1) - 1 = c /\ c \in Nat /\ \A i \in 1..c : i \in 1..n
    BY <1>1, <1>3
  <2>2. SubSeq(list, 1, c) \in Seq(Node)
        /\ Len(SubSeq(list, 1, c)) = (IF 1 <= c THEN c - 1 + 1 ELSE 0)
        /\ \A i \in 1..(c - 1 + 1) : SubSeq(list, 1, c)[i] = list[1 + i - 1]
    BY <1>1, <2>1, SubSeqProperties
  <2>3. (IF 1 <= c THEN c - 1 + 1 ELSE 0) = c /\ c - 1 + 1 = c /\ \A i \in 1..c : 1 + i - 1 = i
    BY <2>1
  <2>4. QED
    BY <2>1, <2>2, <2>3
<1>8. b \in Seq(Node) /\ Len(b) = n - c /\ \A i \in 1..(n - c) : b[i] = list[c + i]
  <2>1. c + 1 \in Int /\ n \in Int /\ \A i \in (c + 1)..n : i \in 1..n
    BY <1>1, <1>3
  <2>2. b \in Seq(Node)
        /\ Len(b) = (IF c + 1 <= n THEN n - (c + 1) + 1 ELSE 0)
        /\ \A i \in 1..(n - (c + 1) + 1) : b[i] = list[(c + 1) + i - 1]
    BY <1>1, <2>1, SubSeqProperties
  <2> HIDE DEF b, n
  <2>3. /\ (IF c + 1 <= n THEN n - (c + 1) + 1 ELSE 0) = n - c
        /\ n - (c + 1) + 1 = n - c
    BY <1>1, <1>3
  <2>5. \A i \in 1..(n - c) : (c + 1) + i - 1 = c + i
    BY <1>1, <1>3
  <2>4. QED
    BY <2>2, <2>3, <2>5
<1> HIDE DEF a, b
<1>9. /\ a \o <<node>> \in Seq(Node) /\ Len(a \o <<node>>) = c + 1
      /\ \A i \in 1..c : (a \o <<node>>)[i] = list[i]
      /\ (a \o <<node>>)[c + 1] = node
  BY <1>3, <1>4, <1>7
<1> DEFINE d == a \o <<node>>
<1> HIDE DEF d
<1>10. /\ d \in Seq(Node) /\ Len(d) = c + 1 /\ \A i \in 1..c : d[i] = list[i]
       /\ d[c + 1] = node /\ new = d \o b
  BY <1>6, <1>9 DEF d
<1>11. new \in Seq(Node) /\ Len(new) = n + 1
       /\ \A i \in 1..(n + 1) : new[i] = IF i <= c + 1 THEN d[i] ELSE b[i - (c + 1)]
  <2>1. d \o b \in Seq(Node) /\ Len(d \o b) = Len(d) + Len(b)
        /\ \A i \in 1..(Len(d) + Len(b)) : (d \o b)[i] = IF i <= Len(d) THEN d[i] ELSE b[i - Len(d)]
    BY <1>8, <1>10, ConcatProperties
  <2>2. Len(d) + Len(b) = n + 1
    BY <1>1, <1>3, <1>8, <1>10
  <2>3. QED
    BY <1>10, <2>1, <2>2
<1>12. Inserted(list, new, c, node)
  <2>1. \A j \in 1..c : new[j] = list[j]
    BY <1>1, <1>3, <1>10, <1>11
  <2>2. new[c + 1] = node
    BY <1>1, <1>3, <1>10, <1>11
  <2>3. ASSUME NEW j \in (c + 1)..n
        PROVE  new[j + 1] = list[j]
    <3>1. j + 1 \in 1..(n + 1) /\ ~(j + 1 <= c + 1) /\ (j + 1) - (c + 1) = j - c
          /\ j - c \in 1..(n - c) /\ c + (j - c) = j
      BY <1>1, <1>3
    <3>2. new[j + 1] = b[j - c]
      BY <1>11, <3>1
    <3>3. b[j - c] = list[c + (j - c)]
      BY <1>8, <3>1
    <3>4. QED
      BY <3>1, <3>2, <3>3
  <2>4. QED
    BY <1>11, <2>1, <2>2, <2>3 DEF Inserted
<1>13. \A j \in 1..c : list[j].index < index
  <2> TAKE j \in 1..c
  <2>1. j \in I /\ j \in 1..j
    BY <1>3
  <2>2. QED
    BY <2>1 DEF I
<1>14. ASSUME c < n
       PROVE  ~(list[c + 1].index < index)
  <2>1. c + 1 \notin I /\ c + 1 \in 1..n
    BY <1>1, <1>3, <1>14
  <2>2. PICK j \in 1..(c + 1) : ~(list[j].index < index)
    BY <1>1, <2>1 DEF I
  <2>3. j = c + 1
    BY <1>3, <1>13, <2>2
  <2>4. QED
    BY <2>2, <2>3
<1>15. QED
  BY <1>3, <1>12, <1>13, <1>14 DEF new, node

\* What load_storage has after each of the entries of the directory.
Loading(dir, m, g) ==
  /\ DOMAIN g = 0..m
  /\ g = [i \in 0..m |-> IF i = 0 THEN [counter |-> 1, list |-> <<>>]
                         ELSE load_entry(g[i - 1], dir[i])]

\* It has something after each.
LEMMA LoadsAll ==
  ASSUME NEW dir
  PROVE  \A m \in Nat : \E g : Loading(dir, m, g)
<1> DEFINE S == {m \in Nat : \E g : Loading(dir, m, g)}
           none == [counter |-> 1, list |-> <<>>]
<1>1. 0 \in S
  <2> DEFINE g == [i \in {0} |-> none]
  <2>1. 0..0 = {0} /\ DOMAIN g = {0}
    OBVIOUS
  <2>2. g = [i \in {0} |-> IF i = 0 THEN none ELSE load_entry(g[i - 1], dir[i])]
    OBVIOUS
  <2> HIDE DEF g
  <2>3. Loading(dir, 0, g)
    BY <2>1, <2>2 DEF Loading
  <2>4. QED
    BY <2>3
<1>2. ASSUME NEW m \in S
      PROVE  m + 1 \in S
  <2>1. PICK g : Loading(dir, m, g)
    OBVIOUS
  <2> DEFINE e == load_entry(g[m], dir[m + 1])
             h == [i \in 0..(m + 1) |-> IF i <= m THEN g[i] ELSE e]
  <2>2. m \in Nat
    OBVIOUS
  <2>3. \A i \in 0..m : g[i] = IF i = 0 THEN none ELSE load_entry(g[i - 1], dir[i])
    BY <2>1 DEF Loading
  <2> HIDE DEF none, e
  <2>4. ASSUME NEW i \in 0..(m + 1)
        PROVE  h[i] = IF i = 0 THEN none ELSE load_entry(h[i - 1], dir[i])
    <3>1. CASE i = 0
      <4>1. i <= m /\ i \in 0..m
        BY <2>2, <3>1
      <4>2. QED
        BY <2>3, <3>1, <4>1
    <3>2. CASE i # 0 /\ i <= m
      <4>1. i \in 0..m /\ i - 1 \in 0..(m + 1) /\ i - 1 <= m
        BY <2>2, <3>2
      <4>2. h[i] = g[i] /\ h[i - 1] = g[i - 1]
        BY <3>2, <4>1
      <4> HIDE DEF h
      <4>3. QED
        BY <2>3, <3>2, <4>1, <4>2
    <3>3. CASE ~(i <= m)
      <4>1. i = m + 1 /\ i - 1 = m /\ m \in 0..(m + 1) /\ m <= m /\ i # 0
        BY <2>2, <3>3
      <4>2. h[i] = e /\ h[m] = g[m]
        BY <3>3, <4>1
      <4> HIDE DEF h
      <4>3. QED
        BY <4>1, <4>2 DEF e
    <3>4. QED
      BY <3>1, <3>2, <3>3
  <2>5. DOMAIN h = 0..(m + 1) /\ h = [i \in 0..(m + 1) |-> h[i]]
    OBVIOUS
  <2> HIDE DEF h
  <2>6. h = [i \in 0..(m + 1) |-> IF i = 0 THEN none ELSE load_entry(h[i - 1], dir[i])]
    BY <2>4, <2>5
  <2>7. Loading(dir, m + 1, h)
    BY <2>5, <2>6 DEF Loading, none
  <2>8. m + 1 \in Nat
    BY <2>2
  <2>9. QED
    BY <2>7, <2>8
<1>3. S \in SUBSET Nat
  OBVIOUS
<1> HIDE DEF S
<1>4. S = Nat
  BY <1>1, <1>2, <1>3, AllNumbers
<1>5. QED
  BY <1>4 DEF S

\* load_storage returns what it has after the last one.
LEMMA LoadStorage ==
  ASSUME NEW dir, Len(dir) \in Nat
  PROVE  \E g : Loading(dir, Len(dir), g) /\ load_storage(dir) = g[Len(dir)]
<1> DEFINE n == Len(dir)
           loaded[i \in 0..n] == IF i = 0 THEN [counter |-> 1, list |-> <<>>]
                                 ELSE load_entry(loaded[i - 1], dir[i])
<1>1. \E g : g = [i \in 0..n |-> IF i = 0 THEN [counter |-> 1, list |-> <<>>]
                                 ELSE load_entry(g[i - 1], dir[i])]
  BY LoadsAll DEF Loading
<1>2. loaded = [i \in 0..n |-> IF i = 0 THEN [counter |-> 1, list |-> <<>>]
                               ELSE load_entry(loaded[i - 1], dir[i])]
  BY <1>1, Zenon
<1>3. load_storage(dir) = loaded[n]
  BY Zenon DEF load_storage
<1> HIDE DEF loaded
<1>4. DOMAIN loaded = 0..n
  BY <1>2
<1>5. QED
  BY <1>2, <1>3, <1>4 DEF Loading

\* The files named by a list.
Named(list) == {list[i].file : i \in 1..Len(list)}

\* A list of the files F in the order of their numbers.
InNumberOrder(list, F) ==
  /\ list \in Seq(Node)
  /\ \A i \in 1..Len(list) : list[i].index = list[i].file
  /\ \A i, j \in 1..Len(list) : i < j => list[i].file < list[j].file
  /\ Named(list) = F

\* insert_node names one file more and all it named before.
LEMMA InsertNames ==
  ASSUME NEW list \in Seq(Node), Len(list) # META_LIST_CNT,
         NEW index \in Nat \ {0}, NEW number \in Nat \ {0}
  PROVE  /\ insert_node(list, index, number) \in Seq(Node)
         /\ Len(insert_node(list, index, number)) = Len(list) + 1
         /\ Named(insert_node(list, index, number)) = Named(list) \cup {number}
<1> DEFINE n == Len(list)
           node == [index |-> index, file |-> number]
           new == insert_node(list, index, number)
<1>1. PICK c \in 0..n : Inserted(list, new, c, node)
  BY InsertNode
<1>2. n \in Nat /\ c \in Nat /\ c <= n
  BY LenProperties
<1> HIDE DEF new
<1>3. /\ new \in Seq(Node) /\ Len(new) = n + 1 /\ new[c + 1] = node
      /\ \A j \in 1..c : new[j] = list[j]
      /\ \A j \in (c + 1)..n : new[j + 1] = list[j]
  BY <1>1 DEF Inserted
<1>4. ASSUME NEW x \in Named(list) \cup {number}
      PROVE  \E i \in 1..(n + 1) : new[i].file = x
  <2>1. CASE x = number
    <3>1. c + 1 \in 1..(n + 1) /\ new[c + 1].file = x
      BY <1>2, <1>3, <2>1
    <3>2. QED
      BY <3>1
  <2>2. ASSUME NEW i \in 1..n, list[i].file = x
        PROVE  \E j \in 1..(n + 1) : new[j].file = x
    <3>1. CASE i <= c
      <4>1. i \in 1..c /\ i \in 1..(n + 1)
        BY <1>2, <3>1
      <4>2. QED
        BY <1>3, <2>2, <4>1
    <3>2. CASE ~(i <= c)
      <4>1. i \in (c + 1)..n /\ i + 1 \in 1..(n + 1)
        BY <1>2, <3>2
      <4>2. QED
        BY <1>3, <2>2, <4>1
    <3>3. QED
      BY <3>1, <3>2
  <2>3. QED
    BY <2>1, <2>2 DEF Named
<1>5. ASSUME NEW i \in 1..(n + 1)
      PROVE  new[i].file \in Named(list) \cup {number}
  <2>1. CASE i <= c
    <3>1. i \in 1..c /\ i \in 1..n
      BY <1>2, <2>1
    <3>2. QED
      BY <1>3, <3>1 DEF Named
  <2>2. CASE i = c + 1
    BY <1>3, <2>2
  <2>3. CASE i > c + 1
    <3> DEFINE j == i - 1
    <3>1. j \in (c + 1)..n /\ j \in 1..n /\ i = j + 1
      BY <1>2, <2>3
    <3> HIDE DEF j
    <3>2. QED
      BY <1>3, <3>1 DEF Named
  <2>4. QED
    BY <1>2, <2>1, <2>2, <2>3
<1>6. Named(new) = Named(list) \cup {number}
  <2>1. Named(new) = {new[i].file : i \in 1..(n + 1)}
    BY <1>3 DEF Named
  <2> DEFINE A == Named(list) \cup {number}
             N == {new[i].file : i \in 1..(n + 1)}
  <2>2. \A x \in A : x \in N
    BY <1>4
  <2>3. \A x \in N : x \in A
    BY <1>5
  <2> HIDE DEF A, N
  <2>4. A = N
    BY <2>2, <2>3
  <2>5. QED
    BY <2>1, <2>4 DEF A, N
<1>7. QED
  BY <1>3, <1>6 DEF new

\* A new number is inserted in its place.
LEMMA InsertNumber ==
  ASSUME NEW list, NEW F, InNumberOrder(list, F), Len(list) # META_LIST_CNT,
         NEW number \in Nat \ {0}, number \notin F
  PROVE  /\ InNumberOrder(insert_node(list, number, number), F \cup {number})
         /\ Len(insert_node(list, number, number)) = Len(list) + 1
<1> DEFINE n == Len(list)
           node == [index |-> number, file |-> number]
           new == insert_node(list, number, number)
<1>1. list \in Seq(Node)
  BY DEF InNumberOrder
<1>2. PICK c \in 0..n : /\ Inserted(list, new, c, node)
                        /\ \A j \in 1..c : list[j].index < number
                        /\ c < n => ~(list[c + 1].index < number)
  BY <1>1, InsertNode
<1>3. new \in Seq(Node) /\ Len(new) = n + 1 /\ Named(new) = F \cup {number}
  BY <1>1, InsertNames DEF InNumberOrder
<1>4. /\ new[c + 1] = node
      /\ \A j \in 1..c : new[j] = list[j]
      /\ \A j \in (c + 1)..n : new[j + 1] = list[j]
  BY <1>2 DEF Inserted
<1> HIDE DEF new
<1>5. n \in Nat /\ c \in Nat /\ c <= n /\ \A i \in 1..n : list[i].file \in Nat
  <2>1. n \in Nat /\ \A i \in 1..n : list[i] \in Node
    BY <1>1, LenProperties, ElementOfSeq
  <2>2. \A x \in Node : x.file \in Nat
    BY DEF Node
  <2>3. QED
    BY <2>1, <2>2
<1>6. /\ \A i \in 1..n : list[i].index = list[i].file /\ list[i].file # number
      /\ \A i, j \in 1..n : i < j => list[i].file < list[j].file
  BY DEF InNumberOrder, Named
<1>7. \A i \in 1..c : list[i].file < number
  <2> TAKE i \in 1..c
  <2>1. i \in 1..n
    BY <1>5
  <2>2. QED
    BY <1>2, <1>6, <2>1
<1>8. ASSUME NEW i \in (c + 1)..n
      PROVE  number < list[i].file
  <2>1. c < n /\ c + 1 \in 1..n /\ i \in 1..n
    BY <1>5
  <2>2. ~(list[c + 1].file < number)
    BY <1>2, <1>6, <2>1
  <2>3. number < list[c + 1].file
    BY <1>5, <1>6, <2>1, <2>2
  <2>4. CASE i = c + 1
    BY <2>3, <2>4
  <2>5. CASE i # c + 1
    <3>1. c + 1 < i
      BY <1>5, <2>5
    <3>2. list[c + 1].file < list[i].file
      BY <1>6, <2>1, <3>1
    <3>3. QED
      BY <1>5, <2>1, <2>3, <3>2
  <2>6. QED
    BY <2>4, <2>5
<1>9. ASSUME NEW i \in 1..(n + 1)
      PROVE  \/ i \in 1..c /\ i \in 1..n /\ new[i] = list[i]
             \/ i = c + 1 /\ new[i] = node
             \/ i > c + 1 /\ i - 1 \in (c + 1)..n /\ i - 1 \in 1..n /\ new[i] = list[i - 1]
  <2>1. CASE i <= c
    <3>1. i \in 1..c /\ i \in 1..n
      BY <1>5, <2>1
    <3>2. QED
      BY <1>4, <3>1
  <2>2. CASE i = c + 1
    BY <1>4, <2>2
  <2>3. CASE i > c + 1
    <3>1. i - 1 \in (c + 1)..n /\ i - 1 \in 1..n /\ (i - 1) + 1 = i
      BY <1>5, <2>3
    <3>2. new[(i - 1) + 1] = list[i - 1]
      BY <1>4, <3>1
    <3>3. QED
      BY <2>3, <3>1, <3>2
  <2>4. QED
    BY <1>5, <2>1, <2>2, <2>3
<1>10. \A i \in 1..(n + 1) : new[i].index = new[i].file
  BY <1>6, <1>9
<1>11. ASSUME NEW i \in 1..(n + 1), NEW j \in 1..(n + 1), i < j
       PROVE  new[i].file < new[j].file
  <2>1. CASE i \in 1..c /\ i \in 1..n /\ new[i] = list[i]
    <3>1. list[i].file < number
      BY <1>7, <2>1
    <3>2. CASE j \in 1..c /\ j \in 1..n /\ new[j] = list[j]
      BY <1>6, <1>11, <2>1, <3>2
    <3>3. CASE j = c + 1 /\ new[j] = node
      BY <2>1, <3>1, <3>3
    <3>4. CASE j > c + 1 /\ j - 1 \in (c + 1)..n /\ j - 1 \in 1..n /\ new[j] = list[j - 1]
      <4>1. i < j - 1
        BY <1>5, <2>1, <3>4
      <4>2. list[i].file < list[j - 1].file
        BY <1>6, <2>1, <3>4, <4>1
      <4>3. QED
        BY <2>1, <3>4, <4>2
    <3>5. QED
      BY <1>9, <3>2, <3>3, <3>4
  <2>2. CASE i = c + 1 /\ new[i] = node
    <3>1. j > c + 1
      BY <1>5, <1>11, <2>2
    <3>2. j - 1 \in (c + 1)..n /\ new[j] = list[j - 1]
      BY <1>5, <1>9, <3>1
    <3>3. number < list[j - 1].file
      BY <1>8, <3>2
    <3>4. QED
      BY <2>2, <3>2, <3>3
  <2>3. CASE i > c + 1 /\ i - 1 \in (c + 1)..n /\ i - 1 \in 1..n /\ new[i] = list[i - 1]
    <3>1. j > c + 1 /\ i - 1 < j - 1
      BY <1>5, <1>11, <2>3
    <3>2. j - 1 \in 1..n /\ new[j] = list[j - 1]
      BY <1>5, <1>9, <3>1
    <3>3. list[i - 1].file < list[j - 1].file
      BY <1>6, <2>3, <3>1, <3>2
    <3>4. QED
      BY <2>3, <3>2, <3>3
  <2>4. QED
    BY <1>9, <2>1, <2>2, <2>3
<1>12. QED
  BY <1>3, <1>10, <1>11 DEF InNumberOrder, new

\* readdir gives every file once.
LEMMA Directory ==
  ASSUME NEW D, IsFiniteSet(D), NEW dir \in SetToSeqs(D)
  PROVE  /\ Len(dir) = Cardinality(D) /\ Len(dir) \in Nat
         /\ dir \in [1..Len(dir) -> D]
         /\ \A i, j \in 1..Len(dir) : i # j => dir[i] # dir[j]
         /\ \A x \in D : \E i \in 1..Len(dir) : dir[i] = x
<1> DEFINE n == Cardinality(D)
<1>1. n \in Nat
  BY FS_CardinalityType
<1>2. dir \in [1..n -> D] /\ \A i, j \in 1..n : i # j => dir[i] # dir[j]
  BY DEF SetToSeqs
<1> HIDE DEF n
<1>3. Len(dir) = n
  BY <1>1, <1>2
<1>4. IsFiniteSet(1..n) /\ Cardinality(1..n) = n
  BY <1>1, Interval
<1>5. dir \in Injection(1..n, D)
  <2>1. IsInjective(dir)
    BY <1>2 DEF IsInjective
  <2>2. QED
    BY <1>2, <2>1 DEF Injection
<1>6. dir \in Surjection(1..n, D)
  BY <1>4, <1>5, FS_Injection DEF n
<1>7. QED
  BY <1>1, <1>2, <1>3, <1>6 DEF Surjection, n

\* load_storage lists the files in the order of their numbers, in whichever order the
\* directory has them.
LEMMA Loaded ==
  ASSUME NEW D, IsFiniteSet(D), D \subseteq Nat \ {0}, Cardinality(D) <= META_LIST_CNT,
         NEW dir \in SetToSeqs(D)
  PROVE  /\ InNumberOrder(load_storage(dir).list, D)
         /\ Len(load_storage(dir).list) = Cardinality(D)
         /\ load_storage(dir).counter \in Nat \ {0}
         /\ D = {} => load_storage(dir).counter = 1
<1> DEFINE n == Len(dir)
           F(i) == {dir[j] : j \in 1..i}
<1>1. /\ n = Cardinality(D) /\ n \in Nat /\ dir \in [1..n -> D]
      /\ \A i, j \in 1..n : i # j => dir[i] # dir[j]
      /\ \A x \in D : \E i \in 1..n : dir[i] = x
  BY Directory
<1>2. PICK g : Loading(dir, n, g) /\ load_storage(dir) = g[n]
  BY <1>1, LoadStorage
<1>3. /\ g[0] = [counter |-> 1, list |-> <<>>]
      /\ \A i \in 1..n : g[i] = load_entry(g[i - 1], dir[i])
  <2>1. g = [i \in 0..n |-> IF i = 0 THEN [counter |-> 1, list |-> <<>>]
                            ELSE load_entry(g[i - 1], dir[i])]
    BY <1>2 DEF Loading
  <2>2. 0 \in 0..n /\ \A i \in 1..n : i \in 0..n /\ i # 0
    BY <1>1
  <2>3. \A i \in 0..n : g[i] = IF i = 0 THEN [counter |-> 1, list |-> <<>>]
                               ELSE load_entry(g[i - 1], dir[i])
    BY <2>1, Zenon
  <2>4. QED
    BY <2>2, <2>3
<1> DEFINE Good(i) == /\ InNumberOrder(g[i].list, F(i)) /\ Len(g[i].list) = i
                      /\ g[i].counter \in Nat \ {0}
           S == {i \in Nat : i <= n => Good(i)}
<1> HIDE DEF n
<1>4. Good(0)
  <2>1. g[0].list = <<>> /\ g[0].counter = 1
    BY <1>3
  <2>2. <<>> \in Seq(Node) /\ Len(<<>>) = 0
    BY EmptySeq
  <2>3. Named(<<>>) = {} /\ F(0) = {}
    BY <2>2 DEF Named
  <2> HIDE DEF F
  <2>4. InNumberOrder(<<>>, F(0))
    <3>1. \A i \in 1..Len(<<>>) : FALSE
      BY <2>2
    <3>2. QED
      BY <2>2, <2>3, <3>1, Zenon DEF InNumberOrder
  <2>5. QED
    BY <2>1, <2>2, <2>4
<1>5. ASSUME NEW i \in Nat, Good(i), i + 1 <= n
      PROVE  Good(i + 1)
  <2> DEFINE x == dir[i + 1]
  <2>1. i + 1 \in 1..n /\ (i + 1) - 1 = i /\ \A j \in 1..i : j \in 1..n /\ j # i + 1
    BY <1>1, <1>5
  <2>2. g[i + 1] = load_entry(g[i], x)
    BY <1>3, <2>1
  <2>3. x \in Nat \ {0} /\ x \notin F(i)
    BY <1>1, <2>1
  <2>4. F(i + 1) = F(i) \cup {x}
    <3>1. \A j \in 1..(i + 1) : j \in 1..i \/ j = i + 1
      BY <1>5
    <3>2. \A j \in 1..i : j \in 1..(i + 1)
      BY <1>5
    <3>3. i + 1 \in 1..(i + 1)
      BY <1>5
    <3>4. QED
      BY <3>1, <3>2, <3>3
  <2>5. Len(g[i].list) # META_LIST_CNT
    BY <1>1, <1>5, KvStoreAssumption
  <2> HIDE DEF x, F
  <2>6. /\ InNumberOrder(insert_node(g[i].list, x, x), F(i) \cup {x})
        /\ Len(insert_node(g[i].list, x, x)) = i + 1
    BY <1>5, <2>3, <2>5, InsertNumber
  <2>7. /\ g[i + 1].list = insert_node(g[i].list, x, x)
        /\ g[i + 1].counter = IF x > g[i].counter THEN x + 1 ELSE g[i].counter
    BY <2>2 DEF load_entry
  <2>8. g[i + 1].counter \in Nat \ {0}
    BY <1>5, <2>3, <2>7
  <2>9. QED
    BY <2>4, <2>6, <2>7, <2>8
<1> HIDE DEF Good
<1>6. S = Nat
  <2>1. 0 \in S
    BY <1>4
  <2>2. ASSUME NEW i \in S
        PROVE  i + 1 \in S
    <3>1. i \in Nat /\ (i <= n => Good(i))
      OBVIOUS
    <3>2. i + 1 <= n => i <= n
      BY <1>1, <3>1
    <3>3. i + 1 \in Nat
      BY <3>1
    <3>4. QED
      BY <1>5, <3>1, <3>2, <3>3
  <2>3. S \in SUBSET Nat
    OBVIOUS
  <2> HIDE DEF S
  <2>4. QED
    BY <2>1, <2>2, <2>3, AllNumbers
<1>7. Good(n)
  <2>1. n \in S /\ n <= n
    BY <1>1, <1>6
  <2>2. QED
    BY <2>1
<1>8. F(n) = D
  <2>1. \A x \in F(n) : x \in D
    BY <1>1
  <2>2. \A x \in D : x \in F(n)
    BY <1>1
  <2> HIDE DEF F
  <2>3. QED
    BY <2>1, <2>2
<1>9. D = {} => n = 0
  BY <1>1, FS_EmptySet
<1> HIDE DEF F
<1>10. QED
  BY <1>1, <1>2, <1>3, <1>7, <1>8, <1>9 DEF Good

----------------------------------------------------------------------------
(* The number of tables and their length.                                  *)

\* What TablesBounded needs of the code: a merge reads two tables (ManualMerge makes
\* sure of two), and one put does not fill the memory table.
Sizes == MERGE_TABLE_SIZE = 2 /\ MEMORY_TABLE_SIZE >= 2

\* A list names at most as many files as it has nodes.
LEMMA NamedBound ==
  ASSUME NEW list \in Seq(Node)
  PROVE  /\ IsFiniteSet(Named(list)) /\ Cardinality(Named(list)) <= Len(list)
         /\ Cardinality(Named(list)) \in Nat
         /\ (\A i, j \in 1..Len(list) : i # j => list[i].file # list[j].file)
              => Cardinality(Named(list)) = Len(list)
<1> DEFINE n == Len(list)
           f == [i \in 1..n |-> list[i].file]
<1>1. n \in Nat
  BY LenProperties
<1>2. IsFiniteSet(1..n) /\ Cardinality(1..n) = n
  BY <1>1, Interval
<1>3. f \in Surjection(1..n, Named(list))
  BY DEF Surjection, Named
<1>4. (\A i, j \in 1..n : i # j => list[i].file # list[j].file) => IsInjective(f)
  BY DEF IsInjective
<1>5. IsInjective(f) => f \in Injection(1..n, Named(list))
  BY <1>3 DEF Injection, Surjection
<1> HIDE DEF f
<1>6. /\ IsFiniteSet(Named(list)) /\ Cardinality(Named(list)) <= n
      /\ Cardinality(Named(list)) = n <=> f \in Injection(1..n, Named(list))
  BY <1>2, <1>3, FS_Surjection
<1>7. QED
  BY <1>4, <1>5, <1>6, FS_CardinalityType

\* No table is longer than the memory table, or than there are keys.
LEMMA Longest ==
  /\ LongestTable \in Nat /\ MEMORY_TABLE_SIZE <= LongestTable
  /\ Cardinality(Keys) <= LongestTable /\ Cardinality(Keys) \in Nat
<1> DEFINE a == Cardinality(Keys)
           b == MEMORY_TABLE_SIZE
<1>1. a \in Nat /\ b \in Nat
  BY KvStoreAssumption, FS_CardinalityType
<1> HIDE DEF a, b
<1>2. \E x \in {a, b} : \A y \in {a, b} : x >= y
  <2>1. CASE a >= b
    BY <1>1, <2>1
  <2>2. CASE b >= a
    BY <1>1, <2>2
  <2>3. QED
    BY <1>1, <2>1, <2>2
<1>3. Max({a, b}) \in {a, b} /\ \A y \in {a, b} : Max({a, b}) >= y
  BY <1>2 DEF Max
<1> DEFINE x == Max({a, b})
<1> HIDE DEF x
<1>4. x \in Nat /\ a <= x /\ b <= x
  BY <1>1, <1>3 DEF x
<1>5. QED
  BY <1>1, <1>4 DEF LongestTable, a, b, x

\* A merged table has a pair for each key at most.
LEMMA MergedLength ==
  ASSUME NEW t \in Seq(Pair)
  PROVE  Merged(t) \in Seq(Pair) /\ Len(Merged(t)) <= LongestTable
<1>1. PICK m, r : MergedBy(t, m, r) /\ Merged(t) = Picked(t, m, r)
  BY MergedPairs
<1>2. /\ m \in Nat /\ r \in [1..m -> 1..Len(t)]
      /\ \A a, b \in 1..m : a < b => t[r[a]].key < t[r[b]].key
  BY <1>1 DEF MergedBy
<1>3. \A i \in 1..Len(t) : t[i] \in Pair /\ t[i].key \in Keys /\ t[i].key \in Nat
  BY PairKeys
<1> DEFINE f == [a \in 1..m |-> t[r[a]].key]
<1>4. f \in [1..m -> Keys]
  BY <1>2, <1>3
<1>5. \A a, b \in 1..m : a # b => t[r[a]].key # t[r[b]].key
  <2> TAKE a, b \in 1..m
  <2>1. a # b => a < b \/ b < a
    BY <1>2
  <2>2. t[r[a]].key \in Nat /\ t[r[b]].key \in Nat
    BY <1>2, <1>3
  <2>3. QED
    BY <1>2, <2>1, <2>2
<1>6. IsInjective(f)
  BY <1>5 DEF IsInjective
<1>7. f \in Injection(1..m, Keys)
  BY <1>4, <1>6 DEF Injection
<1>8. Cardinality(1..m) <= Cardinality(Keys)
  BY <1>7, KvStoreAssumption, FS_Injection
<1>9. Cardinality(1..m) = m
  BY <1>2, Interval
<1>10. \A a \in 1..m : [t[r[a]] EXCEPT !.index = a] \in Pair
  <2> TAKE a \in 1..m
  <2>1. PICK x \in Pair : x = t[r[a]]
    BY <1>2, <1>3
  <2>2. a \in Nat
    BY <1>2
  <2>3. [x EXCEPT !.index = a] \in Pair
    BY <2>2 DEF Pair
  <2>4. QED
    BY <2>1, <2>3
<1>11. Merged(t) \in [1..m -> Pair]
  BY <1>1, <1>10 DEF Picked
<1>12. Merged(t) \in Seq(Pair) /\ Len(Merged(t)) = m
  BY <1>2, <1>11
<1>13. QED
  BY <1>2, <1>8, <1>9, <1>12, Longest

\* The list names every file on disk.
ListInv ==
  /\ meta_index \in Nat \ {0}
  /\ meta_list \in Seq(Node)
  /\ DOMAIN files \subseteq Named(meta_list)

\* How many tables there are in each phase.  Only a start can leave MERGE_TRIGGER
\* tables for the next request, and then the memory table is empty: a put asks for the
\* merge before it can fill it.
Phases == {"down", "crashed", "ready", "flush", "merge", "write", "stuck"}
PhaseInv ==
  /\ phase \in Phases
  /\ popped \in 0..2
  /\ Len(meta_list) <= MERGE_TRIGGER
  /\ phase = "ready" /\ Len(meta_list) = MERGE_TRIGGER => memory_table = <<>>
  /\ phase = "merge" => Len(meta_list) + popped \in 2..MERGE_TRIGGER
  /\ phase = "write" => Len(meta_list) < MERGE_TRIGGER
  /\ phase \in {"ready", "flush", "write"} => popped = 0

\* How many pairs there are in each table.
LengthInv ==
  /\ Len(memory_table) < MEMORY_TABLE_SIZE
  /\ Len(Pairs(out.lines)) <= LongestTable
  /\ \A f \in DOMAIN files : Len(Pairs(files[f])) <= LongestTable
  /\ Len(temp) <= popped * LongestTable

\* The place of the merged table is that of a table.
OrderInv == phase = "merge" /\ popped > 0 => order \in Nat \ {0}

\* The list is in the order of its indexes, a merge that has read a table is older than
\* the rest.  So the head of the list has a file as long as the merge process lives: the
\* second table of a merge may be missing, the first is not.
HeadInv ==
  /\ merger \in {"waits", "merges", "dead"}
  /\ phase \notin {"merge", "write"} => merger # "merges"
  /\ \A i, j \in 1..Len(meta_list) : i < j => meta_list[i].index <= meta_list[j].index
  /\ popped > 0 => \A i \in 1..Len(meta_list) : order <= meta_list[i].index
  /\ phase \in {"ready", "flush", "merge", "write"} /\ merger # "dead" /\ popped = 0
     /\ Len(meta_list) > 0 => meta_list[1].file \in DOMAIN files

BoundsInv == ContentInv /\ ListInv /\ PhaseInv /\ LengthInv /\ OrderInv /\ HeadInv

\* What follows a flush or a put.
LEMMA RestIs ==
  ASSUME NEW list, NEW quit
  PROVE  /\ Len(list) = MERGE_TRIGGER => Rest(list, quit) \in {"merge", "stuck"}
         /\ Len(list) # MERGE_TRIGGER => Rest(list, quit) \in {"down", "ready", "stuck"}
         /\ merger = "dead" => Rest(list, quit) \in {"ready", "stuck"}
         /\ quit => Rest(list, quit) # "ready"
<1> DEFINE full == NeedsMerge(list)
           dead == merger = "dead"
<1>1. full <=> Len(list) = MERGE_TRIGGER
  BY DEF NeedsMerge, storage_cnt
<1>2. Rest(list, quit) = CASE ~full /\ ~quit -> "ready"
                           [] (full \/ quit) /\ dead -> "stuck"
                           [] full /\ ~dead -> "merge"
                           [] ~full /\ quit /\ ~dead -> "down"
  BY DEF Rest
<1> HIDE DEF full, dead
<1>3. CASE ~full /\ ~quit
  BY <1>1, <1>2, <1>3
<1>4. CASE (full \/ quit) /\ dead
  BY <1>1, <1>2, <1>4
<1>5. CASE full /\ ~dead
  BY <1>1, <1>2, <1>5 DEF dead
<1>6. CASE ~full /\ quit /\ ~dead
  BY <1>1, <1>2, <1>6 DEF dead
<1>7. QED
  BY <1>3, <1>4, <1>5, <1>6

\* The numbers that the constants and the lists are.
LEMMA BoundsTypes ==
  ASSUME Sizes, BoundsInv
  PROVE  /\ MERGE_TRIGGER \in Nat /\ META_LIST_CNT \in Nat /\ MERGE_TRIGGER <= META_LIST_CNT
         /\ MERGE_TRIGGER >= 2 /\ MEMORY_TABLE_SIZE \in Nat /\ MEMORY_TABLE_SIZE >= 2
         /\ Len(meta_list) \in Nat /\ Len(meta_list) <= MERGE_TRIGGER
         /\ Len(memory_table) \in Nat /\ Len(temp) \in Nat
         /\ LongestTable \in Nat /\ MEMORY_TABLE_SIZE <= LongestTable
<1>1. Len(meta_list) \in Nat /\ Len(memory_table) \in Nat /\ Len(temp) \in Nat
  BY LenProperties DEF BoundsInv, ContentInv, ListInv
<1>2. Len(meta_list) <= MERGE_TRIGGER
  BY DEF BoundsInv, PhaseInv
<1>3. QED
  BY <1>1, <1>2, KvStoreAssumption, Longest DEF Sizes

\* A node that is put into a list in order leaves it in order; the head is the old one,
\* or the new one when its index is not greater.
LEMMA InsertKeepsOrder ==
  ASSUME NEW list \in Seq(Node), Len(list) # META_LIST_CNT,
         \A i, j \in 1..Len(list) : i < j => list[i].index <= list[j].index,
         NEW index \in Nat \ {0}, NEW number \in Nat \ {0}
  PROVE  LET new == insert_node(list, index, number)
         IN  /\ \A i, j \in 1..Len(new) : i < j => new[i].index <= new[j].index
             /\ new[1].file = number \/ (Len(list) > 0 /\ new[1] = list[1] /\ list[1].index < index)
<1> DEFINE n == Len(list)
           node == [index |-> index, file |-> number]
           new == insert_node(list, index, number)
<1>1. PICK c \in 0..n : /\ Inserted(list, new, c, node)
                        /\ \A j \in 1..c : list[j].index < index
                        /\ c < n => ~(list[c + 1].index < index)
  BY InsertNode
<1>2. n \in Nat /\ c \in Nat /\ c <= n
  BY LenProperties
<1>3. \A i \in 1..n : list[i].index \in Nat
  <2>1. \A i \in 1..n : list[i] \in Node
    BY ElementOfSeq
  <2>2. QED
    BY <2>1 DEF Node
<1>4. \A i, j \in 1..n : i < j => list[i].index <= list[j].index
  OBVIOUS
<1> HIDE DEF new, n
<1>5. /\ Len(new) = n + 1 /\ new[c + 1].index = index /\ new[c + 1].file = number
      /\ \A j \in 1..c : new[j] = list[j]
      /\ \A j \in (c + 1)..n : new[j + 1] = list[j]
  BY <1>1 DEF Inserted, n
<1>6. \A j \in (c + 1)..n : index <= list[j].index
  <2> TAKE j \in (c + 1)..n
  <2>1. c < n /\ c + 1 \in 1..n /\ j \in 1..n
    BY <1>2
  <2>2. index <= list[c + 1].index
    BY <1>1, <1>3, <2>1
  <2>3. list[c + 1].index <= list[j].index
    <3>1. CASE j = c + 1
      BY <1>3, <2>1, <3>1
    <3>2. CASE j # c + 1
      BY <1>2, <1>4, <2>1, <3>2
    <3>3. QED
      BY <3>1, <3>2
  <2>4. QED
    BY <1>3, <2>1, <2>2, <2>3
<1>7. \A i \in 1..(n + 1) : i \in 1..c \/ i = c + 1 \/ (i - 1 \in (c + 1)..n /\ i > c + 1)
  BY <1>2
<1>8. ASSUME NEW i \in 1..(n + 1), NEW j \in 1..(n + 1), i < j
      PROVE  new[i].index <= new[j].index
  <2>1. CASE i \in 1..c
    <3>1. new[i] = list[i] /\ i \in 1..n /\ list[i].index < index
      BY <1>1, <1>2, <1>5, <2>1
    <3>2. CASE j \in 1..c
      <4>1. new[j] = list[j] /\ j \in 1..n
        BY <1>2, <1>5, <3>2
      <4>2. QED
        BY <1>4, <1>8, <3>1, <4>1
    <3>3. CASE j = c + 1
      BY <1>3, <1>5, <3>1, <3>3
    <3>4. CASE j - 1 \in (c + 1)..n
      <4>1. new[j] = list[j - 1] /\ j - 1 \in 1..n
        <5>1. new[(j - 1) + 1] = list[j - 1] /\ (j - 1) + 1 = j
          BY <1>5, <3>4
        <5>2. QED
          BY <1>2, <3>4, <5>1
      <4>2. i < j - 1
        BY <1>2, <2>1, <3>4
      <4>3. QED
        BY <1>4, <3>1, <4>1, <4>2
    <3>5. QED
      BY <1>7, <3>2, <3>3, <3>4
  <2>2. CASE i = c + 1
    <3>1. j - 1 \in (c + 1)..n /\ (j - 1) + 1 = j
      BY <1>2, <1>7, <1>8, <2>2
    <3>2. new[j] = list[j - 1]
      BY <1>5, <3>1
    <3>3. QED
      BY <1>5, <1>6, <2>2, <3>1, <3>2
  <2>3. CASE i - 1 \in (c + 1)..n
    <3>1. j - 1 \in (c + 1)..n /\ (j - 1) + 1 = j /\ (i - 1) + 1 = i /\ i - 1 < j - 1
      BY <1>2, <1>7, <1>8, <2>3
    <3>2. new[j] = list[j - 1] /\ new[i] = list[i - 1]
      BY <1>5, <2>3, <3>1
    <3>3. i - 1 \in 1..n /\ j - 1 \in 1..n
      BY <1>2, <2>3, <3>1
    <3>4. QED
      BY <1>4, <3>1, <3>2, <3>3
  <2>4. QED
    BY <1>7, <2>1, <2>2, <2>3
<1>9. new[1].file = number \/ (n > 0 /\ new[1] = list[1] /\ list[1].index < index)
  <2>1. CASE c = 0
    BY <1>5, <2>1
  <2>2. CASE c # 0
    <3>1. 1 \in 1..c /\ n > 0
      BY <1>2, <2>2
    <3>2. QED
      BY <1>1, <1>5, <3>1
  <2>3. QED
    BY <2>1, <2>2
<1>10. QED
  BY <1>5, <1>8, <1>9 DEF new, n

\* A flush keeps HeadInv.
LEMMA FlushHead ==
  ASSUME Sizes, BoundsInv, phase = "ready", Len(meta_list) < MERGE_TRIGGER,
         NEW t, Flush(t), UNCHANGED popped
  PROVE  HeadInv'
<1>1. /\ MERGE_TRIGGER \in Nat /\ META_LIST_CNT \in Nat /\ MERGE_TRIGGER <= META_LIST_CNT
      /\ Len(meta_list) \in Nat
  BY BoundsTypes
<1>2. meta_index \in Nat \ {0} /\ meta_list \in Seq(Node) /\ HeadInv
  BY DEF BoundsInv, ListInv
<1>3. /\ files' = OpenFile(files, meta_index) /\ phase' = "flush" /\ merger' = merger
      /\ meta_list' = insert_node(meta_list, meta_index, meta_index)
  BY DEF Flush
<1>4. popped = 0
  BY DEF BoundsInv, PhaseInv
<1>5. /\ \A i, j \in 1..Len(meta_list') : i < j => meta_list'[i].index <= meta_list'[j].index
      /\ \/ meta_list'[1].file = meta_index
         \/ Len(meta_list) > 0 /\ meta_list'[1] = meta_list[1]
  <2>1. Len(meta_list) # META_LIST_CNT
    BY <1>1
  <2>2. QED
    BY <1>2, <1>3, <2>1, InsertKeepsOrder DEF HeadInv
<1>6. merger # "dead" => meta_list'[1].file \in DOMAIN files'
  BY <1>2, <1>3, <1>4, <1>5 DEF HeadInv, OpenFile
<1>7. QED
  BY <1>2, <1>3, <1>4, <1>5, <1>6 DEF HeadInv

\* Every step keeps HeadInv.
LEMMA HeadStep ==
  ASSUME Sizes, BoundsInv, [Next]_vars
  PROVE  HeadInv'
<1>1. /\ MERGE_TRIGGER \in Nat /\ META_LIST_CNT \in Nat /\ MERGE_TRIGGER <= META_LIST_CNT
      /\ Len(meta_list) \in Nat /\ Len(meta_list) <= MERGE_TRIGGER /\ MEMORY_TABLE_SIZE >= 2
      /\ MERGE_TRIGGER >= 2
  BY BoundsTypes
<1>2. meta_index \in Nat \ {0} /\ meta_list \in Seq(Node) /\ HeadInv
  BY DEF BoundsInv, ListInv
<1>3. ASSUME UNCHANGED <<meta_list, popped, order>>, DOMAIN files' = DOMAIN files,
             merger' \in {"waits", "merges", "dead"},
             phase' \notin {"merge", "write"} => merger' # "merges",
             merger = "dead" => merger' = "dead",
             phase' \in {"ready", "flush", "merge", "write"} =>
               phase \in {"ready", "flush", "merge", "write"}
      PROVE  HeadInv'
  BY <1>2, <1>3 DEF HeadInv
<1>4. ASSUME NEW quit, phase \in {"ready", "flush"}, GoOn(meta_list, quit),
             UNCHANGED <<meta_list, popped, order>>, DOMAIN files' = DOMAIN files
      PROVE  HeadInv'
  <2>1. /\ merger = "dead" => Rest(meta_list, quit) \in {"ready", "stuck"}
        /\ Rest(meta_list, quit) \in {"merge", "down", "ready", "stuck"}
    BY RestIs
  <2>2. phase' = Rest(meta_list, quit)
        /\ merger' = IF phase' = "merge" THEN "merges" ELSE merger
    BY <1>4 DEF GoOn
  <2>3. merger \in {"waits", "merges", "dead"} /\ merger # "merges"
    BY <1>2, <1>4 DEF HeadInv
  <2>4. QED
    BY <1>3, <1>4, <2>1, <2>2, <2>3
<1>5. CASE Start
  <2>1. /\ phase' = "ready" /\ merger' = "waits" /\ popped' = 0 /\ files' = files
        /\ InNumberOrder(meta_list', DOMAIN files)
    <3>1. PICK dir \in SetToSeqs(DOMAIN files) : meta_list' = load_storage(dir).list
      BY <1>5 DEF Start
    <3>2. IsFiniteSet(DOMAIN files) /\ Cardinality(DOMAIN files) <= META_LIST_CNT
      <4>1. IsFiniteSet(Named(meta_list)) /\ Cardinality(Named(meta_list)) <= Len(meta_list)
            /\ Cardinality(Named(meta_list)) \in Nat
        BY <1>2, NamedBound
      <4>2. IsFiniteSet(DOMAIN files)
            /\ Cardinality(DOMAIN files) <= Cardinality(Named(meta_list))
        BY <4>1, FS_Subset DEF BoundsInv, ListInv
      <4>3. Cardinality(DOMAIN files) \in Nat
        BY <4>2, FS_CardinalityType
      <4>4. QED
        BY <1>1, <4>1, <4>2, <4>3
    <3>3. DOMAIN files \subseteq Nat \ {0}
      <4>1. \A i \in 1..Len(meta_list) : meta_list[i] \in Node
        BY <1>2, ElementOfSeq
      <4>2. \A i \in 1..Len(meta_list) : meta_list[i].file \in Nat \ {0}
        BY <4>1 DEF Node
      <4>3. QED
        BY <4>2 DEF BoundsInv, ListInv, Named
    <3>4. InNumberOrder(meta_list', DOMAIN files)
      BY <3>1, <3>2, <3>3, Loaded
    <3>5. QED
      BY <1>5, <3>4 DEF Start
  <2>2. /\ meta_list' \in Seq(Node)
        /\ \A i \in 1..Len(meta_list') : meta_list'[i].index = meta_list'[i].file
        /\ \A i, j \in 1..Len(meta_list') : i < j => meta_list'[i].file < meta_list'[j].file
        /\ Named(meta_list') = DOMAIN files
    BY <2>1 DEF InNumberOrder
  <2>3. \A i \in 1..Len(meta_list') : meta_list'[i].file \in Nat
    <3>1. \A i \in 1..Len(meta_list') : meta_list'[i] \in Node
      BY <2>2, ElementOfSeq
    <3>2. QED
      BY <3>1 DEF Node
  <2>4. \A i, j \in 1..Len(meta_list') : i < j => meta_list'[i].index <= meta_list'[j].index
    BY <2>2, <2>3
  <2>5. Len(meta_list') > 0 => meta_list'[1].file \in DOMAIN files'
    <3>1. Len(meta_list') \in Nat
      BY <2>2, LenProperties
    <3>2. Len(meta_list') > 0 => 1 \in 1..Len(meta_list')
      BY <3>1
    <3>3. QED
      BY <2>1, <2>2, <3>2 DEF Named
  <2>6. QED
    BY <2>1, <2>4, <2>5 DEF HeadInv
<1>6. CASE Back
  <2>1. phase = "ready" /\ UNCHANGED <<popped, order>>
    BY <1>6 DEF Back, mergeVars
  <2>2. CASE memory_table # <<>>
    <3>1. Flush(memory_table) /\ Len(meta_list) < MERGE_TRIGGER
      BY <1>1, <1>6, <2>1, <2>2 DEF Back, BoundsInv, PhaseInv
    <3>2. QED
      BY <2>1, <3>1, FlushHead
  <2>3. CASE memory_table = <<>>
    <3>1. GoOn(meta_list, TRUE) /\ UNCHANGED <<meta_list, files>>
      BY <1>6, <2>3 DEF Back
    <3>2. /\ merger = "dead" => phase' \in {"ready", "stuck"}
          /\ phase' \in {"merge", "down", "ready", "stuck"}
          /\ merger' = IF phase' = "merge" THEN "merges" ELSE merger
      BY <3>1, RestIs DEF GoOn
    <3>3. merger \in {"waits", "merges", "dead"} /\ merger # "merges"
      BY <1>2, <2>1 DEF HeadInv
    <3>4. QED
      BY <1>3, <2>1, <3>1, <3>2, <3>3
  <2>4. QED
    BY <2>2, <2>3
<1>7. CASE CloseFlush
  <2>1. /\ phase = "flush" /\ DOMAIN files' = DOMAIN files /\ GoOn(meta_list, closing)
        /\ UNCHANGED <<meta_list, popped, order>>
    BY <1>7 DEF CloseFlush, ramVars, mergeVars
  <2>2. QED
    BY <1>4, <2>1
<1>8. CASE ManualMerge
  <2>1. /\ phase = "ready" /\ phase' = "merge"
        /\ UNCHANGED <<meta_list, popped, order, files, merger>>
    BY <1>8 DEF ManualMerge, ramVars, mergeVars
  <2>2. QED
    BY <1>2, <1>3, <2>1 DEF HeadInv
<1>9. CASE MergeRead
  <2> DEFINE head == Head(meta_list)
  <2>1. phase = "merge" /\ popped \in 0..1 /\ Len(meta_list) + popped \in 2..MERGE_TRIGGER
    BY <1>9 DEF MergeRead, BoundsInv, PhaseInv, Sizes
  <2>2. Len(meta_list) > 0 /\ meta_list # <<>>
    BY <1>1, <2>1, EmptySeq
  <2>3. /\ Tail(meta_list) \in Seq(Node) /\ Len(Tail(meta_list)) = Len(meta_list) - 1
        /\ \A i \in 1..Len(Tail(meta_list)) : Tail(meta_list)[i] = meta_list[i + 1]
        /\ head = meta_list[1]
    BY <1>2, <2>2, HeadTailProperties
  <2>4. CASE head.file \in DOMAIN files
    <3>1. /\ phase' = "merge" /\ merger' = merger /\ popped' = popped + 1
          /\ order' = IF popped = 0 THEN head.index ELSE order
          /\ meta_list' = Tail(meta_list)
      BY <1>9, <2>4 DEF MergeRead
    <3>2. \A i, j \in 1..Len(meta_list') : i < j => meta_list'[i].index <= meta_list'[j].index
      <4> TAKE i, j \in 1..Len(meta_list')
      <4>1. i + 1 \in 1..Len(meta_list) /\ j + 1 \in 1..Len(meta_list)
            /\ (i < j => i + 1 < j + 1)
        BY <1>1, <2>3, <3>1
      <4>2. QED
        BY <1>2, <2>3, <3>1, <4>1 DEF HeadInv
    <3>3. \A i \in 1..Len(meta_list') : order' <= meta_list'[i].index
      <4> TAKE i \in 1..Len(meta_list')
      <4>1. i + 1 \in 1..Len(meta_list) /\ 1 \in 1..Len(meta_list) /\ 1 < i + 1
            /\ meta_list'[i] = meta_list[i + 1]
        BY <1>1, <2>2, <2>3, <3>1
      <4>2. CASE popped = 0
        BY <1>2, <2>3, <3>1, <4>1, <4>2 DEF HeadInv
      <4>3. CASE popped # 0
        BY <1>2, <2>1, <3>1, <4>1, <4>3 DEF HeadInv
      <4>4. QED
        BY <4>2, <4>3
    <3>4. popped' # 0
      BY <2>1, <3>1
    <3>5. QED
      BY <1>2, <3>1, <3>2, <3>3, <3>4 DEF HeadInv
  <2>5. CASE head.file \notin DOMAIN files
    <3>1. /\ UNCHANGED <<meta_list, files>>
          /\ \/ merger' = "dead" /\ phase' \in {"stuck", "ready"} /\ popped' = 0
             \/ merger # "merges" /\ phase' = "crashed" /\ UNCHANGED <<merger, popped, order>>
      BY <1>9, <2>5 DEF MergeRead, MergerDies, mergeVars
    <3>2. QED
      BY <1>2, <3>1 DEF HeadInv
  <2>6. QED
    BY <2>4, <2>5
<1>10. CASE MergeWrite
  <2>1. /\ phase = "merge" /\ popped = 2 /\ files' = OpenFile(files, meta_index)
        /\ meta_list' = insert_node(meta_list, order, meta_index)
        /\ popped' = 0 /\ phase' = "write" /\ merger' = merger
    BY <1>10 DEF MergeWrite, MergeOrder, Sizes
  <2>2. Len(meta_list) # META_LIST_CNT
    <3>1. Len(meta_list) + 2 <= MERGE_TRIGGER
      BY <1>1, <2>1 DEF BoundsInv, PhaseInv
    <3>2. QED
      BY <1>1, <3>1
  <2>3. order \in Nat \ {0}
    BY <2>1 DEF BoundsInv, OrderInv
  <2>4. /\ \A i, j \in 1..Len(meta_list') : i < j => meta_list'[i].index <= meta_list'[j].index
        /\ \/ meta_list'[1].file = meta_index
           \/ Len(meta_list) > 0 /\ meta_list[1].index < order
    BY <1>2, <2>1, <2>2, <2>3, InsertKeepsOrder DEF HeadInv
  <2>5. meta_list'[1].file = meta_index
    <3>1. SUFFICES ASSUME Len(meta_list) > 0, meta_list[1].index < order
                   PROVE  FALSE
      BY <2>4
    <3>2. 1 \in 1..Len(meta_list)
      BY <1>1, <3>1
    <3>3. order <= meta_list[1].index
      BY <1>2, <2>1, <3>2 DEF HeadInv
    <3>4. meta_list[1] \in Node
      BY <1>2, <3>2, ElementOfSeq
    <3>5. meta_list[1].index \in Nat
      BY <3>4 DEF Node
    <3>6. QED
      BY <2>3, <3>1, <3>3, <3>5
  <2>6. meta_list'[1].file \in DOMAIN files'
    BY <2>1, <2>5 DEF OpenFile
  <2>7. QED
    BY <1>2, <2>1, <2>4, <2>6 DEF HeadInv
<1>11. CASE CloseMerge
  <2>1. /\ phase = "write" /\ DOMAIN files' = DOMAIN files /\ phase' \in {"down", "ready"}
        /\ merger' = IF merger = "merges" THEN "waits" ELSE merger
        /\ UNCHANGED <<meta_list, popped, order>>
    BY <1>11 DEF CloseMerge, ramVars, mergeVars
  <2>2. merger \in {"waits", "merges", "dead"}
    BY <1>2 DEF HeadInv
  <2>3. QED
    BY <1>3, <2>1, <2>2
<1>12. CASE Crash
  BY <1>2, <1>12 DEF Crash, HeadInv
<1>13. ASSUME NEW k \in Keys, put_pair(k)
       PROVE  HeadInv'
  <2> DEFINE pair == [index |-> table_index, key |-> k, value |-> Len(puts) + 1]
             t == Append(memory_table, pair)
  <2>1. phase = "ready" /\ UNCHANGED <<popped, order>>
    BY <1>13 DEF put_pair, mergeVars
  <2>2. CASE Full(t)
    <3>1. Flush(t)
      BY <1>13, <2>2 DEF put_pair
    <3>2. memory_table # <<>>
      BY <2>2 DEF Full, Sizes
    <3>3. Len(meta_list) < MERGE_TRIGGER
      BY <1>1, <2>1, <3>2 DEF BoundsInv, PhaseInv
    <3> HIDE DEF t
    <3>4. QED
      BY <2>1, <3>1, <3>3, FlushHead
  <2>3. CASE ~Full(t)
    <3>1. GoOn(meta_list, closing) /\ UNCHANGED <<meta_list, files>>
      BY <1>13, <2>3 DEF put_pair
    <3>2. QED
      BY <1>4, <2>1, <3>1
  <2>4. QED
    BY <2>2, <2>3
<1>14. ASSUME NEW k \in Keys, Get(k)
       PROVE  HeadInv'
  <2>1. /\ phase = "ready" /\ phase' \in {"ready", "crashed"}
        /\ UNCHANGED <<meta_list, popped, order, files, merger>>
    BY <1>14 DEF Get, ramVars, mergeVars
  <2>2. QED
    BY <1>2, <1>3, <2>1 DEF HeadInv
<1>15. CASE UNCHANGED vars
  BY <1>2, <1>15 DEF vars, HeadInv
<1>16. QED
  BY <1>5, <1>6, <1>7, <1>8, <1>9, <1>10, <1>11, <1>12, <1>13, <1>14, <1>15 DEF Next

\* A step that leaves the list and the files alone, or only removes files.
LEMMA SameList ==
  ASSUME ListInv, UNCHANGED <<meta_index, meta_list>>, DOMAIN files' \subseteq DOMAIN files
  PROVE  ListInv'
  BY DEF ListInv, Named

\* A new table in the list: flush and merge.
LEMMA NewTable ==
  ASSUME ListInv, Len(meta_list) # META_LIST_CNT, NEW index \in Nat \ {0},
         files' = OpenFile(files, meta_index),
         meta_list' = insert_node(meta_list, index, meta_index),
         meta_index' = NextNumber(meta_index)
  PROVE  ListInv' /\ Len(meta_list') = Len(meta_list) + 1
<1>1. meta_index \in Nat \ {0} /\ meta_list \in Seq(Node) /\ DOMAIN files \subseteq Named(meta_list)
  BY DEF ListInv
<1>2. /\ meta_list' \in Seq(Node) /\ Len(meta_list') = Len(meta_list) + 1
      /\ Named(meta_list') = Named(meta_list) \cup {meta_index}
  BY <1>1, InsertNames
<1>3. DOMAIN files' = DOMAIN files \cup {meta_index}
  BY DEF OpenFile
<1>4. meta_index' \in Nat \ {0}
  BY <1>1 DEF NextNumber
<1>5. Named(meta_list') = Named(meta_list)'
  BY DEF Named
<1>6. QED
  BY <1>1, <1>2, <1>3, <1>4, <1>5 DEF ListInv

\* A flush keeps BoundsInv.
LEMMA FlushBounds ==
  ASSUME Sizes, BoundsInv, ContentInv', HeadInv', phase = "ready", Len(meta_list) < MERGE_TRIGGER,
         NEW t \in Seq(Pair), Len(t) <= MEMORY_TABLE_SIZE, Flush(t), UNCHANGED <<temp, popped>>
  PROVE  BoundsInv'
<1>1. /\ files' = OpenFile(files, meta_index) /\ out'.lines = Lines(t)
      /\ meta_list' = insert_node(meta_list, meta_index, meta_index)
      /\ meta_index' = NextNumber(meta_index) /\ memory_table' = <<>> /\ phase' = "flush"
  BY DEF Flush
<1>2. /\ MERGE_TRIGGER \in Nat /\ META_LIST_CNT \in Nat /\ MERGE_TRIGGER <= META_LIST_CNT
      /\ MERGE_TRIGGER >= 2 /\ MEMORY_TABLE_SIZE \in Nat /\ MEMORY_TABLE_SIZE >= 2
      /\ Len(meta_list) \in Nat /\ LongestTable \in Nat /\ MEMORY_TABLE_SIZE <= LongestTable
  BY BoundsTypes
<1>3. Len(meta_list) # META_LIST_CNT
  BY <1>2
<1>4. ListInv' /\ Len(meta_list') = Len(meta_list) + 1
  <2>1. ListInv /\ meta_index \in Nat \ {0}
    BY DEF BoundsInv, ListInv
  <2>2. QED
    BY <1>1, <1>3, <2>1, NewTable
<1>5. PhaseInv'
  <2>1. popped' = 0
    BY DEF BoundsInv, PhaseInv
  <2>2. Len(meta_list') <= MERGE_TRIGGER
    BY <1>2, <1>4
  <2>3. QED
    BY <1>1, <2>1, <2>2 DEF PhaseInv, Phases
<1>6. LengthInv'
  <2>1. Len(memory_table') < MEMORY_TABLE_SIZE /\ Len(<<>>) = 0
    BY <1>1, <1>2, EmptySeq
  <2>2. Len(t) \in Nat /\ Pairs(out'.lines) = t
    BY <1>1, ReadBack, LenProperties
  <2>3. Len(Pairs(out'.lines)) <= LongestTable
    BY <1>2, <2>2
  <2>4. Len(Pairs(<<>>)) <= LongestTable
    BY <1>2, <2>1, ReadBack
  <2>5. \A f \in DOMAIN files' : Len(Pairs(files'[f])) <= LongestTable
    BY <1>1, <2>4 DEF BoundsInv, LengthInv, OpenFile
  <2>6. Len(temp') <= popped' * LongestTable
    BY DEF BoundsInv, LengthInv
  <2>7. LongestTable' = LongestTable
    BY DEF LongestTable
  <2>8. QED
    BY <2>1, <2>3, <2>5, <2>6, <2>7 DEF LengthInv
<1>7. QED
  BY <1>1, <1>4, <1>5, <1>6 DEF BoundsInv, OrderInv

\* merge takes the table at the head of the list.
LEMMA ReadBounds ==
  ASSUME Sizes, BoundsInv, ContentInv', HeadInv', MergeRead
  PROVE  BoundsInv'
<1> DEFINE head == Head(meta_list)
<1>1. /\ MERGE_TRIGGER \in Nat /\ Len(meta_list) \in Nat /\ Len(temp) \in Nat
      /\ LongestTable \in Nat /\ LongestTable' = LongestTable
  BY BoundsTypes DEF LongestTable
<1>2. /\ meta_list \in Seq(Node) /\ DOMAIN files \subseteq Named(meta_list)
      /\ Len(meta_list) + popped \in 2..MERGE_TRIGGER /\ popped \in 0..2 /\ popped < 2
  BY DEF BoundsInv, ListInv, PhaseInv, MergeRead, Sizes
<1>3. UNCHANGED <<memory_table, meta_index, out>>
  BY DEF MergeRead
<1>4. CASE head.file \in DOMAIN files
  <2>1. /\ temp' = temp \o Pairs(files[head.file]) /\ popped' = popped + 1
        /\ meta_list' = Tail(meta_list) /\ files' = RemoveFile(files, head.file)
        /\ phase' = "merge"
    BY <1>4 DEF MergeRead
  <2>2. meta_list # <<>>
    <3>1. Len(meta_list) # 0
      BY <1>1, <1>2
    <3>2. QED
      BY <1>2, <3>1, EmptySeq
  <2>3. /\ meta_list' \in Seq(Node) /\ Len(meta_list') = Len(meta_list) - 1
        /\ \A i \in 1..Len(meta_list') : meta_list'[i] = meta_list[i + 1]
        /\ head = meta_list[1]
    BY <1>2, <2>1, <2>2, HeadTailProperties
  <2>4. DOMAIN files' \subseteq Named(meta_list')
    <3>1. DOMAIN files' = DOMAIN files \ {head.file}
      BY <2>1 DEF RemoveFile
    <3>2. ASSUME NEW f \in DOMAIN files'
          PROVE  f \in Named(meta_list')
      <4>1. PICK i \in 1..Len(meta_list) : meta_list[i].file = f
        BY <1>2, <3>1 DEF Named
      <4>2. i # 1
        BY <2>3, <3>1, <4>1
      <4>3. i - 1 \in 1..Len(meta_list') /\ (i - 1) + 1 = i
        BY <1>1, <2>3, <4>1, <4>2
      <4>4. meta_list'[i - 1] = meta_list[i]
        BY <2>3, <4>3
      <4>5. QED
        BY <4>1, <4>3, <4>4 DEF Named
    <3>3. QED
      BY <3>2
  <2>5. ListInv'
    <3>1. Named(meta_list') = Named(meta_list)'
      BY DEF Named
    <3>2. QED
      BY <1>3, <2>3, <2>4, <3>1 DEF BoundsInv, ListInv
  <2>6. PhaseInv'
    <3>1. popped' \in 0..2 /\ Len(meta_list') <= MERGE_TRIGGER
          /\ Len(meta_list') + popped' \in 2..MERGE_TRIGGER
      BY <1>1, <1>2, <2>1, <2>3
    <3>2. QED
      BY <2>1, <3>1 DEF PhaseInv, Phases
  <2>7. Len(temp') <= popped' * LongestTable
    <3>1. temp \in Seq(Written) /\ Pairs(files[head.file]) \in Seq(Written)
      BY <1>4 DEF BoundsInv, ContentInv
    <3>2. Len(temp') = Len(temp) + Len(Pairs(files[head.file]))
          /\ Len(Pairs(files[head.file])) \in Nat
      BY <2>1, <3>1, ConcatProperties, LenProperties
    <3>3. Len(temp) <= popped * LongestTable /\ Len(Pairs(files[head.file])) <= LongestTable
      BY <1>4 DEF BoundsInv, LengthInv
    <3>4. popped * LongestTable \in Nat
          /\ (popped + 1) * LongestTable = popped * LongestTable + LongestTable
      <4>1. popped = 0 \/ popped = 1
        BY <1>2
      <4>2. QED
        BY <1>1, <4>1
    <3>5. QED
      BY <1>1, <2>1, <3>2, <3>3, <3>4
  <2>8. LengthInv'
    <3>1. \A f \in DOMAIN files' : Len(Pairs(files'[f])) <= LongestTable
      BY <2>1 DEF BoundsInv, LengthInv, RemoveFile
    <3>2. QED
      BY <1>1, <1>3, <2>7, <3>1 DEF BoundsInv, LengthInv
  <2>9. order' \in Nat \ {0}
    <3>1. order' = IF popped = 0 THEN head.index ELSE order
      BY <1>4 DEF MergeRead
    <3>2. head.index \in Nat \ {0}
      <4>1. head \in Node
        BY <1>2, <2>2, HeadTailProperties
      <4>2. QED
        BY <4>1 DEF Node
    <3>3. popped # 0 => popped > 0
      BY <1>2
    <3>4. QED
      BY <3>1, <3>2, <3>3 DEF BoundsInv, OrderInv, MergeRead
  <2>10. QED
    BY <2>5, <2>6, <2>8, <2>9 DEF BoundsInv, OrderInv
<1>5. CASE head.file \notin DOMAIN files
  <2>1. /\ UNCHANGED <<meta_list, files>>
        /\ \/ merger = "merges" /\ phase' \in {"stuck", "ready"} /\ temp' = <<>> /\ popped' = 0
           \/ phase' = "crashed" /\ UNCHANGED <<temp, popped>>
    BY <1>5 DEF MergeRead, MergerDies, mergeVars
  <2>2. ListInv'
    BY <1>3, <2>1, SameList DEF BoundsInv
  <2>3. ASSUME merger = "merges"
        PROVE  Len(meta_list) < MERGE_TRIGGER
    <3>1. Len(meta_list) > 0 /\ popped = 0 => meta_list[1].file \in DOMAIN files
      BY <2>3 DEF BoundsInv, HeadInv, MergeRead
    <3>2. meta_list # <<>> => head = meta_list[1]
      BY <1>2, HeadTailProperties
    <3>3. popped # 0
      <4>1. ASSUME popped = 0
            PROVE  FALSE
        <5>1. Len(meta_list) > 0
          BY <1>1, <1>2, <4>1
        <5>2. meta_list # <<>>
          BY <5>1, EmptySeq
        <5>3. QED
          BY <1>5, <3>1, <3>2, <4>1, <5>1, <5>2
      <4>2. QED
        BY <4>1
    <3>4. QED
      BY <1>1, <1>2, <3>3
  <2>4. PhaseInv'
    <3>1. phase' = "ready" => popped' = 0 /\ Len(meta_list') # MERGE_TRIGGER
      BY <1>1, <2>1, <2>3
    <3>2. popped' \in 0..2 /\ Len(meta_list') <= MERGE_TRIGGER
      BY <1>2, <2>1 DEF BoundsInv, PhaseInv
    <3>3. phase' \in {"stuck", "ready", "crashed"}
      BY <2>1
    <3>4. QED
      BY <3>1, <3>2, <3>3 DEF PhaseInv, Phases
  <2>5. LengthInv'
    <3>1. Len(temp') <= popped' * LongestTable
      <4>1. CASE UNCHANGED <<temp, popped>>
        BY <4>1 DEF BoundsInv, LengthInv
      <4>2. CASE temp' = <<>> /\ popped' = 0
        BY <1>1, <4>2, EmptySeq
      <4>3. QED
        BY <2>1, <4>1, <4>2
    <3>2. QED
      BY <1>1, <1>3, <2>1, <3>1 DEF BoundsInv, LengthInv
  <2>6. QED
    BY <2>1, <2>2, <2>4, <2>5 DEF BoundsInv, OrderInv
<1>6. QED
  BY <1>4, <1>5

\* merge writes the new table.
LEMMA WriteBounds ==
  ASSUME Sizes, BoundsInv, ContentInv', HeadInv', MergeWrite
  PROVE  BoundsInv'
<1>1. /\ MERGE_TRIGGER \in Nat /\ Len(meta_list) \in Nat /\ MERGE_TRIGGER <= META_LIST_CNT
      /\ META_LIST_CNT \in Nat /\ LongestTable \in Nat /\ LongestTable' = LongestTable
  BY BoundsTypes DEF LongestTable
<1>2. /\ phase = "merge" /\ popped = 2 /\ UNCHANGED memory_table
      /\ files' = OpenFile(files, meta_index)
      /\ out'.lines = Lines(Merged(temp))
      /\ meta_list' = insert_node(meta_list, MergeOrder(order, meta_index), meta_index)
      /\ meta_index' = NextNumber(meta_index)
      /\ temp' = <<>> /\ popped' = 0 /\ phase' = "write"
  BY DEF MergeWrite, Sizes
<1>3. Len(meta_list) + 2 <= MERGE_TRIGGER
  BY <1>1, <1>2 DEF BoundsInv, PhaseInv
<1>4. Len(meta_list) # META_LIST_CNT
  BY <1>1, <1>3
<1>5. MergeOrder(order, meta_index) = order /\ order \in Nat \ {0}
  BY <1>2 DEF MergeOrder, BoundsInv, OrderInv
<1>6. ListInv' /\ Len(meta_list') = Len(meta_list) + 1
  BY <1>2, <1>4, <1>5, NewTable DEF BoundsInv
<1>7. PhaseInv'
  <2>1. Len(meta_list') < MERGE_TRIGGER /\ Len(meta_list') <= MERGE_TRIGGER
    BY <1>1, <1>3, <1>6
  <2>2. QED
    BY <1>2, <2>1 DEF PhaseInv, Phases
<1>8. LengthInv'
  <2>1. temp \in Seq(Pair)
    BY SeqMonotonic DEF BoundsInv, ContentInv, Written
  <2>2. Merged(temp) \in Seq(Pair) /\ Len(Merged(temp)) <= LongestTable
    BY <2>1, MergedLength
  <2>3. Len(Pairs(out'.lines)) <= LongestTable
    BY <1>2, <2>2, ReadBack
  <2>4. Len(<<>>) = 0 /\ Len(Pairs(<<>>)) <= LongestTable
    BY <1>1, EmptySeq, ReadBack
  <2>5. \A f \in DOMAIN files' : Len(Pairs(files'[f])) <= LongestTable
    BY <1>2, <2>4 DEF BoundsInv, LengthInv, OpenFile
  <2>6. Len(temp') <= popped' * LongestTable
    BY <1>1, <1>2, <2>4
  <2>7. QED
    BY <1>1, <1>2, <2>3, <2>5, <2>6 DEF BoundsInv, LengthInv
<1>9. QED
  BY <1>2, <1>6, <1>7, <1>8 DEF BoundsInv, OrderInv

\* load_storage finds what is on disk.
LEMMA StartBounds ==
  ASSUME Sizes, BoundsInv, ContentInv', HeadInv', Start
  PROVE  BoundsInv'
<1>1. /\ MERGE_TRIGGER \in Nat /\ Len(meta_list) \in Nat /\ Len(meta_list) <= MERGE_TRIGGER
      /\ MERGE_TRIGGER <= META_LIST_CNT /\ META_LIST_CNT \in Nat
      /\ LongestTable \in Nat /\ LongestTable' = LongestTable /\ MEMORY_TABLE_SIZE >= 2
      /\ MEMORY_TABLE_SIZE \in Nat
  BY BoundsTypes DEF LongestTable
<1> DEFINE D == DOMAIN files
<1>2. meta_list \in Seq(Node) /\ D \subseteq Named(meta_list)
  BY DEF BoundsInv, ListInv
<1>3. D \subseteq Nat \ {0}
  <2>1. \A i \in 1..Len(meta_list) : meta_list[i] \in Node
    BY <1>2, ElementOfSeq
  <2>2. \A x \in Node : x.file \in Nat \ {0}
    BY DEF Node
  <2>3. QED
    BY <1>2, <2>1, <2>2 DEF Named
<1>4. IsFiniteSet(D) /\ Cardinality(D) \in Nat /\ Cardinality(D) <= MERGE_TRIGGER
  <2>1. IsFiniteSet(Named(meta_list)) /\ Cardinality(Named(meta_list)) <= Len(meta_list)
        /\ Cardinality(Named(meta_list)) \in Nat
    BY <1>2, NamedBound
  <2>2. IsFiniteSet(D) /\ Cardinality(D) <= Cardinality(Named(meta_list))
    BY <1>2, <2>1, FS_Subset
  <2>3. Cardinality(D) \in Nat
    BY <2>2, FS_CardinalityType
  <2>4. QED
    BY <1>1, <2>1, <2>2, <2>3
<1>5. PICK dir \in SetToSeqs(D) : /\ meta_index' = load_storage(dir).counter
                                  /\ meta_list' = load_storage(dir).list
  BY DEF Start
<1>6. Cardinality(D) <= META_LIST_CNT
  BY <1>1, <1>4
<1> HIDE DEF D
<1>7. /\ InNumberOrder(meta_list', D) /\ Len(meta_list') = Cardinality(D)
      /\ meta_index' \in Nat \ {0}
  BY <1>3, <1>4, <1>5, <1>6, Loaded
<1>8. /\ memory_table' = <<>> /\ phase' = "ready" /\ temp' = <<>> /\ popped' = 0
      /\ out' = NoFile /\ files' = files
  BY DEF Start
<1>9. ListInv'
  <2>1. meta_list' \in Seq(Node) /\ Named(meta_list') = D
    BY <1>7 DEF InNumberOrder
  <2>2. Named(meta_list') = Named(meta_list)'
    BY DEF Named
  <2>3. QED
    BY <1>7, <1>8, <2>1, <2>2 DEF ListInv, D
<1>10. PhaseInv'
  BY <1>4, <1>7, <1>8 DEF PhaseInv, Phases
<1>11. LengthInv'
  <2>1. Len(<<>>) = 0 /\ Pairs(NoFile.lines) = <<>>
    BY EmptySeq, ReadBack DEF NoFile
  <2>2. Len(temp') <= popped' * LongestTable /\ Len(memory_table') < MEMORY_TABLE_SIZE
        /\ Len(Pairs(out'.lines)) <= LongestTable
    BY <1>1, <1>8, <2>1
  <2>3. QED
    BY <1>1, <1>8, <2>2 DEF BoundsInv, LengthInv
<1>12. QED
  BY <1>8, <1>9, <1>10, <1>11 DEF BoundsInv, OrderInv

\* fclose writes the lines of the buffer into the file.
LEMMA CloseLengths ==
  ASSUME LengthInv, files' = [files EXCEPT ![out.number] = out.lines], out' = NoFile,
         UNCHANGED <<memory_table, temp, popped>>
  PROVE  LengthInv' /\ DOMAIN files' = DOMAIN files
<1>1. LongestTable \in Nat /\ LongestTable' = LongestTable
  BY Longest DEF LongestTable
<1>2. Len(Pairs(NoFile.lines)) = 0
  BY EmptySeq, ReadBack DEF NoFile
<1>3. Len(Pairs(out'.lines)) <= LongestTable
  BY <1>1, <1>2
<1>4. \A f \in DOMAIN files' : Len(Pairs(files'[f])) <= LongestTable
  BY DEF LengthInv
<1>5. QED
  BY <1>1, <1>3, <1>4 DEF LengthInv

\* Every step keeps BoundsInv.
LEMMA BoundsStep ==
  ASSUME Sizes, BoundsInv, [Next]_vars
  PROVE  BoundsInv'
<1>1. ContentInv' /\ HeadInv'
  BY ContentStep, HeadStep DEF BoundsInv
<1>2. /\ MERGE_TRIGGER \in Nat /\ Len(meta_list) \in Nat /\ Len(meta_list) <= MERGE_TRIGGER
      /\ Len(memory_table) \in Nat /\ MERGE_TRIGGER >= 2 /\ MEMORY_TABLE_SIZE \in Nat
      /\ MEMORY_TABLE_SIZE >= 2 /\ LongestTable' = LongestTable /\ LongestTable \in Nat
  BY BoundsTypes DEF LongestTable
<1>3. ListInv /\ PhaseInv /\ LengthInv /\ OrderInv
  BY DEF BoundsInv
<1>4. memory_table \in Seq(Pair)
  BY SeqMonotonic DEF BoundsInv, ContentInv, Written
<1>5. CASE Start
  BY <1>1, <1>5, StartBounds
<1>6. CASE Back
  <2>1. phase = "ready" /\ UNCHANGED <<temp, popped, order>>
    BY <1>6 DEF Back, mergeVars
  <2>2. CASE memory_table # <<>>
    <3>1. Flush(memory_table)
      BY <1>6, <2>2 DEF Back
    <3>2. Len(meta_list) < MERGE_TRIGGER
      BY <1>2, <1>3, <2>1, <2>2 DEF PhaseInv
    <3>3. Len(memory_table) <= MEMORY_TABLE_SIZE
      BY <1>2, <1>3 DEF LengthInv
    <3>4. QED
      BY <1>1, <1>4, <2>1, <3>1, <3>2, <3>3, FlushBounds
  <2>3. CASE memory_table = <<>>
    <3>1. /\ phase' = Rest(meta_list, TRUE)
          /\ UNCHANGED <<memory_table, meta_index, meta_list, files, out>>
      BY <1>6, <2>3 DEF Back, GoOn
    <3>2. /\ Len(meta_list) = MERGE_TRIGGER => phase' \in {"merge", "stuck"}
          /\ Len(meta_list) # MERGE_TRIGGER => phase' \in {"down", "ready", "stuck"}
      BY <3>1, RestIs
    <3>3. ListInv'
      BY <1>3, <3>1, SameList
    <3>4. popped = 0
      BY <1>3, <2>1 DEF PhaseInv
    <3>5. PhaseInv'
      <4>1. popped' = 0 /\ meta_list' = meta_list /\ memory_table' = <<>>
        BY <2>1, <2>3, <3>1, <3>4
      <4>2. phase' \in {"merge", "down", "ready", "stuck"}
            /\ (phase' = "merge" => Len(meta_list) = MERGE_TRIGGER)
        BY <3>2
      <4>3. QED
        BY <1>2, <4>1, <4>2 DEF PhaseInv, Phases
    <3>6. LengthInv'
      BY <1>2, <1>3, <2>1, <3>1 DEF LengthInv
    <3>7. QED
      BY <1>1, <2>1, <3>3, <3>4, <3>5, <3>6 DEF BoundsInv, OrderInv
  <2>4. QED
    BY <2>2, <2>3
<1>7. CASE CloseFlush
  <2>1. /\ phase = "flush" /\ files' = [files EXCEPT ![out.number] = out.lines]
        /\ out' = NoFile /\ phase' = Rest(meta_list, closing)
        /\ UNCHANGED <<memory_table, meta_index, meta_list, temp, popped, order>>
    BY <1>7 DEF CloseFlush, GoOn, ramVars, mergeVars
  <2>2. LengthInv' /\ DOMAIN files' = DOMAIN files
    BY <1>3, <2>1, CloseLengths
  <2>3. ListInv'
    BY <1>3, <2>1, <2>2, SameList
  <2>4. /\ Len(meta_list) = MERGE_TRIGGER => phase' \in {"merge", "stuck"}
        /\ Len(meta_list) # MERGE_TRIGGER => phase' \in {"down", "ready", "stuck"}
    BY <2>1, RestIs
  <2>5. popped = 0
    BY <1>3, <2>1 DEF PhaseInv
  <2>6. PhaseInv'
    BY <1>2, <2>1, <2>4, <2>5 DEF PhaseInv, Phases
  <2>7. QED
    BY <1>1, <2>1, <2>2, <2>3, <2>5, <2>6 DEF BoundsInv, OrderInv
<1>8. CASE ManualMerge
  <2>1. /\ phase = "ready" /\ phase' = "merge" /\ Len(meta_list) >= 2
        /\ UNCHANGED <<memory_table, meta_index, meta_list, temp, popped, order, files, out>>
    BY <1>8 DEF ManualMerge, ramVars, mergeVars, storage_cnt
  <2>2. ListInv'
    BY <1>3, <2>1, SameList
  <2>3. popped = 0
    BY <1>3, <2>1 DEF PhaseInv
  <2>4. PhaseInv'
    BY <1>2, <2>1, <2>3 DEF PhaseInv, Phases
  <2>5. LengthInv'
    BY <1>2, <1>3, <2>1 DEF LengthInv
  <2>6. QED
    BY <1>1, <2>1, <2>2, <2>3, <2>4, <2>5 DEF BoundsInv, OrderInv
<1>9. CASE MergeRead
  BY <1>1, <1>9, ReadBounds
<1>10. CASE MergeWrite
  BY <1>1, <1>10, WriteBounds
<1>11. CASE CloseMerge
  <2>1. /\ phase = "write" /\ files' = [files EXCEPT ![out.number] = out.lines]
        /\ out' = NoFile /\ phase' \in {"down", "ready"}
        /\ UNCHANGED <<memory_table, meta_index, meta_list, temp, popped, order>>
    BY <1>11 DEF CloseMerge, ramVars, mergeVars
  <2>2. LengthInv' /\ DOMAIN files' = DOMAIN files
    BY <1>3, <2>1, CloseLengths
  <2>3. ListInv'
    BY <1>3, <2>1, <2>2, SameList
  <2>4. popped = 0 /\ Len(meta_list) # MERGE_TRIGGER
    BY <1>2, <1>3, <2>1 DEF PhaseInv
  <2>5. PhaseInv'
    BY <1>2, <2>1, <2>4 DEF PhaseInv, Phases
  <2>6. QED
    BY <1>1, <2>1, <2>2, <2>3, <2>5 DEF BoundsInv, OrderInv
<1>12. CASE Crash
  <2>1. /\ phase' = "down" /\ memory_table' = <<>> /\ temp' = <<>> /\ popped' = 0
        /\ out' = NoFile /\ UNCHANGED <<meta_index, meta_list, files>>
    BY <1>12 DEF Crash
  <2>2. ListInv'
    BY <1>3, <2>1, SameList
  <2>3. PhaseInv'
    BY <1>2, <2>1 DEF PhaseInv, Phases
  <2>4. Len(<<>>) = 0 /\ Pairs(NoFile.lines) = <<>>
    BY EmptySeq, ReadBack DEF NoFile
  <2>5. Len(temp') <= popped' * LongestTable /\ Len(memory_table') < MEMORY_TABLE_SIZE
        /\ Len(Pairs(out'.lines)) <= LongestTable
    BY <1>2, <2>1, <2>4
  <2>6. LengthInv'
    BY <1>2, <1>3, <2>1, <2>5 DEF LengthInv
  <2>7. QED
    BY <1>1, <2>1, <2>2, <2>3, <2>6 DEF BoundsInv, OrderInv
<1>13. ASSUME NEW k \in Keys, put_pair(k)
       PROVE  BoundsInv'
  <2> DEFINE pair == [index |-> table_index, key |-> k, value |-> Len(puts) + 1]
             t == Append(memory_table, pair)
  <2>1. phase = "ready" /\ UNCHANGED <<temp, popped, order>>
    BY <1>13 DEF put_pair, mergeVars
  <2>2. pair \in Pair
    <3>1. Len(puts) \in Nat /\ table_index \in Nat
      BY LenProperties DEF BoundsInv, ContentInv
    <3>2. QED
      BY <3>1 DEF Pair
  <2> HIDE DEF pair
  <2>3. t \in Seq(Pair) /\ Len(t) = Len(memory_table) + 1 /\ t # <<>>
    BY <1>4, <2>2, AppendProperties
  <2>4. Len(memory_table) < MEMORY_TABLE_SIZE
    BY <1>3 DEF LengthInv
  <2>5. ASSUME Len(meta_list) = MERGE_TRIGGER
        PROVE  Len(t) = 1
    <3>1. memory_table = <<>>
      BY <1>3, <2>1, <2>5 DEF PhaseInv
    <3>2. QED
      BY <2>3, <3>1, EmptySeq
  <2>6. CASE Full(t)
    <3>1. Flush(t)
      BY <1>13, <2>6 DEF put_pair, pair
    <3>2. Len(t) = MEMORY_TABLE_SIZE
      BY <2>6 DEF Full
    <3>3. Len(meta_list) # MERGE_TRIGGER
      BY <1>2, <2>5, <3>2
    <3> HIDE DEF t
    <3>4. Len(meta_list) < MERGE_TRIGGER /\ Len(t) <= MEMORY_TABLE_SIZE
      BY <1>2, <3>2, <3>3
    <3>5. QED
      BY <1>1, <2>1, <2>3, <3>1, <3>4, FlushBounds
  <2>7. CASE ~Full(t)
    <3>1. /\ memory_table' = t /\ phase' = Rest(meta_list, closing)
          /\ UNCHANGED <<meta_index, meta_list, files, out>>
      BY <1>13, <2>7 DEF put_pair, GoOn, pair
    <3>2. Len(t) < MEMORY_TABLE_SIZE
      BY <1>2, <2>3, <2>4, <2>7 DEF Full
    <3> HIDE DEF t
    <3>3. /\ Len(meta_list) = MERGE_TRIGGER => phase' \in {"merge", "stuck"}
          /\ Len(meta_list) # MERGE_TRIGGER => phase' \in {"down", "ready", "stuck"}
      BY <3>1, RestIs
    <3>4. ListInv'
      BY <1>3, <3>1, SameList
    <3>5. popped = 0
      BY <1>3, <2>1 DEF PhaseInv
    <3>6. PhaseInv'
      BY <1>2, <2>1, <3>1, <3>3, <3>5 DEF PhaseInv, Phases
    <3>7. LengthInv'
      BY <1>2, <1>3, <2>1, <3>1, <3>2 DEF LengthInv
    <3>8. QED
      BY <1>1, <2>1, <3>4, <3>5, <3>6, <3>7 DEF BoundsInv, OrderInv
  <2>8. QED
    BY <2>6, <2>7
<1>14. ASSUME NEW k \in Keys, Get(k)
       PROVE  BoundsInv'
  <2>1. /\ phase' \in {"ready", "crashed"} /\ phase = "ready"
        /\ UNCHANGED <<memory_table, meta_index, meta_list, temp, popped, order, files, out>>
    BY <1>14 DEF Get, ramVars, mergeVars
  <2>2. ListInv'
    BY <1>3, <2>1, SameList
  <2>3. PhaseInv'
    BY <1>3, <2>1 DEF PhaseInv, Phases
  <2>4. LengthInv'
    BY <1>2, <1>3, <2>1 DEF LengthInv
  <2>5. QED
    BY <1>1, <2>1, <2>2, <2>3, <2>4 DEF BoundsInv, OrderInv
<1>15. CASE UNCHANGED vars
  <2>1. UNCHANGED <<phase, memory_table, meta_index, meta_list, temp, popped, order, files, out>>
    BY <1>15 DEF vars
  <2>2. ListInv'
    BY <1>3, <2>1, SameList
  <2>3. PhaseInv' /\ OrderInv'
    BY <1>3, <2>1 DEF PhaseInv, OrderInv
  <2>4. LengthInv'
    BY <1>2, <1>3, <2>1 DEF LengthInv
  <2>5. QED
    BY <1>1, <2>2, <2>3, <2>4 DEF BoundsInv
<1>16. QED
  BY <1>5, <1>6, <1>7, <1>8, <1>9, <1>10, <1>11, <1>12, <1>13, <1>14, <1>15 DEF Next

\* It holds at the start.
LEMMA BoundsInit ==
  ASSUME Sizes, Init
  PROVE  BoundsInv
<1>1. ContentInv
  BY ContentInit
<1>2. /\ phase = "down" /\ memory_table = <<>> /\ temp = <<>> /\ out = NoFile /\ popped = 0
      /\ meta_index = 1 /\ meta_list = <<>> /\ files = [f \in {} |-> <<>>]
  BY DEF Init
<1>3. <<>> \in Seq(Node) /\ Len(<<>>) = 0 /\ Pairs(NoFile.lines) = <<>>
  BY EmptySeq, ReadBack DEF NoFile
<1>4. DOMAIN files = {}
  BY <1>2
<1>5. /\ MERGE_TRIGGER \in Nat /\ MEMORY_TABLE_SIZE \in Nat /\ MEMORY_TABLE_SIZE >= 2
      /\ LongestTable \in Nat
  BY KvStoreAssumption, Longest DEF Sizes
<1>6. ListInv
  BY <1>2, <1>3, <1>4 DEF ListInv
<1>7. PhaseInv
  BY <1>2, <1>3, <1>5 DEF PhaseInv, Phases
<1>8. LengthInv
  <2>1. Len(temp) <= popped * LongestTable
    BY <1>2, <1>3, <1>5
  <2>2. QED
    BY <1>2, <1>3, <1>4, <1>5, <2>1 DEF LengthInv
<1>9. HeadInv
  BY <1>2, <1>3 DEF Init, HeadInv
<1>10. QED
  BY <1>1, <1>2, <1>6, <1>7, <1>8, <1>9 DEF BoundsInv, OrderInv

\* Over any number of starts and kills there are at most MERGE_TRIGGER tables in the
\* list and on disk, so that the test "storage_cnt() == 3" is never jumped over, and
\* merge never reads more pairs than two tables of the longest kind have.
THEOREM TablesStayFew == ASSUME Sizes PROVE Spec => []TablesBounded
<1>1. Init => BoundsInv
  BY BoundsInit
<1>2. BoundsInv /\ [Next]_vars => BoundsInv'
  BY BoundsStep
<1>3. BoundsInv => TablesBounded
  <2> SUFFICES ASSUME BoundsInv
               PROVE  TablesBounded
    OBVIOUS
  <2>1. /\ MERGE_TRIGGER \in Nat /\ Len(meta_list) \in Nat /\ Len(meta_list) <= MERGE_TRIGGER
        /\ LongestTable \in Nat /\ Len(temp) \in Nat
    BY BoundsTypes
  <2>2. Cardinality(DOMAIN files) <= MERGE_TRIGGER
    <3>1. meta_list \in Seq(Node) /\ DOMAIN files \subseteq Named(meta_list)
      BY DEF BoundsInv, ListInv
    <3>2. IsFiniteSet(Named(meta_list)) /\ Cardinality(Named(meta_list)) <= Len(meta_list)
          /\ Cardinality(Named(meta_list)) \in Nat
      BY <3>1, NamedBound
    <3>3. IsFiniteSet(DOMAIN files) /\ Cardinality(DOMAIN files) <= Cardinality(Named(meta_list))
      BY <3>1, <3>2, FS_Subset
    <3>4. Cardinality(DOMAIN files) \in Nat
      BY <3>3, FS_CardinalityType
    <3>5. QED
      BY <2>1, <3>2, <3>3, <3>4
  <2>3. Len(temp) <= MERGE_TABLE_SIZE * LongestTable
    <3>1. Len(temp) <= popped * LongestTable /\ popped \in 0..2 /\ MERGE_TABLE_SIZE = 2
      BY DEF BoundsInv, LengthInv, PhaseInv, Sizes
    <3>2. popped = 0 \/ popped = 1 \/ popped = 2
      BY <3>1
    <3>3. QED
      BY <2>1, <3>1, <3>2
  <2>4. QED
    BY <2>1, <2>2, <2>3 DEF TablesBounded, storage_cnt
<1>4. QED
  BY <1>1, <1>2, <1>3, PTL DEF Spec

----------------------------------------------------------------------------
(* The list of tables as TableList has it.                                 *)

\* insert_node puts a table where TableList does, in front of the first one whose
\* index is not smaller.
LEMMA NodeInItsPlace ==
  ASSUME NEW list \in Seq(Node), Len(list) # META_LIST_CNT,
         NEW index \in Nat, NEW number \in Nat
  PROVE  insert_node(list, index, number)
           = List!InsertTable(list, [index |-> index, file |-> number])
<1> DEFINE n == Len(list)
           I == {i \in DOMAIN list : \A j \in 1..i : list[j].index < index}
           c == Cardinality(I)
           node == [index |-> index, file |-> number]
           S == {i \in 1..n : list[i].index >= node.index} \union {n + 1}
<1>1. n \in Nat /\ DOMAIN list = 1..n /\ \A i \in 1..n : list[i].index \in Nat
  <2>1. n \in Nat /\ DOMAIN list = 1..n /\ \A i \in 1..n : list[i] \in Node
    BY LenProperties, ElementOfSeq
  <2>2. QED
    BY <2>1 DEF Node
<1>2. I \in SUBSET (1..n) /\ \A i \in I : \A j \in 1..i : j \in I
  BY <1>1
<1>3. \A i \in 1..n : i \in I <=> \A j \in 1..i : list[j].index < index
  BY <1>1
<1>4. insert_node(list, index, number) = InsertAt(list, c + 1, node)
  BY DEF insert_node
<1> HIDE DEF I
<1>5. c \in 0..n /\ I = 1..c
  BY <1>1, <1>2, Prefix
<1> HIDE DEF c
<1>6. c + 1 \in S
  <2>1. CASE c = n
    BY <2>1
  <2>2. CASE c # n
    <3>1. c \in Nat /\ c + 1 \in 1..n /\ c + 1 \notin I
      <4>1. c \in Nat /\ c + 1 \in 1..n /\ c + 1 \notin 1..c
        <5>1. n \in Nat /\ c \in 0..n /\ c # n
          BY <1>1, <1>5, <2>2
        <5> HIDE DEF n
        <5>2. QED
          BY <5>1
      <4>2. QED
        BY <1>5, <4>1
    <3>2. PICK j \in 1..(c + 1) : ~(list[j].index < index)
      BY <1>3, <3>1
    <3>3. j \notin 1..c
      BY <1>1, <1>3, <1>5, <3>1, <3>2
    <3>4. j = c + 1
      BY <3>1, <3>2, <3>3
    <3>5. list[c + 1].index >= index
      BY <1>1, <3>1, <3>2, <3>4
    <3>6. QED
      BY <3>1, <3>5
  <2>3. QED
    BY <2>1, <2>2
<1>7. \A y \in S : c + 1 <= y /\ y \in Nat
  <2> TAKE y \in S
  <2>1. CASE y = n + 1
    BY <1>1, <1>5, <2>1
  <2>2. CASE y \in 1..n /\ list[y].index >= index
    <3>1. y \notin 1..c
      <4>1. SUFFICES ASSUME y \in 1..c
                     PROVE  FALSE
        OBVIOUS
      <4>2. y \in I /\ y \in 1..y
        BY <1>5, <2>2, <4>1
      <4>3. list[y].index < index
        BY <1>3, <2>2, <4>2
      <4>4. QED
        BY <1>1, <2>2, <4>3
    <3>2. QED
      BY <1>1, <1>5, <2>2, <3>1
  <2>3. QED
    BY <2>1, <2>2
<1>8. List!Place(list, node) = List!Min(S)
  BY DEF List!Place
<1> HIDE DEF S
<1>9. List!Min(S) = c + 1
  <2>1. \A x \in S : (\A y \in S : x <= y) <=> x = c + 1
    BY <1>6, <1>7
  <2>2. QED
    BY <1>6, <2>1 DEF List!Min
<1> HIDE DEF node
<1>10. List!InsertTable(list, node) = InsertAt(list, c + 1, node)
  BY <1>8, <1>9 DEF List!InsertTable, List!InsertAt, InsertAt
<1>11. QED
  BY <1>4, <1>10 DEF node

\* A new table is put into the list as TableList does it.
LEMMA NewNode ==
  ASSUME Sizes, BoundsInv, Len(meta_list) < META_LIST_CNT, NEW i \in {order, meta_index}, i \in Nat,
         meta_list' = insert_node(meta_list, i, meta_index)
  PROVE  List!Insert([index |-> i, file |-> meta_index])
<1>1. meta_list \in Seq(Node) /\ meta_index \in Nat /\ Len(meta_list) \in Nat
      /\ META_LIST_CNT \in Nat
  BY BoundsTypes DEF BoundsInv, ListInv
<1>2. Len(meta_list) # META_LIST_CNT
  BY <1>1
<1>3. QED
  BY <1>1, <1>2, NodeInItsPlace DEF List!Insert

\* Over any number of starts and kills every table finds a free node and goes to its
\* place, as TableList, which the nodes of store.c implement (MetaList), promises.
THEOREM ListStaysKept == ASSUME Sizes PROVE Spec => ListIsKept
<1> DEFINE Step == \/ Start \/ List!PopLeft
                   \/ \E i \in {order, meta_index} :
                        List!Insert([index |-> i, file |-> meta_index])
<1>1. Init => BoundsInv
  BY BoundsInit
<1>2. BoundsInv /\ [Next]_vars => BoundsInv'
  BY BoundsStep
<1>3. BoundsInv /\ [Next]_vars => [Step]_meta_list
  <2> SUFFICES ASSUME BoundsInv, Next, ~UNCHANGED meta_list
               PROVE  Step
    BY DEF vars
  <2>1. /\ MERGE_TRIGGER \in Nat /\ META_LIST_CNT \in Nat /\ MERGE_TRIGGER <= META_LIST_CNT
        /\ Len(meta_list) \in Nat /\ meta_index \in Nat /\ MERGE_TRIGGER >= 2
    BY BoundsTypes DEF BoundsInv, ListInv
  <2>2. phase = "ready" /\ memory_table # <<>> => Len(meta_list) < MERGE_TRIGGER
    BY <2>1 DEF BoundsInv, PhaseInv
  <2>3. ASSUME NEW t, Flush(t), Len(meta_list) < MERGE_TRIGGER
        PROVE  Step
    <3>1. Len(meta_list) < META_LIST_CNT
      BY <2>1, <2>3
    <3>2. List!Insert([index |-> meta_index, file |-> meta_index])
      BY <2>1, <2>3, <3>1, NewNode DEF Flush
    <3>3. QED
      BY <3>2
  <2>4. CASE Start
    BY <2>4
  <2>5. CASE Back
    BY <2>2, <2>3, <2>5 DEF Back
  <2>6. CASE MergeRead
    <3>1. Len(meta_list) # 0
      BY <2>1, <2>6 DEF MergeRead, BoundsInv, PhaseInv, Sizes
    <3>2. meta_list' = Tail(meta_list)
      BY <2>6 DEF MergeRead
    <3>3. meta_list # <<>>
      BY <3>1, EmptySeq
    <3>4. QED
      BY <3>2, <3>3 DEF List!PopLeft
  <2>7. CASE MergeWrite
    <3>1. meta_list' = insert_node(meta_list, order, meta_index) /\ order \in Nat
      BY <2>7 DEF MergeWrite, MergeOrder, BoundsInv, OrderInv, Sizes
    <3>2. Len(meta_list) < META_LIST_CNT
      BY <2>1, <2>7 DEF MergeWrite, BoundsInv, PhaseInv, Sizes
    <3>3. QED
      BY <3>1, <3>2, NewNode
  <2>8. ASSUME NEW k \in Keys, put_pair(k)
        PROVE  Step
    <3> DEFINE t == Append(memory_table, [index |-> table_index, key |-> k, value |-> Len(puts) + 1])
    <3>1. Full(t) /\ Flush(t) /\ phase = "ready"
      BY <2>8 DEF put_pair
    <3>2. memory_table # <<>>
      BY <3>1 DEF Full, Sizes
    <3>3. QED
      BY <2>2, <2>3, <3>1, <3>2
  <2>9. CASE CloseFlush \/ ManualMerge \/ CloseMerge \/ Crash \/ \E k \in Keys : Get(k)
    BY <2>9 DEF CloseFlush, ManualMerge, CloseMerge, Crash, Get, ramVars
  <2>10. QED
    BY <2>4, <2>5, <2>6, <2>7, <2>8, <2>9 DEF Next
<1>4. QED
  BY <1>1, <1>2, <1>3, PTL DEF Spec, ListIsKept

=============================================================================
