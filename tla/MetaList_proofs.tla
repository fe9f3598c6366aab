--------------------------- MODULE MetaList_proofs ---------------------------
(***************************************************************************)
(* What is proved about the list of tables in shared memory, for any       *)
(* number of nodes and any sets of indexes and names: the links are sound, *)
(* no node is lost, and the list is the sorted sequence of TableList.      *)
(***************************************************************************)
EXTENDS MetaList, TLAPS, FiniteSetTheorems, SequenceTheorems, WellFoundedInduction

N == LIST_CNT
Pointers == 0..N
Node == [index : Nat, filename : Filenames \union {NoName},
         prev : Pointers, next : Pointers]

\* The list has n nodes: p[1] at the head to p[n] at the tail.
After(n, p, k) == IF k = n THEN NULL ELSE p[k + 1]
Before(p, k) == IF k = 1 THEN NULL ELSE p[k - 1]

\* The ends and the links, in both directions, ...
Linked(n, p) ==
  /\ head = IF n = 0 THEN NULL ELSE p[1]
  /\ tail = IF n = 0 THEN NULL ELSE p[n]
  /\ \A k \in 1..n : node[p[k]].next = After(n, p, k) /\ node[p[k]].prev = Before(p, k)

\* ... the nodes in use, each once, ...
Uses(n, p) ==
  /\ \A j, k \in 1..n : p[j] = p[k] => j = k
  /\ \A i \in Slots : node[i].index # 0 <=> \E k \in 1..n : p[k] = i

\* ... and the tables they hold, in the order of their indexes.
Ordered(n, p) ==
  /\ \A k \in 1..n : node[p[k]].index \in Indexes /\ node[p[k]].filename \in Filenames
  /\ \A j, k \in 1..n : j <= k => node[p[j]].index <= node[p[k]].index

Chain(n, p) ==
  /\ n \in 0..N /\ p \in [1..n -> Slots]
  /\ Linked(n, p) /\ Uses(n, p) /\ Ordered(n, p)

TypeInv ==
  /\ node \in [Slots -> Node]
  /\ head \in Pointers /\ tail \in Pointers

\* The nodes in use form one list.
ChainInv == TypeInv /\ \E n \in 0..N : \E p \in [1..n -> Slots] : Chain(n, p)

----------------------------------------------------------------------------
(* The walks.                                                              *)

\* What a walk of n nodes meets at each step.
WalkOf(n, p) == [m \in 0..N |-> IF m < n THEN p[m + 1] ELSE NULL]
BackOf(n, p) == [m \in 0..N |-> IF m < n THEN p[n - m] ELSE NULL]

\* Induction, for a set of numbers.
LEMMA AllNumbers ==
  ASSUME NEW S \in SUBSET Nat, 0 \in S, \A m \in S : m + 1 \in S
  PROVE  S = Nat
<1> DEFINE Rel == OpToRel(<, Nat)
           T == Nat \ S
<1>1. SUFFICES ASSUME T # {}
               PROVE  FALSE
  OBVIOUS
<1>2. IsWellFoundedOn(Rel, Nat) /\ T \subseteq Nat
  BY NatLessThanWellFounded
<1>3. \A x, y \in Nat : <<x, y>> \in Rel <=> x < y
  BY DEF OpToRel
<1> HIDE DEF Rel, T
<1>4. PICK x \in T : \A y \in T : ~(<<y, x>> \in Rel)
  BY <1>1, <1>2, WFMin
<1>5. x \in Nat /\ x # 0 /\ x \notin S
  BY DEF T
<1>6. x - 1 \in Nat /\ x - 1 < x /\ (x - 1) + 1 = x
  BY <1>5
<1>7. x - 1 \notin T
  BY <1>3, <1>4, <1>5, <1>6
<1>8. x - 1 \in S
  BY <1>6, <1>7 DEF T
<1>9. QED
  BY <1>5, <1>6, <1>8


\* A set of numbers that is not empty has a least one.
LEMMA Least ==
  ASSUME NEW S \in SUBSET Nat, S # {}
  PROVE  Min(S) \in S /\ \A y \in S : Min(S) <= y
<1> DEFINE Rel == OpToRel(<, Nat)
<1>1. \E x \in S : \A y \in S : ~(<<y, x>> \in Rel)
  BY NatLessThanWellFounded, WFMin
<1>2. \A x, y \in Nat : <<x, y>> \in Rel <=> x < y
  BY DEF OpToRel
<1> HIDE DEF Rel
<1>3. PICK x \in S : \A y \in S : ~(<<y, x>> \in Rel)
  BY <1>1
<1>4. \A y \in S : x <= y
  <2> TAKE y \in S
  <2>1. x \in Nat /\ y \in Nat /\ ~(y < x)
    BY <1>2, <1>3
  <2>2. QED
    BY <2>1
<1>5. QED
  BY <1>4 DEF Min

\* The loop that follows next from the head meets the nodes of the list in their
\* order, then NULL.
LEMMA ForwardIs ==
  ASSUME TypeInv, NEW n \in 0..N, NEW p \in [1..n -> Slots], Chain(n, p)
  PROVE  Forward = WalkOf(n, p)
<1> DEFINE Step(f, m) == IF m = 0 THEN head
                         ELSE IF f[m - 1] = NULL THEN NULL ELSE node[f[m - 1]].next
           W == WalkOf(n, p)
<1>0. N \in Nat /\ n \in Nat /\ n <= N
  BY MetaListAssumption DEF N
<1>1. \A m \in 0..N : W[m] = IF m < n THEN p[m + 1] ELSE NULL
  BY DEF WalkOf
<1>2. \A m \in 0..N : W[m] = Step(W, m)
  <2> TAKE m \in 0..N
  <2>1. CASE m = 0
    BY <1>0, <1>1, <2>1 DEF Chain, Linked, NULL
  <2>2. CASE m # 0 /\ m - 1 < n
    <3>1. m - 1 \in 0..N /\ m \in 1..n /\ (m - 1) + 1 = m
      BY <1>0, <2>2
    <3>2. W[m - 1] = p[m] /\ p[m] \in Slots
      BY <1>1, <2>2, <3>1
    <3>3. p[m] # NULL
      BY <3>2 DEF Slots, NULL
    <3>4. node[p[m]].next = After(n, p, m)
      BY <3>1 DEF Chain, Linked
    <3>5. After(n, p, m) = IF m < n THEN p[m + 1] ELSE NULL
      BY <1>0, <2>2 DEF After
    <3>6. QED
      BY <1>1, <2>2, <3>2, <3>3, <3>4, <3>5
  <2>3. CASE m # 0 /\ ~(m - 1 < n)
    <3>1. m - 1 \in 0..N /\ ~(m < n)
      BY <1>0, <2>3
    <3>2. W[m - 1] = NULL /\ W[m] = NULL
      BY <1>1, <2>3, <3>1
    <3>3. QED
      BY <2>3, <3>2
  <2>4. QED
    BY <2>1, <2>2, <2>3
<1>3. ASSUME NEW f, f = [m \in 0..N |-> Step(f, m)]
      PROVE  f = W
  <2>0. \A m \in 0..N : f[m] = Step(f, m)
    BY <1>3, Zenon
  <2> DEFINE S == {m \in Nat : m \in 0..N => f[m] = W[m]}
  <2>1. 0 \in S
    <3>1. 0 \in 0..N
      BY <1>0
    <3>2. f[0] = head /\ W[0] = head
      BY <1>2, <2>0, <3>1
    <3>3. QED
      BY <3>2
  <2>2. ASSUME NEW m \in S
        PROVE  m + 1 \in S
    <3>1. SUFFICES ASSUME m + 1 \in 0..N
                   PROVE  f[m + 1] = W[m + 1]
      OBVIOUS
    <3>2. m \in 0..N /\ m + 1 # 0 /\ (m + 1) - 1 = m
      BY <1>0, <3>1
    <3>3. f[m] = W[m]
      BY <3>2
    <3> HIDE DEF W
    <3>4. f[m + 1] = IF f[m] = NULL THEN NULL ELSE node[f[m]].next
      BY <2>0, <3>1, <3>2
    <3>5. W[m + 1] = IF W[m] = NULL THEN NULL ELSE node[W[m]].next
      BY <1>2, <3>1, <3>2
    <3>6. QED
      BY <3>3, <3>4, <3>5
  <2>3. S \in SUBSET Nat
    OBVIOUS
  <2> HIDE DEF S
  <2>4. S = Nat
    BY <2>1, <2>2, <2>3, AllNumbers
  <2>5. \A m \in 0..N : f[m] = W[m]
    BY <1>0, <2>4 DEF S
  <2>6. f = [m \in 0..N |-> f[m]]
    BY <1>3
  <2>7. W = [m \in 0..N |-> W[m]]
    BY DEF WalkOf
  <2>8. QED
    BY <2>5, <2>6, <2>7
<1>4. W = [m \in 0..N |-> Step(W, m)]
  <2>1. W = [m \in 0..N |-> W[m]]
    BY DEF WalkOf
  <2>2. QED
    BY <1>2, <2>1
<1>5. Forward = CHOOSE f : f = [m \in 0..N |-> Step(f, m)]
  BY Zenon DEF Forward, N
<1>6. QED
  BY <1>3, <1>4, <1>5

\* The loop that follows prev from the tail meets them in the opposite order.
LEMMA BackwardIs ==
  ASSUME TypeInv, NEW n \in 0..N, NEW p \in [1..n -> Slots], Chain(n, p)
  PROVE  Backward = BackOf(n, p)
<1> DEFINE Step(f, m) == IF m = 0 THEN tail
                         ELSE IF f[m - 1] = NULL THEN NULL ELSE node[f[m - 1]].prev
           W == BackOf(n, p)
<1>0. N \in Nat /\ n \in Nat /\ n <= N
  BY MetaListAssumption DEF N
<1>1. \A m \in 0..N : W[m] = IF m < n THEN p[n - m] ELSE NULL
  BY DEF BackOf
<1>2. \A m \in 0..N : W[m] = Step(W, m)
  <2> TAKE m \in 0..N
  <2>1. CASE m = 0
    BY <1>0, <1>1, <2>1 DEF Chain, Linked, NULL
  <2>2. CASE m # 0 /\ m - 1 < n
    <3> DEFINE k == n - m + 1
    <3>1. m - 1 \in 0..N /\ k \in 1..n /\ n - (m - 1) = k /\ k - 1 = n - m
      BY <1>0, <2>2
    <3>2. W[m - 1] = p[k] /\ p[k] \in Slots
      BY <1>1, <2>2, <3>1
    <3>3. p[k] # NULL
      BY <3>2 DEF Slots, NULL
    <3>4. node[p[k]].prev = Before(p, k)
      BY <3>1 DEF Chain, Linked
    <3>5. Before(p, k) = IF m < n THEN p[n - m] ELSE NULL
      BY <1>0, <2>2 DEF Before
    <3> HIDE DEF k
    <3>6. QED
      BY <1>1, <2>2, <3>2, <3>3, <3>4, <3>5
  <2>3. CASE m # 0 /\ ~(m - 1 < n)
    <3>1. m - 1 \in 0..N /\ ~(m < n)
      BY <1>0, <2>3
    <3>2. W[m - 1] = NULL /\ W[m] = NULL
      BY <1>1, <2>3, <3>1
    <3>3. QED
      BY <2>3, <3>2
  <2>4. QED
    BY <2>1, <2>2, <2>3
<1>3. ASSUME NEW f, f = [m \in 0..N |-> Step(f, m)]
      PROVE  f = W
  <2>0. \A m \in 0..N : f[m] = Step(f, m)
    BY <1>3, Zenon
  <2> DEFINE S == {m \in Nat : m \in 0..N => f[m] = W[m]}
  <2>1. 0 \in S
    <3>1. 0 \in 0..N
      BY <1>0
    <3>2. f[0] = tail /\ W[0] = tail
      BY <1>2, <2>0, <3>1
    <3>3. QED
      BY <3>2
  <2>2. ASSUME NEW m \in S
        PROVE  m + 1 \in S
    <3>1. SUFFICES ASSUME m + 1 \in 0..N
                   PROVE  f[m + 1] = W[m + 1]
      OBVIOUS
    <3>2. m \in 0..N /\ m + 1 # 0 /\ (m + 1) - 1 = m
      BY <1>0, <3>1
    <3>3. f[m] = W[m]
      BY <3>2
    <3> HIDE DEF W
    <3>4. f[m + 1] = IF f[m] = NULL THEN NULL ELSE node[f[m]].prev
      BY <2>0, <3>1, <3>2
    <3>5. W[m + 1] = IF W[m] = NULL THEN NULL ELSE node[W[m]].prev
      BY <1>2, <3>1, <3>2
    <3>6. QED
      BY <3>3, <3>4, <3>5
  <2>3. S \in SUBSET Nat
    OBVIOUS
  <2> HIDE DEF S
  <2>4. S = Nat
    BY <2>1, <2>2, <2>3, AllNumbers
  <2>5. \A m \in 0..N : f[m] = W[m]
    BY <1>0, <2>4 DEF S
  <2>6. f = [m \in 0..N |-> f[m]]
    BY <1>3
  <2>7. W = [m \in 0..N |-> W[m]]
    BY DEF BackOf
  <2>8. QED
    BY <2>5, <2>6, <2>7
<1>4. W = [m \in 0..N |-> Step(W, m)]
  <2>1. W = [m \in 0..N |-> W[m]]
    BY DEF BackOf
  <2>2. QED
    BY <1>2, <2>1
<1>5. Backward = CHOOSE f : f = [m \in 0..N |-> Step(f, m)]
  BY Zenon DEF Backward, N
<1>6. QED
  BY <1>3, <1>4, <1>5


\* Where the walks are at each step.
LEMMA Walks ==
  ASSUME TypeInv, NEW n \in 0..N, NEW p \in [1..n -> Slots], Chain(n, p)
  PROVE  /\ n \in Nat /\ N \in Nat /\ n <= N
         /\ \A m \in 0..N : Forward[m] = IF m < n THEN p[m + 1] ELSE NULL
         /\ \A m \in 0..N : Backward[m] = IF m < n THEN p[n - m] ELSE NULL
         /\ \A k \in 1..n : p[k] \in Slots /\ p[k] # NULL
         /\ StorageCnt = n
<1>1. n \in Nat /\ N \in Nat /\ n <= N
  BY MetaListAssumption DEF N
<1>2. \A m \in 0..N : Forward[m] = IF m < n THEN p[m + 1] ELSE NULL
  BY ForwardIs DEF WalkOf
<1>3. \A m \in 0..N : Backward[m] = IF m < n THEN p[n - m] ELSE NULL
  BY BackwardIs DEF BackOf
<1>4. \A k \in 1..n : p[k] \in Slots /\ p[k] # NULL
  BY DEF Slots, NULL
<1>5. StorageCnt = n
  <2>1. {m \in 0..N : Forward[m] # NULL} = 0..(n - 1)
    <3>1. ASSUME NEW m \in 0..N
          PROVE  Forward[m] # NULL <=> m < n
      <4>1. m < n => m + 1 \in 1..n
        BY <1>1
      <4>2. QED
        BY <1>2, <1>4, <4>1
    <3>2. \A m \in 0..N : m < n <=> m \in 0..(n - 1)
      BY <1>1
    <3>3. 0..(n - 1) \subseteq 0..N
      BY <1>1
    <3>4. QED
      BY <3>1, <3>2, <3>3
  <2>2. Cardinality(0..(n - 1)) = IF 0 > n - 1 THEN 0 ELSE (n - 1) - 0 + 1
    BY <1>1, FS_Interval
  <2>3. Cardinality(0..(n - 1)) = n
    BY <1>1, <2>2
  <2>4. QED
    BY <2>1, <2>3 DEF StorageCnt, N
<1>6. QED
  BY <1>1, <1>2, <1>3, <1>4, <1>5

\* The walks of a list in order agree and meet every node in use.
LEMMA SoundWalks == ChainInv => LinksSound
<1> SUFFICES ASSUME ChainInv
             PROVE  LinksSound
  OBVIOUS
<1>1. PICK n \in 0..N : \E p \in [1..n -> Slots] : Chain(n, p)
  BY DEF ChainInv
<1>2. PICK p \in [1..n -> Slots] : Chain(n, p)
  BY <1>1
<1>3. /\ n \in Nat /\ N \in Nat /\ n <= N
      /\ \A m \in 0..N : Forward[m] = IF m < n THEN p[m + 1] ELSE NULL
      /\ \A m \in 0..N : Backward[m] = IF m < n THEN p[n - m] ELSE NULL
      /\ \A k \in 1..n : p[k] \in Slots /\ p[k] # NULL
      /\ StorageCnt = n
  BY <1>2, Walks DEF ChainInv
<1>4. Forward[N] = NULL /\ Backward[n] = NULL
  BY <1>3
<1>5. ASSUME NEW i \in 0..(n - 1)
      PROVE  Backward[i] = Forward[n - 1 - i]
  <2>1. i \in 0..N /\ i < n /\ n - 1 - i \in 0..N /\ n - 1 - i < n /\ (n - 1 - i) + 1 = n - i
    BY <1>3
  <2>2. QED
    BY <1>3, <2>1
<1>6. WalksAgree
  BY <1>3, <1>4, <1>5 DEF WalksAgree, N
<1>7. ASSUME NEW i
      PROVE  i \in {j \in Slots : node[j].index # 0}
               <=> i \in {Forward[m] : m \in 0..N} \ {NULL}
  <2>1. ASSUME i \in Slots, node[i].index # 0
        PROVE  i \in {Forward[m] : m \in 0..N} \ {NULL}
    <3>1. PICK k \in 1..n : p[k] = i
      BY <1>2, <2>1 DEF Chain, Uses
    <3>2. k - 1 \in 0..N /\ k - 1 < n /\ (k - 1) + 1 = k
      BY <1>3
    <3>3. Forward[k - 1] = i /\ i # NULL
      BY <1>3, <3>1, <3>2
    <3>4. QED
      BY <3>2, <3>3
  <2>2. ASSUME NEW m \in 0..N, Forward[m] = i, i # NULL
        PROVE  i \in Slots /\ node[i].index # 0
    <3>1. m < n /\ i = p[m + 1]
      BY <1>3, <2>2
    <3>2. m + 1 \in 1..n
      BY <1>3, <3>1
    <3>3. i \in Slots
      BY <1>3, <3>1, <3>2
    <3>4. QED
      BY <1>2, <3>1, <3>2, <3>3 DEF Chain, Uses
  <2>3. QED
    BY <2>1, <2>2
<1>8. NoLeak
  BY <1>7 DEF NoLeak, N
<1>9. QED
  BY <1>6, <1>8 DEF LinksSound

----------------------------------------------------------------------------
(* insert_node.                                                            *)

\* The loop stops behind the first c nodes, those with a smaller index.
Stops(n, p, index, c) ==
  /\ c \in 0..n
  /\ CurrentNode(index) = IF c < n THEN p[c + 1] ELSE NULL
  /\ \A k \in 1..n : k <= c => node[p[k]].index < index
  /\ c < n => node[p[c + 1]].index >= index

\* The loop of insert_node stops before the first node whose index is not smaller.
LEMMA CurrentStops ==
  ASSUME TypeInv, NEW n \in 0..N, NEW p \in [1..n -> Slots], Chain(n, p), NEW index \in Nat
  PROVE  \E c \in 0..n : Stops(n, p, index, c)
<1>1. /\ n \in Nat /\ N \in Nat /\ n <= N
      /\ \A m \in 0..N : Forward[m] = IF m < n THEN p[m + 1] ELSE NULL
      /\ \A k \in 1..n : p[k] \in Slots /\ p[k] # NULL
  BY Walks
<1> DEFINE T == {m \in 0..N : Forward[m] = NULL \/ ~Passes(Forward[m], index)}
           c == Min(T)
<1>2. n \in T
  BY <1>1
<1>3. T \in SUBSET Nat /\ T # {}
  BY <1>1, <1>2
<1>4. c \in T /\ \A m \in T : c <= m
  <2> HIDE DEF T
  <2>1. QED
    BY <1>3, Least
<1>5. c \in 0..n /\ c \in 0..N
  <2> HIDE DEF c
  <2>1. c <= n /\ c \in 0..N
    BY <1>2, <1>4
  <2>2. QED
    BY <1>1, <2>1
<1>6. CurrentNode(index) = Forward[c]
  BY DEF CurrentNode, N
<1>7. Forward[c] = NULL \/ ~Passes(Forward[c], index)
  <2> HIDE DEF c
  <2>1. QED
    BY <1>4
<1> HIDE DEF c
<1>8. ASSUME NEW k \in 1..n, k <= c
      PROVE  node[p[k]].index < index
  <2>1. k - 1 \in 0..N /\ ~(c <= k - 1) /\ k - 1 < n /\ (k - 1) + 1 = k
    BY <1>1, <1>5, <1>8
  <2>2. k - 1 \notin T
    <3> HIDE DEF T
    <3>1. QED
      BY <1>4, <2>1
  <2>3. Passes(Forward[k - 1], index)
    BY <2>1, <2>2
  <2>4. Forward[k - 1] = p[k]
    BY <1>1, <2>1
  <2>5. QED
    BY <2>3, <2>4 DEF Passes
<1>9. ASSUME c < n
      PROVE  node[p[c + 1]].index >= index
  <2>1. Forward[c] = p[c + 1] /\ c + 1 \in 1..n
    BY <1>1, <1>5, <1>9
  <2>2. ~(node[p[c + 1]].index < index)
    BY <1>1, <1>7, <2>1 DEF Passes
  <2>3. node[p[c + 1]].index \in Nat
    <3>1. p[c + 1] \in Slots
      BY <1>1, <2>1
    <3>2. node[p[c + 1]] \in Node
      BY <3>1 DEF TypeInv
    <3>3. QED
      BY <3>2 DEF Node
  <2>4. QED
    BY <2>2, <2>3
<1>10. CurrentNode(index) = IF c < n THEN p[c + 1] ELSE NULL
  BY <1>1, <1>5, <1>6
<1>11. QED
  BY <1>5, <1>8, <1>9, <1>10 DEF Stops

\* The node i, with a table, is linked behind the first c nodes, and the rest of the
\* block is as it was.
Spliced(n, p, c, i, index, filename) ==
  /\ node' \in [Slots -> Node]
  /\ node'[i].index = index /\ node'[i].filename = filename
  /\ node'[i].prev = IF c = 0 THEN NULL ELSE p[c]
  /\ node'[i].next = IF c = n THEN NULL ELSE p[c + 1]
  /\ \A x \in Slots \ {i} :
       /\ node'[x].index = node[x].index /\ node'[x].filename = node[x].filename
       /\ node'[x].prev = IF c < n /\ x = p[c + 1] THEN i ELSE node[x].prev
       /\ node'[x].next = IF c > 0 /\ x = p[c] THEN i ELSE node[x].next
  /\ head' = IF c = 0 THEN i ELSE head
  /\ tail' = IF c = n THEN i ELSE tail

\* What insert_node starts from: a free node that is not in the list.
LEMMA FreeNode ==
  ASSUME TypeInv, NEW n \in 0..N, NEW p \in [1..n -> Slots], Chain(n, p), FreeSlots # {}
  PROVE  /\ Min(FreeSlots) \in Slots
         /\ \A k \in 1..n : p[k] # Min(FreeSlots)
         /\ n < N
<1>1. FreeSlots \subseteq Slots /\ Slots \subseteq Nat
  BY DEF FreeSlots, Slots
<1>2. Min(FreeSlots) \in FreeSlots
  BY <1>1, Least
<1> DEFINE i == Min(FreeSlots)
<1>3. i \in Slots /\ node[i].index = 0
  BY <1>2 DEF FreeSlots
<1> HIDE DEF i
<1>4. \A k \in 1..n : p[k] # i
  BY <1>3 DEF Chain, Uses
<1>5. n < N
  <2>1. n \in Nat /\ N \in Nat /\ n <= N
    BY MetaListAssumption DEF N
  <2> DEFINE q == [k \in 1..(n + 1) |-> IF k = n + 1 THEN i ELSE p[k]]
  <2>2. q \in Injection(1..(n + 1), 1..N)
    <3>1. \A k \in 1..(n + 1) : k # n + 1 => k \in 1..n
      BY <2>1
    <3>2. \A k \in 1..(n + 1) : q[k] \in Slots
      BY <1>3, <3>1
    <3>3. \A j, k \in 1..(n + 1) : q[j] = q[k] => j = k
      BY <1>4, <3>1 DEF Chain, Uses
    <3>4. q \in [1..(n + 1) -> 1..N]
      BY <3>2 DEF Slots, N
    <3> HIDE DEF q
    <3>5. QED
      BY <3>3, <3>4 DEF Injection, IsInjective
  <2>3. IsFiniteSet(1..N) /\ Cardinality(1..N) = N
    <3>1. Cardinality(1..N) = IF 1 > N THEN 0 ELSE N - 1 + 1
      BY <2>1, FS_Interval
    <3>2. QED
      BY <2>1, <3>1, FS_Interval
  <2>4. Cardinality(1..(n + 1)) = n + 1
    <3>1. Cardinality(1..(n + 1)) = IF 1 > n + 1 THEN 0 ELSE (n + 1) - 1 + 1
      BY <2>1, FS_Interval
    <3>2. QED
      BY <2>1, <3>1
  <2>5. Cardinality(1..(n + 1)) <= Cardinality(1..N)
    <3> HIDE DEF q
    <3>1. QED
      BY <2>2, <2>3, FS_Injection
  <2>6. QED
    BY <2>1, <2>3, <2>4, <2>5
<1>6. QED
  BY <1>3, <1>4, <1>5 DEF i

\* Each way insert_node links the node comes to this.
LEMMA InsertSplices ==
  ASSUME TypeInv, NEW n \in 0..N, NEW p \in [1..n -> Slots], Chain(n, p),
         NEW index \in Indexes, NEW filename \in Filenames, insert_node(index, filename),
         NEW c \in 0..n, Stops(n, p, index, c)
  PROVE  Spliced(n, p, c, Min(FreeSlots), index, filename)
<1> DEFINE i == Min(FreeSlots)
           new == [index |-> index, filename |-> filename, prev |-> NULL, next |-> NULL]
           cur == CurrentNode(index)
<1>1. /\ n \in Nat /\ N \in Nat /\ n <= N /\ c \in Nat /\ c <= n
      /\ \A k \in 1..n : p[k] \in Slots /\ p[k] # NULL
  BY Walks
<1>2. i \in Slots /\ (\A k \in 1..n : p[k] # i) /\ i \in Pointers
  <2>1. i \in Slots /\ \A k \in 1..n : p[k] # i
    BY FreeNode DEF insert_node
  <2>2. Slots \subseteq Pointers /\ NULL \in Pointers
    BY <1>1 DEF Slots, Pointers, N, NULL
  <2>3. QED
    BY <2>1, <2>2
<1>3. Slots \subseteq Pointers /\ NULL \in Pointers
  BY <1>1 DEF Slots, Pointers, N, NULL
<1>4. node \in [Slots -> Node] /\ head \in Pointers /\ tail \in Pointers
  BY DEF TypeInv
<1>5. new \in Node
  BY <1>3, MetaListAssumption DEF Node
<1>6. /\ head = IF n = 0 THEN NULL ELSE p[1]
      /\ tail = IF n = 0 THEN NULL ELSE p[n]
      /\ \A k \in 1..n : node[p[k]].next = After(n, p, k) /\ node[p[k]].prev = Before(p, k)
      /\ \A j, k \in 1..n : p[j] = p[k] => j = k
  BY DEF Chain, Linked, Uses
<1>7. cur = IF c < n THEN p[c + 1] ELSE NULL
  BY DEF Stops
<1>8. \/ /\ head = NULL
         /\ node' = [node EXCEPT ![i] = new]
         /\ head' = i
         /\ tail' = i
      \/ head # NULL /\ cur = head /\ LinkFirst(i, new)
      \/ head # NULL /\ cur = NULL /\ LinkLast(i, new)
      \/ head # NULL /\ cur \notin {head, NULL} /\ LinkMiddle(i, new, cur)
  BY DEF insert_node
<1>9. n = 0 <=> head = NULL
  <2>1. n # 0 => 1 \in 1..n
    BY <1>1
  <2>2. QED
    BY <1>1, <1>6, <2>1
<1>10. n # 0 => (c = 0 <=> cur = head)
  <2> SUFFICES ASSUME n # 0
               PROVE  c = 0 <=> cur = head
    OBVIOUS
  <2>1. 1 \in 1..n /\ head = p[1]
    BY <1>1, <1>6
  <2>2. c = 0 => cur = p[1]
    BY <1>1, <1>7
  <2>3. ASSUME cur = head
        PROVE  c = 0
    <3>1. c < n
      BY <1>1, <1>7, <2>1, <2>3
    <3>2. p[c + 1] = p[1] /\ c + 1 \in 1..n
      BY <1>1, <1>7, <2>1, <2>3, <3>1
    <3>3. c + 1 = 1
      BY <1>6, <2>1, <3>2
    <3>4. QED
      BY <1>1, <3>3
  <2>4. QED
    BY <2>1, <2>2, <2>3
<1>11. c = n <=> cur = NULL
  <2>1. c < n => c + 1 \in 1..n
    BY <1>1
  <2>2. QED
    BY <1>1, <1>7, <2>1
<1> HIDE DEF i, cur
<1>12. CASE /\ head = NULL
            /\ node' = [node EXCEPT ![i] = new]
            /\ head' = i
            /\ tail' = i
  <2>1. n = 0 /\ c = 0
    BY <1>1, <1>9, <1>12
  <2>2. node' \in [Slots -> Node]
    BY <1>2, <1>4, <1>5, <1>12
  <2>3. /\ node'[i] = new
        /\ \A x \in Slots \ {i} : node'[x] = node[x]
    BY <1>2, <1>4, <1>12
  <2>4. QED
    BY <1>12, <2>1, <2>2, <2>3 DEF Spliced, i
<1>13. CASE head # NULL /\ cur = head /\ LinkFirst(i, new)
  <2>1. n # 0 /\ c = 0 /\ c # n /\ 1 \in 1..n /\ head = p[1] /\ head # i /\ head \in Slots
    BY <1>1, <1>2, <1>6, <1>9, <1>10, <1>13
  <2>2. /\ node' = [node EXCEPT ![i] = [new EXCEPT !.next = head], ![head].prev = i]
        /\ head' = i /\ tail' = tail
    BY <1>13 DEF LinkFirst
  <2>3. /\ [new EXCEPT !.next = head] \in Node
        /\ [node[head] EXCEPT !.prev = i] \in Node
    BY <1>2, <1>4, <1>5, <2>1 DEF Node
  <2>4. /\ node'[i] = [new EXCEPT !.next = head]
        /\ node'[head] = [node[head] EXCEPT !.prev = i]
        /\ \A x \in Slots \ {i} : x # head => node'[x] = node[x]
    BY <1>2, <1>4, <2>1, <2>2
  <2>5. node' \in [Slots -> Node]
    <3>1. node' = [x \in Slots |-> node'[x]]
      BY <1>4, <2>2
    <3>2. \A x \in Slots : node'[x] \in Node
      BY <1>4, <2>3, <2>4
    <3>3. QED
      BY <3>1, <3>2
  <2>6. /\ node'[i].index = index /\ node'[i].filename = filename
        /\ node'[i].prev = NULL /\ node'[i].next = p[1]
    BY <2>1, <2>4
  <2>7. ASSUME NEW x \in Slots \ {i}
        PROVE  /\ node'[x].index = node[x].index /\ node'[x].filename = node[x].filename
               /\ node'[x].prev = IF x = p[1] THEN i ELSE node[x].prev
               /\ node'[x].next = node[x].next
    <3>1. node[x] \in Node
      BY <1>4
    <3>2. CASE x = head
      BY <2>1, <2>4, <3>1, <3>2 DEF Node
    <3>3. CASE x # head
      BY <2>1, <2>4, <3>3
    <3>4. QED
      BY <3>2, <3>3
  <2>8. c + 1 = 1 /\ ~(c > 0) /\ c < n
    BY <1>1, <2>1
  <2>9. /\ node'[i].prev = IF c = 0 THEN NULL ELSE p[c]
        /\ node'[i].next = IF c = n THEN NULL ELSE p[c + 1]
        /\ head' = IF c = 0 THEN i ELSE head
        /\ tail' = IF c = n THEN i ELSE tail
    BY <2>1, <2>2, <2>6, <2>8, Zenon
  <2>10. ASSUME NEW x \in Slots \ {i}
         PROVE  /\ node'[x].prev = IF c < n /\ x = p[c + 1] THEN i ELSE node[x].prev
                /\ node'[x].next = IF c > 0 /\ x = p[c] THEN i ELSE node[x].next
    BY <2>7, <2>8, Zenon
  <2>11. QED
    BY <2>5, <2>6, <2>7, <2>9, <2>10, Zenon DEF Spliced, i
<1>14. CASE head # NULL /\ cur = NULL /\ LinkLast(i, new)
  <2>1. /\ n # 0 /\ c = n /\ c # 0 /\ n \in 1..n /\ tail = p[n] /\ tail # i /\ tail \in Slots
        /\ ~(c < n) /\ c > 0
    BY <1>1, <1>2, <1>6, <1>9, <1>11, <1>14
  <2>2. /\ node' = [node EXCEPT ![i] = [new EXCEPT !.prev = tail], ![tail].next = i]
        /\ tail' = i /\ head' = head
    BY <1>14 DEF LinkLast
  <2>3. /\ [new EXCEPT !.prev = tail] \in Node
        /\ [node[tail] EXCEPT !.next = i] \in Node
    BY <1>2, <1>4, <1>5, <2>1 DEF Node
  <2>4. /\ node'[i] = [new EXCEPT !.prev = tail]
        /\ node'[tail] = [node[tail] EXCEPT !.next = i]
        /\ \A x \in Slots \ {i} : x # tail => node'[x] = node[x]
    BY <1>2, <1>4, <2>1, <2>2
  <2>5. node' \in [Slots -> Node]
    <3>1. node' = [x \in Slots |-> node'[x]]
      BY <1>4, <2>2
    <3>2. \A x \in Slots : node'[x] \in Node
      BY <1>4, <2>3, <2>4
    <3>3. QED
      BY <3>1, <3>2
  <2>6. /\ node'[i].index = index /\ node'[i].filename = filename
        /\ node'[i].prev = p[n] /\ node'[i].next = NULL
    BY <2>1, <2>4
  <2>7. ASSUME NEW x \in Slots \ {i}
        PROVE  /\ node'[x].index = node[x].index /\ node'[x].filename = node[x].filename
               /\ node'[x].next = IF x = p[n] THEN i ELSE node[x].next
               /\ node'[x].prev = node[x].prev
    <3>1. node[x] \in Node
      BY <1>4
    <3>2. CASE x = tail
      BY <2>1, <2>4, <3>1, <3>2 DEF Node
    <3>3. CASE x # tail
      BY <2>1, <2>4, <3>3
    <3>4. QED
      BY <3>2, <3>3
  <2>8. /\ node'[i].prev = IF c = 0 THEN NULL ELSE p[c]
        /\ node'[i].next = IF c = n THEN NULL ELSE p[c + 1]
        /\ head' = IF c = 0 THEN i ELSE head
        /\ tail' = IF c = n THEN i ELSE tail
    BY <2>1, <2>2, <2>6, Zenon
  <2>9. ASSUME NEW x \in Slots \ {i}
        PROVE  /\ node'[x].prev = IF c < n /\ x = p[c + 1] THEN i ELSE node[x].prev
               /\ node'[x].next = IF c > 0 /\ x = p[c] THEN i ELSE node[x].next
    BY <2>1, <2>7, Zenon
  <2>10. QED
    BY <2>5, <2>6, <2>7, <2>8, <2>9, Zenon DEF Spliced, i
<1>15. CASE head # NULL /\ cur \notin {head, NULL} /\ LinkMiddle(i, new, cur)
  <2>1. n # 0 /\ c # 0 /\ c # n /\ c < n /\ c > 0 /\ c \in 1..n /\ c + 1 \in 1..n
    BY <1>1, <1>9, <1>10, <1>11, <1>15
  <2> DEFINE a == p[c]
  <2>2. cur = p[c + 1] /\ cur \in Slots /\ cur # i /\ a \in Slots /\ a # i
    BY <1>1, <1>2, <1>7, <2>1
  <2>3. cur # a
    <3>1. c + 1 # c
      BY <1>1
    <3>2. QED
      BY <1>6, <2>1, <2>2, <3>1
  <2>4. node[cur].prev = a
    <3>1. c + 1 # 1 /\ (c + 1) - 1 = c
      BY <1>1, <2>1
    <3>2. Before(p, c + 1) = a
      BY <3>1 DEF Before
    <3>3. QED
      BY <1>6, <2>1, <2>2, <3>2
  <2> HIDE DEF a
  <2>5. /\ node' = [node EXCEPT ![i] = [new EXCEPT !.next = cur, !.prev = a],
                                ![a].next = i,
                                ![cur].prev = i]
        /\ tail' = tail /\ head' = head
    BY <1>15, <2>4 DEF LinkMiddle
  <2>6. /\ [new EXCEPT !.next = cur, !.prev = a] \in Node
        /\ [node[a] EXCEPT !.next = i] \in Node
        /\ [node[cur] EXCEPT !.prev = i] \in Node
    BY <1>2, <1>3, <1>4, <1>5, <2>2 DEF Node
  <2>7. /\ node'[i] = [new EXCEPT !.next = cur, !.prev = a]
        /\ node'[a] = [node[a] EXCEPT !.next = i]
        /\ node'[cur] = [node[cur] EXCEPT !.prev = i]
        /\ \A x \in Slots \ {i} : x \notin {a, cur} => node'[x] = node[x]
    BY <1>2, <1>4, <2>2, <2>3, <2>5
  <2>8. node' \in [Slots -> Node]
    <3>1. node' = [x \in Slots |-> node'[x]]
      BY <1>4, <2>5
    <3>2. \A x \in Slots : node'[x] \in Node
      BY <1>4, <2>6, <2>7
    <3>3. QED
      BY <3>1, <3>2
  <2>9. /\ node'[i].index = index /\ node'[i].filename = filename
        /\ node'[i].prev = a /\ node'[i].next = cur
    BY <2>7
  <2>10. ASSUME NEW x \in Slots \ {i}
         PROVE  /\ node'[x].index = node[x].index /\ node'[x].filename = node[x].filename
                /\ node'[x].next = IF x = a THEN i ELSE node[x].next
                /\ node'[x].prev = IF x = cur THEN i ELSE node[x].prev
    <3>1. node[x] \in Node
      BY <1>4
    <3>2. CASE x = a
      BY <2>3, <2>7, <3>1, <3>2 DEF Node
    <3>3. CASE x = cur
      BY <2>3, <2>7, <3>1, <3>3 DEF Node
    <3>4. CASE x \notin {a, cur}
      BY <2>7, <3>4
    <3>5. QED
      BY <3>2, <3>3, <3>4
  <2>11. QED
    BY <2>1, <2>2, <2>5, <2>8, <2>9, <2>10 DEF Spliced, i, a
<1>16. QED
  BY <1>8, <1>12, <1>13, <1>14, <1>15

\* A list of n nodes, or of n tables, with i behind the first c.
Added(n, p, c, i) ==
  [k \in 1..(n + 1) |-> IF k <= c THEN p[k] ELSE IF k = c + 1 THEN i ELSE p[k - 1]]

\* A node that is spliced in behind the nodes with smaller indexes makes a list in
\* order again.
LEMMA SplicedChain ==
  ASSUME TypeInv, NEW n \in 0..N, NEW p \in [1..n -> Slots], Chain(n, p), n < N,
         NEW index \in Indexes, NEW filename \in Filenames,
         NEW c \in 0..n, Stops(n, p, index, c),
         NEW i \in Slots, \A k \in 1..n : p[k] # i,
         Spliced(n, p, c, i, index, filename)
  PROVE  Chain(n + 1, Added(n, p, c, i))'
<1> DEFINE q == Added(n, p, c, i)
<1>1. /\ n \in Nat /\ N \in Nat /\ n <= N /\ c \in Nat /\ c <= n
      /\ \A k \in 1..n : p[k] \in Slots
  BY Walks
<1>2. /\ \A k \in 1..(n + 1) : k <= c => k \in 1..n /\ q[k] = p[k]
      /\ q[c + 1] = i /\ c + 1 \in 1..(n + 1)
      /\ \A k \in 1..(n + 1) : k > c + 1 => k - 1 \in 1..n /\ q[k] = p[k - 1]
  <2>1. c + 1 \in 1..(n + 1) /\ ~(c + 1 <= c)
    BY <1>1
  <2>2. \A k \in 1..(n + 1) : k <= c => k \in 1..n
    BY <1>1
  <2>3. \A k \in 1..(n + 1) : k > c + 1 => k - 1 \in 1..n /\ ~(k <= c) /\ k # c + 1
    BY <1>1
  <2>4. QED
    BY <2>1, <2>2, <2>3 DEF Added
<1>3. q \in [1..(n + 1) -> Slots]
  <2>1. q = [k \in 1..(n + 1) |-> q[k]]
    BY DEF Added
  <2>2. \A k \in 1..(n + 1) : k <= c \/ k = c + 1 \/ k > c + 1
    BY <1>1
  <2>3. \A k \in 1..(n + 1) : q[k] \in Slots
    BY <1>1, <1>2, <2>2
  <2> HIDE DEF q
  <2>4. QED
    BY <2>1, <2>3
<1>4. /\ head = IF n = 0 THEN NULL ELSE p[1]
      /\ tail = IF n = 0 THEN NULL ELSE p[n]
      /\ \A k \in 1..n : node[p[k]].next = After(n, p, k) /\ node[p[k]].prev = Before(p, k)
      /\ \A j, k \in 1..n : p[j] = p[k] => j = k
      /\ \A x \in Slots : node[x].index # 0 <=> \E k \in 1..n : p[k] = x
      /\ \A k \in 1..n : node[p[k]].index \in Indexes /\ node[p[k]].filename \in Filenames
      /\ \A j, k \in 1..n : j <= k => node[p[j]].index <= node[p[k]].index
  BY DEF Chain, Linked, Uses, Ordered
<1>5. /\ node'[i].index = index /\ node'[i].filename = filename
      /\ node'[i].prev = IF c = 0 THEN NULL ELSE p[c]
      /\ node'[i].next = IF c = n THEN NULL ELSE p[c + 1]
      /\ \A x \in Slots \ {i} :
           /\ node'[x].index = node[x].index /\ node'[x].filename = node[x].filename
           /\ node'[x].prev = IF c < n /\ x = p[c + 1] THEN i ELSE node[x].prev
           /\ node'[x].next = IF c > 0 /\ x = p[c] THEN i ELSE node[x].next
      /\ head' = IF c = 0 THEN i ELSE head
      /\ tail' = IF c = n THEN i ELSE tail
  BY DEF Spliced
<1>6. \A k \in 1..n : k <= c => node[p[k]].index < index
  BY DEF Stops
<1>7. \A k \in 1..n : k >= c + 1 => node[p[k]].index >= index
  <2> TAKE k \in 1..n
  <2> SUFFICES ASSUME k >= c + 1
               PROVE  node[p[k]].index >= index
    OBVIOUS
  <2>1. c < n /\ c + 1 \in 1..n /\ c + 1 <= k
    BY <1>1
  <2>2. node[p[c + 1]].index >= index
    BY <2>1 DEF Stops
  <2>3. node[p[c + 1]].index <= node[p[k]].index
    BY <1>4, <2>1
  <2>4. node[p[c + 1]].index \in Nat /\ node[p[k]].index \in Nat /\ index \in Nat
    BY <1>4, <2>1, MetaListAssumption
  <2>5. QED
    BY <2>2, <2>3, <2>4
<1> HIDE DEF q
<1>8. head' = q[1] /\ tail' = q[n + 1]
  <2>1. c = 0 => head' = q[1]
    BY <1>2, <1>5
  <2>2. c # 0 => head' = q[1]
    <3> SUFFICES ASSUME c # 0
                 PROVE  head' = q[1]
      OBVIOUS
    <3>1. 1 <= c /\ 1 \in 1..(n + 1) /\ n # 0
      BY <1>1
    <3>2. QED
      BY <1>2, <1>4, <1>5, <3>1
  <2>3. c = n => tail' = q[n + 1]
    BY <1>2, <1>5
  <2>4. c # n => tail' = q[n + 1]
    <3> SUFFICES ASSUME c # n
                 PROVE  tail' = q[n + 1]
      OBVIOUS
    <3>1. n + 1 > c + 1 /\ n + 1 \in 1..(n + 1) /\ n # 0 /\ (n + 1) - 1 = n
      BY <1>1
    <3>2. q[n + 1] = p[n]
      BY <1>2, <3>1
    <3>3. QED
      BY <1>4, <1>5, <3>1, <3>2
  <2>5. QED
    BY <2>1, <2>2, <2>3, <2>4
<1>9. ASSUME NEW k \in 1..(n + 1)
      PROVE  /\ node'[q[k]].next = After(n + 1, q, k)
             /\ node'[q[k]].prev = Before(q, k)
  <2>1. CASE k < c
    <3>1. /\ k \in 1..n /\ k + 1 \in 1..(n + 1) /\ k + 1 <= c /\ k <= c /\ k # n /\ k # n + 1
          /\ c \in 1..n /\ c # k
      BY <1>1, <2>1
    <3>2. q[k] = p[k] /\ q[k + 1] = p[k + 1] /\ p[k] \in Slots \ {i}
      BY <1>1, <1>2, <3>1
    <3>3. p[k] # p[c]
      BY <1>4, <3>1
    <3>4. node'[p[k]].next = p[k + 1]
      BY <1>4, <1>5, <3>1, <3>2, <3>3 DEF After
    <3>5. c < n => c + 1 \in 1..n /\ c + 1 # k
      BY <1>1, <2>1
    <3>6. node'[p[k]].prev = Before(p, k)
      BY <1>4, <1>5, <3>1, <3>2, <3>5
    <3>7. Before(p, k) = Before(q, k)
      <4>1. k # 1 => k - 1 \in 1..(n + 1) /\ k - 1 <= c
        BY <1>1, <3>1
      <4>2. QED
        BY <1>2, <4>1 DEF Before
    <3>8. QED
      BY <3>1, <3>2, <3>4, <3>6, <3>7 DEF After
  <2>2. CASE k = c
    <3>1. k \in 1..n /\ k <= c /\ k # n + 1 /\ c > 0
      BY <1>1, <2>2
    <3>2. q[k] = p[k] /\ q[k + 1] = i /\ p[k] \in Slots \ {i}
      BY <1>1, <1>2, <2>2, <3>1
    <3>3. node'[p[k]].next = i
      BY <1>5, <2>2, <3>1, <3>2
    <3>5. c < n => c + 1 \in 1..n /\ c + 1 # k
      BY <1>1, <2>2
    <3>6. node'[p[k]].prev = Before(p, k)
      BY <1>4, <1>5, <3>1, <3>2, <3>5
    <3>7. Before(p, k) = Before(q, k)
      <4>1. k # 1 => k - 1 \in 1..(n + 1) /\ k - 1 <= c
        BY <1>1, <2>2, <3>1
      <4>2. QED
        BY <1>2, <4>1 DEF Before
    <3>8. QED
      BY <3>1, <3>2, <3>3, <3>6, <3>7 DEF After
  <2>3. CASE k = c + 1
    <3>1. q[k] = i
      BY <1>2, <2>3
    <3>2. node'[i].next = After(n + 1, q, k)
      <4>1. c = n <=> k = n + 1
        BY <1>1, <2>3
      <4>2. c # n => k + 1 \in 1..(n + 1) /\ k + 1 > c + 1 /\ (k + 1) - 1 = c + 1
        BY <1>1, <2>3
      <4>3. QED
        BY <1>2, <1>5, <4>1, <4>2 DEF After
    <3>3. node'[i].prev = Before(q, k)
      <4>1. k = 1 <=> c = 0
        BY <1>1, <2>3
      <4>2. c # 0 => k - 1 = c /\ c \in 1..(n + 1) /\ c <= c
        BY <1>1, <2>3
      <4>3. QED
        BY <1>2, <1>5, <4>1, <4>2 DEF Before
    <3>4. QED
      BY <3>1, <3>2, <3>3
  <2>4. CASE k > c + 1
    <3> DEFINE l == k - 1
    <3>1. l \in 1..n /\ l >= c + 1 /\ l # c /\ k # 1 /\ (l = n <=> k = n + 1) /\ l + 1 = k
      BY <1>1, <2>4
    <3>2. q[k] = p[l] /\ p[l] \in Slots \ {i}
      BY <1>1, <1>2, <2>4, <3>1
    <3>3. c > 0 => c \in 1..n
      BY <1>1
    <3>4. node'[p[l]].next = After(n, p, l)
      BY <1>4, <1>5, <3>1, <3>2, <3>3
    <3>5. After(n, p, l) = After(n + 1, q, k)
      <4>1. k # n + 1 => k + 1 \in 1..(n + 1) /\ k + 1 > c + 1 /\ (k + 1) - 1 = k
        BY <1>1, <2>4
      <4>2. QED
        BY <1>2, <3>1, <4>1 DEF After
    <3>6. c < n /\ c + 1 \in 1..n
      BY <1>1, <3>1
    <3>7. node'[p[l]].prev = Before(q, k)
      <4>1. CASE l = c + 1
        <5>1. node'[p[l]].prev = i
          BY <1>5, <3>2, <3>6, <4>1
        <5>2. q[k - 1] = i
          BY <1>2, <4>1
        <5>3. QED
          BY <3>1, <5>1, <5>2 DEF Before
      <4>2. CASE l # c + 1
        <5>1. p[l] # p[c + 1]
          BY <1>4, <3>1, <3>6, <4>2
        <5>2. node'[p[l]].prev = Before(p, l)
          BY <1>4, <1>5, <3>1, <3>2, <5>1
        <5>3. l \in 1..(n + 1) /\ l > c + 1 /\ l # 1
          BY <1>1, <3>1, <4>2
        <5>4. q[l] = p[l - 1]
          BY <1>2, <5>3
        <5>5. Before(p, l) = p[l - 1] /\ Before(q, k) = q[l]
          BY <3>1, <5>3 DEF Before
        <5>6. QED
          BY <5>2, <5>4, <5>5
      <4>3. QED
        BY <4>1, <4>2
    <3> HIDE DEF l
    <3>8. QED
      BY <3>2, <3>4, <3>5, <3>7
  <2>5. QED
    BY <1>1, <2>1, <2>2, <2>3, <2>4
<1>10. Linked(n + 1, q)'
  <2>1. n + 1 # 0
    BY <1>1
  <2>2. QED
    BY <1>8, <1>9, <2>1 DEF Linked
<1>11. ASSUME NEW j \in 1..(n + 1), NEW k \in 1..(n + 1), q[j] = q[k]
       PROVE  j = k
  <2>1. CASE j <= c /\ k <= c
    BY <1>2, <1>4, <1>11, <2>1
  <2>2. CASE j <= c /\ k > c + 1
    <3>1. j = k - 1
      BY <1>2, <1>4, <1>11, <2>2
    <3>2. QED
      BY <1>1, <2>2, <3>1
  <2>3. CASE j > c + 1 /\ k <= c
    <3>1. k = j - 1
      BY <1>2, <1>4, <1>11, <2>3
    <3>2. QED
      BY <1>1, <2>3, <3>1
  <2>4. CASE j > c + 1 /\ k > c + 1
    <3>1. j - 1 = k - 1
      BY <1>2, <1>4, <1>11, <2>4
    <3>2. QED
      BY <3>1
  <2>5. CASE j = c + 1 /\ k # c + 1
    <3>1. q[k] # i
      <4>1. k <= c \/ k > c + 1
        BY <1>1, <2>5
      <4>2. QED
        BY <1>2, <4>1
    <3>2. QED
      BY <1>2, <1>11, <2>5, <3>1
  <2>6. CASE k = c + 1 /\ j # c + 1
    <3>1. q[j] # i
      <4>1. j <= c \/ j > c + 1
        BY <1>1, <2>6
      <4>2. QED
        BY <1>2, <4>1
    <3>2. QED
      BY <1>2, <1>11, <2>6, <3>1
  <2>7. CASE j = c + 1 /\ k = c + 1
    BY <2>7
  <2>8. (j <= c \/ j = c + 1 \/ j > c + 1) /\ (k <= c \/ k = c + 1 \/ k > c + 1)
    BY <1>1
  <2>9. QED
    BY <2>1, <2>2, <2>3, <2>4, <2>5, <2>6, <2>7, <2>8
<1>12. ASSUME NEW x \in Slots
       PROVE  node'[x].index # 0 <=> \E k \in 1..(n + 1) : q[k] = x
  <2>1. CASE x = i
    <3>1. index # 0
      BY MetaListAssumption
    <3>2. QED
      BY <1>2, <1>5, <2>1, <3>1
  <2>2. CASE x # i
    <3>1. node'[x].index = node[x].index
      BY <1>5, <2>2
    <3>2. ASSUME NEW k \in 1..n, p[k] = x
          PROVE  \E l \in 1..(n + 1) : q[l] = x
      <4>1. CASE k <= c
        <5>1. k \in 1..(n + 1)
          BY <1>1
        <5>2. QED
          BY <1>2, <3>2, <4>1, <5>1
      <4>2. CASE k > c
        <5>1. k + 1 \in 1..(n + 1) /\ k + 1 > c + 1 /\ (k + 1) - 1 = k
          BY <1>1, <4>2
        <5>2. q[k + 1] = x
          BY <1>2, <3>2, <5>1
        <5>3. QED
          BY <5>1, <5>2
      <4>3. QED
        BY <1>1, <4>1, <4>2
    <3>3. ASSUME NEW k \in 1..(n + 1), q[k] = x
          PROVE  \E l \in 1..n : p[l] = x
      <4>1. k <= c \/ k > c + 1
        <5>1. k # c + 1
          BY <1>2, <2>2, <3>3
        <5>2. QED
          BY <1>1, <5>1
      <4>2. QED
        BY <1>2, <3>3, <4>1
    <3>4. QED
      BY <1>4, <3>1, <3>2, <3>3
  <2>3. QED
    BY <2>1, <2>2
<1>13. Uses(n + 1, q)'
  BY <1>11, <1>12 DEF Uses
<1>14. ASSUME NEW k \in 1..(n + 1)
       PROVE  /\ k <= c => node'[q[k]].index = node[p[k]].index
              /\ k = c + 1 => node'[q[k]].index = index
              /\ k > c + 1 => node'[q[k]].index = node[p[k - 1]].index
              /\ node'[q[k]].index \in Indexes /\ node'[q[k]].filename \in Filenames
  <2>1. CASE k <= c
    <3>1. k \in 1..n /\ q[k] = p[k] /\ p[k] \in Slots \ {i} /\ k # c + 1 /\ ~(k > c + 1)
      BY <1>1, <1>2, <2>1
    <3>2. QED
      BY <1>4, <1>5, <3>1
  <2>2. CASE k = c + 1
    <3>1. ~(k <= c) /\ ~(k > c + 1) /\ q[k] = i
      BY <1>1, <1>2, <2>2
    <3>2. QED
      BY <1>5, <3>1
  <2>3. CASE k > c + 1
    <3>1. k - 1 \in 1..n /\ q[k] = p[k - 1] /\ p[k - 1] \in Slots \ {i}
      BY <1>1, <1>2, <2>3
    <3>2. ~(k <= c) /\ k # c + 1
      BY <1>1, <2>3
    <3>3. QED
      BY <1>4, <1>5, <3>1, <3>2
  <2>4. QED
    BY <1>1, <2>1, <2>2, <2>3
<1>15. ASSUME NEW j \in 1..(n + 1), NEW k \in 1..(n + 1), j <= k
       PROVE  node'[q[j]].index <= node'[q[k]].index
  <2>0. /\ index \in Nat
        /\ \A l \in 1..n : node[p[l]].index \in Nat
    BY <1>4, MetaListAssumption
  <2>1. CASE j <= c /\ k <= c
    BY <1>2, <1>4, <1>14, <1>15, <2>1
  <2>2. CASE j <= c /\ k = c + 1
    <3>1. j \in 1..n /\ node[p[j]].index < index
      BY <1>2, <1>6, <2>2
    <3>2. QED
      BY <1>14, <2>0, <2>2, <3>1
  <2>3. CASE j <= c /\ k > c + 1
    <3>1. j <= k - 1
      BY <1>1, <2>3
    <3>2. QED
      BY <1>2, <1>4, <1>14, <2>3, <3>1
  <2>4. CASE j = c + 1 /\ k = c + 1
    BY <1>14, <2>0, <2>4
  <2>5. CASE j = c + 1 /\ k > c + 1
    <3>1. k - 1 \in 1..n /\ k - 1 >= c + 1
      BY <1>1, <1>2, <2>5
    <3>2. node[p[k - 1]].index >= index
      BY <1>7, <3>1
    <3>3. QED
      BY <1>14, <2>0, <2>5, <3>1, <3>2
  <2>6. CASE j > c + 1 /\ k > c + 1
    <3>1. j - 1 <= k - 1
      BY <1>15
    <3>2. QED
      BY <1>2, <1>4, <1>14, <2>6, <3>1
  <2>7. QED
    BY <1>1, <1>15, <2>1, <2>2, <2>3, <2>4, <2>5, <2>6
<1>16. Ordered(n + 1, q)'
  BY <1>14, <1>15 DEF Ordered
<1>17. n + 1 \in 0..N
  BY <1>1
<1>18. QED
  BY <1>3, <1>10, <1>13, <1>16, <1>17 DEF Chain, q

----------------------------------------------------------------------------
(* popleft.                                                                *)

\* The list without its first node.
Popped(n, p) == [k \in 1..(n - 1) |-> p[k + 1]]

\* popleft leaves a list in order and a block of nodes.
LEMMA PopChain ==
  ASSUME TypeInv, NEW n \in 0..N, NEW p \in [1..n -> Slots], Chain(n, p), popleft
  PROVE  /\ TypeInv'
         /\ n # 0
         /\ Chain(n - 1, Popped(n, p))'
         /\ \A k \in 1..n : k # 1 => /\ node'[p[k]].index = node[p[k]].index
                                     /\ node'[p[k]].filename = node[p[k]].filename
<1> DEFINE q == Popped(n, p)
           h == p[1]
           s == p[2]
<1>1. /\ n \in Nat /\ N \in Nat /\ n <= N
      /\ \A k \in 1..n : p[k] \in Slots /\ p[k] # NULL
  BY Walks
<1>2. node \in [Slots -> Node] /\ head \in Pointers /\ tail \in Pointers
  BY DEF TypeInv
<1>3. /\ head = IF n = 0 THEN NULL ELSE p[1]
      /\ tail = IF n = 0 THEN NULL ELSE p[n]
      /\ \A k \in 1..n : node[p[k]].next = After(n, p, k) /\ node[p[k]].prev = Before(p, k)
      /\ \A j, k \in 1..n : p[j] = p[k] => j = k
      /\ \A x \in Slots : node[x].index # 0 <=> \E k \in 1..n : p[k] = x
      /\ \A k \in 1..n : node[p[k]].index \in Indexes /\ node[p[k]].filename \in Filenames
      /\ \A j, k \in 1..n : j <= k => node[p[j]].index <= node[p[k]].index
  BY DEF Chain, Linked, Uses, Ordered
<1>4. n # 0 /\ 1 \in 1..n /\ head = h /\ h \in Slots
  <2>1. n # 0
    BY <1>3 DEF popleft
  <2>2. 1 \in 1..n
    BY <1>1, <2>1
  <2>3. QED
    BY <1>1, <1>3, <2>1, <2>2
<1>5. n # 1 => 2 \in 1..n /\ s \in Slots /\ s # NULL /\ s # h
  <2>1. n # 1 => 2 \in 1..n /\ 2 # 1
    BY <1>1, <1>4
  <2>2. QED
    BY <1>1, <1>3, <1>4, <2>1
<1>6. node[head].next = IF n = 1 THEN NULL ELSE s
  <2>1. node[h].next = After(n, p, 1)
    BY <1>3, <1>4
  <2>2. 1 + 1 = 2
    OBVIOUS
  <2>3. QED
    BY <1>4, <2>1, <2>2 DEF After
<1>7. Free \in Node /\ Free.index = 0 /\ Free.filename = NoName
  BY <1>1 DEF Free, Node, Pointers, NULL
<1>8. Slots \subseteq Pointers /\ NULL \in Pointers
  BY <1>1 DEF Slots, Pointers, N, NULL
<1> HIDE DEF h, s
<1>9. /\ node' \in [Slots -> Node]
      /\ node'[h] = Free
      /\ \A x \in Slots \ {h} :
           /\ node'[x].index = node[x].index /\ node'[x].filename = node[x].filename
           /\ node'[x].next = node[x].next
           /\ node'[x].prev = IF n # 1 /\ x = s THEN NULL ELSE node[x].prev
      /\ head' = IF n = 1 THEN NULL ELSE s
      /\ tail' = IF n = 1 THEN NULL ELSE tail
  <2>1. CASE n = 1
    <3>1. /\ head' = NULL /\ tail' = NULL
          /\ node' = [node EXCEPT ![h] = Free]
      BY <1>4, <1>6, <2>1 DEF popleft, Released
    <3>2. node' \in [Slots -> Node]
      BY <1>2, <1>7, <3>1
    <3>3. node'[h] = Free /\ \A x \in Slots \ {h} : node'[x] = node[x]
      BY <1>2, <1>4, <3>1
    <3>4. QED
      BY <2>1, <3>1, <3>2, <3>3
  <2>2. CASE n # 1
    <3>1. /\ head' = s /\ tail' = tail
          /\ node' = [node EXCEPT ![h] = Free, ![s].prev = NULL]
      BY <1>4, <1>5, <1>6, <2>2 DEF popleft, Released
    <3>2. [node[s] EXCEPT !.prev = NULL] \in Node
      BY <1>2, <1>5, <1>8, <2>2 DEF Node
    <3>3. /\ node'[h] = Free
          /\ node'[s] = [node[s] EXCEPT !.prev = NULL]
          /\ \A x \in Slots \ {h} : x # s => node'[x] = node[x]
      BY <1>2, <1>4, <1>5, <2>2, <3>1
    <3>4. node' \in [Slots -> Node]
      <4>1. node' = [x \in Slots |-> node'[x]]
        BY <1>2, <3>1
      <4>2. \A x \in Slots : node'[x] \in Node
        BY <1>2, <1>7, <3>2, <3>3
      <4>3. QED
        BY <4>1, <4>2
    <3>5. ASSUME NEW x \in Slots \ {h}
          PROVE  /\ node'[x].index = node[x].index /\ node'[x].filename = node[x].filename
                 /\ node'[x].next = node[x].next
                 /\ node'[x].prev = IF x = s THEN NULL ELSE node[x].prev
      <4>1. node[x] \in Node
        BY <1>2
      <4>2. CASE x = s
        BY <3>3, <4>1, <4>2 DEF Node
      <4>3. CASE x # s
        BY <3>3, <4>3
      <4>4. QED
        BY <4>2, <4>3
    <3>6. QED
      BY <2>2, <3>1, <3>3, <3>4, <3>5
  <2>3. QED
    BY <2>1, <2>2
<1>10. TypeInv'
  BY <1>2, <1>5, <1>8, <1>9 DEF TypeInv
<1>11. \A k \in 1..n : k # 1 => p[k] \in Slots \ {h}
  BY <1>1, <1>3, <1>4 DEF h
<1>12. \A k \in 1..n : k # 1 => /\ node'[p[k]].index = node[p[k]].index
                                /\ node'[p[k]].filename = node[p[k]].filename
  BY <1>9, <1>11
<1>13. \A k \in 1..(n - 1) : k + 1 \in 1..n /\ k + 1 # 1 /\ q[k] = p[k + 1]
  <2>1. \A k \in 1..(n - 1) : k + 1 \in 1..n /\ k + 1 # 1
    BY <1>1
  <2>2. QED
    BY <2>1 DEF Popped
<1>14. q \in [1..(n - 1) -> Slots]
  <2>1. q = [k \in 1..(n - 1) |-> p[k + 1]]
    BY DEF Popped
  <2>2. QED
    BY <1>1, <1>13, <2>1
<1> HIDE DEF q
<1>15. Linked(n - 1, q)'
  <2>1. head' = IF n - 1 = 0 THEN NULL ELSE q[1]
    <3>1. n - 1 = 0 <=> n = 1
      BY <1>1
    <3>2. n # 1 => 1 \in 1..(n - 1) /\ 1 + 1 = 2
      BY <1>1, <1>4
    <3>3. QED
      BY <1>9, <1>13, <3>1, <3>2 DEF s
  <2>2. tail' = IF n - 1 = 0 THEN NULL ELSE q[n - 1]
    <3>1. n - 1 = 0 <=> n = 1
      BY <1>1
    <3>2. n # 1 => n - 1 \in 1..(n - 1) /\ (n - 1) + 1 = n
      BY <1>1, <1>4
    <3>3. QED
      BY <1>3, <1>4, <1>9, <1>13, <3>1, <3>2
  <2>3. ASSUME NEW k \in 1..(n - 1)
        PROVE  node'[q[k]].next = After(n - 1, q, k) /\ node'[q[k]].prev = Before(q, k)
    <3> DEFINE l == k + 1
    <3>1. l \in 1..n /\ l # 1 /\ q[k] = p[l] /\ l - 1 = k /\ (l = n <=> k = n - 1)
      BY <1>1, <1>13
    <3>2. node'[p[l]].next = After(n, p, l)
      BY <1>3, <1>9, <1>11, <3>1
    <3>3. After(n, p, l) = After(n - 1, q, k)
      <4>1. k # n - 1 => k + 1 \in 1..(n - 1)
        BY <1>1
      <4>2. k # n - 1 => q[k + 1] = p[(k + 1) + 1]
        BY <1>13, <4>1
      <4>3. QED
        BY <3>1, <4>2 DEF After
    <3>4. node'[p[l]].prev = Before(q, k)
      <4>1. CASE k = 1
        <5>1. l = 2 /\ n # 1
          BY <1>1, <4>1
        <5>2. node'[p[l]].prev = NULL
          BY <1>9, <1>11, <3>1, <5>1 DEF s
        <5>3. QED
          BY <4>1, <5>2 DEF Before
      <4>2. CASE k # 1
        <5>1. l # 2 /\ n # 1 /\ k - 1 \in 1..(n - 1) /\ (k - 1) + 1 = k
          BY <1>1, <4>2
        <5>2. p[l] # s
          BY <1>3, <1>5, <3>1, <5>1 DEF s
        <5>3. node'[p[l]].prev = Before(p, l)
          BY <1>3, <1>9, <1>11, <3>1, <5>2
        <5>4. Before(p, l) = p[k]
          BY <3>1 DEF Before
        <5>5. Before(q, k) = p[k]
          BY <1>13, <4>2, <5>1 DEF Before
        <5>6. QED
          BY <5>3, <5>4, <5>5
      <4>3. QED
        BY <4>1, <4>2
    <3> HIDE DEF l
    <3>5. QED
      BY <3>1, <3>2, <3>3, <3>4
  <2>4. QED
    BY <2>1, <2>2, <2>3 DEF Linked
<1>16. Uses(n - 1, q)'
  <2>1. ASSUME NEW j \in 1..(n - 1), NEW k \in 1..(n - 1), q[j] = q[k]
        PROVE  j = k
    <3>1. j + 1 = k + 1
      BY <1>3, <1>13, <2>1
    <3>2. QED
      BY <3>1
  <2>2. ASSUME NEW x \in Slots
        PROVE  node'[x].index # 0 <=> \E k \in 1..(n - 1) : q[k] = x
    <3>1. CASE x = h
      <4>1. node'[x].index = 0
        BY <1>7, <1>9, <3>1
      <4>2. \A k \in 1..(n - 1) : q[k] # x
        BY <1>11, <1>13, <3>1
      <4>3. QED
        BY <4>1, <4>2
    <3>2. CASE x # h
      <4>1. node'[x].index = node[x].index
        BY <1>9, <3>2
      <4>2. ASSUME NEW k \in 1..n, p[k] = x
            PROVE  \E l \in 1..(n - 1) : q[l] = x
        <5>1. k # 1
          BY <3>2, <4>2 DEF h
        <5>2. k - 1 \in 1..(n - 1) /\ (k - 1) + 1 = k
          BY <1>1, <5>1
        <5>3. q[k - 1] = x
          BY <1>13, <4>2, <5>2
        <5>4. QED
          BY <5>2, <5>3
      <4>3. ASSUME NEW k \in 1..(n - 1), q[k] = x
            PROVE  \E l \in 1..n : p[l] = x
        BY <1>13, <4>3
      <4>4. QED
        BY <1>3, <4>1, <4>2, <4>3
    <3>3. QED
      BY <3>1, <3>2
  <2>3. QED
    BY <2>1, <2>2 DEF Uses
<1>17. Ordered(n - 1, q)'
  <2>1. \A k \in 1..(n - 1) : /\ node'[q[k]].index = node[p[k + 1]].index
                              /\ node'[q[k]].filename = node[p[k + 1]].filename
    BY <1>12, <1>13
  <2>2. \A j, k \in 1..(n - 1) : j <= k => j + 1 <= k + 1
    BY <1>1
  <2>3. \A k \in 1..(n - 1) : node'[q[k]].index \in Indexes /\ node'[q[k]].filename \in Filenames
    BY <1>3, <1>13, <2>1
  <2>4. ASSUME NEW j \in 1..(n - 1), NEW k \in 1..(n - 1), j <= k
        PROVE  node'[q[j]].index <= node'[q[k]].index
    <3>1. j + 1 \in 1..n /\ k + 1 \in 1..n /\ j + 1 <= k + 1
      BY <1>13, <2>2, <2>4
    <3>2. node[p[j + 1]].index <= node[p[k + 1]].index
      BY <1>3, <3>1
    <3>3. QED
      BY <2>1, <3>2
  <2>5. QED
    BY <2>3, <2>4 DEF Ordered
<1>18. n - 1 \in 0..N
  BY <1>1, <1>4
<1>19. QED
  BY <1>4, <1>10, <1>12, <1>14, <1>15, <1>16, <1>17, <1>18 DEF Chain, q

----------------------------------------------------------------------------
(* The invariant.                                                          *)

\* The block is cleared: no node is in use.
LEMMA EmptyChain ==
  ASSUME ListInit
  PROVE  ChainInv /\ Chain(0, <<>>)
<1>1. N \in Nat /\ 0 \in 0..N
  BY MetaListAssumption DEF N
<1>2. node = [i \in Slots |-> Free] /\ head = NULL /\ tail = NULL
  BY DEF ListInit
<1>3. Free \in Node /\ Free.index = 0
  BY <1>1 DEF Free, Node, Pointers, NULL
<1>4. TypeInv
  BY <1>1, <1>2, <1>3 DEF TypeInv, Pointers, NULL
<1>5. 1..0 = {}
  OBVIOUS
<1>6. <<>> \in [1..0 -> Slots]
  BY <1>5
<1>7. \A i \in Slots : node[i].index = 0
  BY <1>2, <1>3
<1>8. Chain(0, <<>>)
  BY <1>1, <1>2, <1>5, <1>6, <1>7 DEF Chain, Linked, Uses, Ordered
<1>9. QED
  BY <1>1, <1>4, <1>6, <1>8 DEF ChainInv

\* insert_node adds one node behind those with smaller indexes, or does nothing.
LEMMA InsertChain ==
  ASSUME TypeInv, NEW n \in 0..N, NEW p \in [1..n -> Slots], Chain(n, p),
         NEW index \in Indexes, NEW filename \in Filenames, insert_node(index, filename)
  PROVE  /\ TypeInv'
         /\ n < N
         /\ \E i \in Slots : \E c \in 0..n :
              /\ Stops(n, p, index, c)
              /\ \A k \in 1..n : p[k] # i
              /\ Spliced(n, p, c, i, index, filename)
              /\ Chain(n + 1, Added(n, p, c, i))'
<1>1. Min(FreeSlots) \in Slots /\ (\A k \in 1..n : p[k] # Min(FreeSlots)) /\ n < N
  BY FreeNode DEF insert_node
<1>2. PICK i \in Slots : i = Min(FreeSlots)
  BY <1>1
<1>3. index \in Nat
  BY MetaListAssumption
<1>4. PICK c \in 0..n : Stops(n, p, index, c)
  BY <1>3, CurrentStops
<1>5. Spliced(n, p, c, i, index, filename)
  BY <1>2, <1>4, InsertSplices
<1>6. \A k \in 1..n : p[k] # i
  BY <1>1, <1>2
<1>7. Chain(n + 1, Added(n, p, c, i))'
  BY <1>1, <1>4, <1>5, <1>6, SplicedChain
<1>8. TypeInv'
  <2>1. Slots \subseteq Pointers
    BY MetaListAssumption DEF Slots, Pointers, N
  <2>2. head \in Pointers /\ tail \in Pointers
    BY DEF TypeInv
  <2>3. head' \in Pointers /\ tail' \in Pointers
    BY <2>1, <2>2, <1>5 DEF Spliced
  <2>4. QED
    BY <1>5, <2>3 DEF Spliced, TypeInv
<1>9. QED
  BY <1>1, <1>4, <1>5, <1>6, <1>7, <1>8

\* Every step leaves the nodes in use in one list.
LEMMA ChainStep == ChainInv /\ [ListNext]_listVars => ChainInv'
<1> SUFFICES ASSUME ChainInv, [ListNext]_listVars
             PROVE  ChainInv'
  OBVIOUS
<1>1. PICK n \in 0..N : \E p \in [1..n -> Slots] : Chain(n, p)
  BY DEF ChainInv
<1>2. PICK p \in [1..n -> Slots] : Chain(n, p)
  BY <1>1
<1>3. TypeInv
  BY DEF ChainInv
<1>4. ASSUME TypeInv', NEW m, NEW q, Chain(m, q)'
      PROVE  ChainInv'
  <2>1. m \in 0..N /\ q \in [1..m -> Slots]
    BY <1>4 DEF Chain
  <2>2. QED
    BY <1>4, <2>1 DEF ChainInv
<1>5. CASE popleft
  <2>1. TypeInv' /\ Chain(n - 1, Popped(n, p))'
    BY <1>2, <1>3, <1>5, PopChain
  <2>2. QED
    BY <1>4, <2>1
<1>6. ASSUME NEW index \in Indexes, NEW filename \in Filenames, insert_node(index, filename)
      PROVE  ChainInv'
  <2>1. /\ TypeInv'
        /\ \E i \in Slots : \E c \in 0..n : Chain(n + 1, Added(n, p, c, i))'
    BY <1>2, <1>3, <1>6, InsertChain
  <2>2. QED
    BY <1>4, <2>1
<1>7. CASE UNCHANGED listVars
  <2>1. TypeInv' /\ Chain(n, p)'
    BY <1>2, <1>3, <1>7 DEF listVars, TypeInv, Chain, Linked, Uses, Ordered
  <2>2. QED
    BY <1>4, <2>1
<1>8. QED
  BY <1>5, <1>6, <1>7 DEF ListNext

\* The nodes in use form one list at every step.
LEMMA ChainAlways == ListSpec => []ChainInv
<1>1. ListInit => ChainInv
  BY EmptyChain
<1>2. QED
  BY <1>1, ChainStep, PTL DEF ListSpec

\* After every order of insert_node and popleft, for any number of nodes: the list is
\* the same by next from the head and by prev from the tail, both walks end, and the
\* nodes in use are those in the list, so that none is lost.
THEOREM LinksStaySound == ListSpec => []LinksSound
BY ChainAlways, SoundWalks, PTL

----------------------------------------------------------------------------
(* The list is the sequence of TableList.                                  *)

Table(x) == [index |-> node[x].index, filename |-> node[x].filename]
Entries == [index : Indexes, filename : Filenames]

\* The sequence that is listed is the one of the tables of the list.
LEMMA ListedIs ==
  TypeInv => \A n \in 0..N : \A p \in [1..n -> Slots] :
    Chain(n, p) => /\ Listed = [k \in 1..n |-> Table(p[k])]
                   /\ Listed \in Seq(Entries)
                   /\ Len(Listed) = n
<1> SUFFICES ASSUME TypeInv, NEW n \in 0..N, NEW p \in [1..n -> Slots], Chain(n, p)
             PROVE  /\ Listed = [k \in 1..n |-> Table(p[k])]
                    /\ Listed \in Seq(Entries)
                    /\ Len(Listed) = n
  OBVIOUS
<1>1. /\ n \in Nat /\ N \in Nat /\ n <= N
      /\ \A m \in 0..N : Forward[m] = IF m < n THEN p[m + 1] ELSE NULL
      /\ StorageCnt = n
  BY Walks
<1>2. \A k \in 1..n : Forward[k - 1] = p[k]
  <2> TAKE k \in 1..n
  <2>1. k - 1 \in 0..N /\ k - 1 < n /\ (k - 1) + 1 = k
    BY <1>1
  <2>2. QED
    BY <1>1, <2>1
<1>3. Listed = [k \in 1..n |-> [index |-> node[Forward[k - 1]].index,
                                filename |-> node[Forward[k - 1]].filename]]
  BY <1>1 DEF Listed
<1>4. Listed = [k \in 1..n |-> Table(p[k])]
  BY <1>2, <1>3 DEF Table
<1>5. \A k \in 1..n : Table(p[k]) \in Entries
  BY DEF Chain, Ordered, Table, Entries
<1>6. QED
  BY <1>1, <1>4, <1>5

\* What TableList inserts, element by element.
LEMMA InsertedIs ==
  ASSUME NEW s \in Seq(Entries), NEW n \in Nat, Len(s) = n, NEW t \in Entries, NEW c \in 0..n,
         \A k \in 1..n : k <= c => s[k].index < t.index,
         c < n => s[c + 1].index >= t.index
  PROVE  Abstract!InsertTable(s, t) = Added(n, s, c, t)
<1> DEFINE S == {k \in 1..n : s[k].index >= t.index} \union {n + 1}
<1>1. c \in Nat /\ c <= n /\ s \in [1..n -> Entries]
  <2>1. s \in [1..n -> Entries]
    BY LenProperties
  <2>2. QED
    BY <2>1
<1>2. t.index \in Nat /\ \A k \in 1..n : s[k].index \in Nat
  <2>1. \A u \in Entries : u.index \in Nat
    BY MetaListAssumption DEF Entries
  <2>2. QED
    BY <1>1, <2>1
<1>3. S \in SUBSET Nat /\ c + 1 \in S
  <2>1. S \in SUBSET Nat
    BY <1>1
  <2>2. ASSUME c < n
        PROVE  c + 1 \in S
    <3>1. c + 1 \in 1..n
      BY <1>1, <2>2
    <3>2. QED
      BY <2>2, <3>1
  <2>3. c = n => c + 1 \in S
    OBVIOUS
  <2>4. c = n \/ c < n
    BY <1>1
  <2>5. QED
    BY <2>1, <2>2, <2>3, <2>4
<1>4. \A k \in S : c + 1 <= k
  <2> TAKE k \in S
  <2>1. CASE k = n + 1
    BY <1>1, <2>1
  <2>2. CASE k \in 1..n /\ s[k].index >= t.index
    <3>1. k <= c => s[k].index < t.index
      BY <2>2
    <3>2. t.index \in Nat /\ s[k].index \in Nat
      BY <1>2, <2>2
    <3>3. ~(k <= c)
      BY <2>2, <3>1, <3>2
    <3>4. QED
      BY <1>1, <2>2, <3>3
  <2>3. QED
    BY <2>1, <2>2
<1>5. Abstract!Place(s, t) = Abstract!Min(S)
  BY DEF Abstract!Place
<1> HIDE DEF S
<1>6. Abstract!Min(S) = c + 1
  <2>1. Abstract!Min(S) = Min(S)
    BY DEF Abstract!Min, Min
  <2>2. Min(S) \in S /\ \A k \in S : Min(S) <= k
    BY <1>3, Least
  <2>3. Min(S) <= c + 1 /\ c + 1 <= Min(S) /\ Min(S) \in Nat
    BY <1>3, <1>4, <2>2
  <2>4. QED
    BY <1>1, <2>1, <2>3
<1>7. Abstract!InsertTable(s, t) = SubSeq(s, 1, (c + 1) - 1) \o <<t>> \o SubSeq(s, c + 1, n)
  BY <1>5, <1>6 DEF Abstract!InsertTable, Abstract!InsertAt
<1> DEFINE a == SubSeq(s, 1, c)
           b == SubSeq(s, c + 1, n)
<1>8. (c + 1) - 1 = c
  BY <1>1
<1>9. a \in Seq(Entries) /\ Len(a) = c /\ \A k \in 1..c : a[k] = s[k]
  <2>1. \A k \in 1..c : k \in 1..n
    BY <1>1
  <2>2. QED
    BY <1>1, <2>1
<1>10. b \in Seq(Entries) /\ Len(b) = n - c /\ \A k \in 1..(n - c) : b[k] = s[k + c]
  BY <1>1
<1> HIDE DEF a, b
<1>11. <<t>> \in Seq(Entries) /\ Len(<<t>>) = 1 /\ <<t>>[1] = t
  OBVIOUS
<1> DEFINE d == a \o <<t>>
<1>12. d \in Seq(Entries) /\ Len(d) = c + 1 /\ \A k \in 1..(c + 1) : d[k] = IF k <= c THEN s[k] ELSE t
  <2>1. \A k \in 1..(c + 1) : k <= c => k \in 1..c
    BY <1>1
  <2>2. \A k \in 1..(c + 1) : ~(k <= c) => k - c = 1
    BY <1>1
  <2>3. d \in Seq(Entries) /\ Len(d) = c + 1
        /\ \A k \in 1..(c + 1) : d[k] = IF k <= c THEN a[k] ELSE <<t>>[k - c]
    BY <1>1, <1>9, <1>11, ConcatProperties
  <2>4. QED
    BY <1>9, <1>11, <2>1, <2>2, <2>3
<1> HIDE DEF d
<1> DEFINE e == d \o b
<1>13. e \in Seq(Entries) /\ Len(e) = n + 1
       /\ \A k \in 1..(n + 1) : e[k] = IF k <= c + 1 THEN d[k] ELSE b[k - (c + 1)]
  <2>1. Len(d) + Len(b) = n + 1 /\ Len(d) = c + 1
    BY <1>1, <1>10, <1>12
  <2>2. /\ e \in Seq(Entries) /\ Len(e) = Len(d) + Len(b)
        /\ \A k \in 1..(Len(d) + Len(b)) :
             e[k] = IF k <= Len(d) THEN d[k] ELSE b[k - Len(d)]
    BY <1>10, <1>12, ConcatProperties
  <2>3. QED
    BY <2>1, <2>2
<1> HIDE DEF e
<1>14. \A k \in 1..(n + 1) :
         e[k] = IF k <= c THEN s[k] ELSE IF k = c + 1 THEN t ELSE s[k - 1]
  <2> TAKE k \in 1..(n + 1)
  <2>1. CASE k <= c + 1
    <3>1. k \in 1..(c + 1) /\ (~(k <= c) => k = c + 1)
      BY <1>1, <2>1
    <3>2. QED
      BY <1>12, <1>13, <2>1, <3>1
  <2>2. CASE ~(k <= c + 1)
    <3>1. /\ ~(k <= c) /\ k # c + 1
          /\ k - (c + 1) \in 1..(n - c) /\ (k - (c + 1)) + c = k - 1
      BY <1>1, <2>2
    <3>2. QED
      BY <1>10, <1>13, <2>2, <3>1
  <2>3. QED
    BY <2>1, <2>2
<1>15. e = [k \in 1..(n + 1) |-> e[k]]
  BY <1>13, LenProperties
<1>16. Abstract!InsertTable(s, t) = e
  BY <1>7, <1>8 DEF a, b, d, e
<1>17. QED
  BY <1>14, <1>15, <1>16 DEF Added

\* What ListedIs says of the next state.
LEMMA ListedIsNext ==
  TypeInv' => \A n \in 0..N : \A p \in [1..n -> Slots] :
    Chain(n, p)' => /\ Listed' = [k \in 1..n |-> [index |-> node'[p[k]].index,
                                                  filename |-> node'[p[k]].filename]]
                    /\ Listed' \in Seq(Entries)
                    /\ Len(Listed') = n
<1>1. (TypeInv => \A n \in 0..N : \A p \in [1..n -> Slots] :
         Chain(n, p) => /\ Listed = [k \in 1..n |-> Table(p[k])]
                        /\ Listed \in Seq(Entries)
                        /\ Len(Listed) = n)'
  BY ListedIs, PTL
<1>2. QED
  BY <1>1 DEF Table

\* insert_node is the Insert of TableList.
LEMMA InsertIs ==
  ASSUME ChainInv, NEW index \in Indexes, NEW filename \in Filenames,
         insert_node(index, filename)
  PROVE  Abstract!Next
<1> DEFINE t == [index |-> index, filename |-> filename]
           s == Listed
<1>1. PICK n \in 0..N : \E p \in [1..n -> Slots] : Chain(n, p)
  BY DEF ChainInv
<1>2. PICK p \in [1..n -> Slots] : Chain(n, p)
  BY <1>1
<1>3. TypeInv
  BY DEF ChainInv
<1>4. /\ TypeInv'
      /\ n < N
      /\ \E i \in Slots : \E c \in 0..n :
           /\ Stops(n, p, index, c)
           /\ \A k \in 1..n : p[k] # i
           /\ Spliced(n, p, c, i, index, filename)
           /\ Chain(n + 1, Added(n, p, c, i))'
  BY <1>2, <1>3, InsertChain
<1>5. PICK i \in Slots, c \in 0..n :
         /\ Stops(n, p, index, c)
         /\ \A k \in 1..n : p[k] # i
         /\ Spliced(n, p, c, i, index, filename)
         /\ Chain(n + 1, Added(n, p, c, i))'
  BY <1>4
<1>6. n \in Nat /\ N \in Nat /\ c \in Nat /\ c <= n /\ n + 1 \in 0..N
  BY <1>4, MetaListAssumption DEF N
<1>7. /\ s = [k \in 1..n |-> Table(p[k])]
      /\ s \in Seq(Entries)
      /\ Len(s) = n
  BY <1>2, <1>3, ListedIs
<1>8. t \in Entries
  BY DEF Entries
<1> DEFINE q == Added(n, p, c, i)
<1>9. q \in [1..(n + 1) -> Slots]
  BY <1>5 DEF Chain
<1>10. s' = [k \in 1..(n + 1) |-> [index |-> node'[q[k]].index, filename |-> node'[q[k]].filename]]
  <2>1. Chain(n + 1, q)'
    BY <1>5
  <2> HIDE DEF q
  <2>2. QED
    BY <1>4, <1>6, <1>9, <2>1, ListedIsNext
<1>11. \A k \in 1..n : s[k].index = node[p[k]].index
  BY <1>7 DEF Table
<1>12. \A k \in 1..n : k <= c => s[k].index < t.index
  BY <1>5, <1>11 DEF Stops
<1>13. c < n => s[c + 1].index >= t.index
  <2> SUFFICES ASSUME c < n
               PROVE  s[c + 1].index >= t.index
    OBVIOUS
  <2>1. c + 1 \in 1..n
    BY <1>6
  <2>2. QED
    BY <1>5, <1>11, <2>1 DEF Stops
<1>14. Abstract!InsertTable(s, t) = Added(n, s, c, t)
  <2> HIDE DEF s, t
  <2>1. QED
    BY <1>6, <1>7, <1>8, <1>12, <1>13, InsertedIs
<1>15. ASSUME NEW k \in 1..(n + 1)
       PROVE  [index |-> node'[q[k]].index, filename |-> node'[q[k]].filename]
                = IF k <= c THEN s[k] ELSE IF k = c + 1 THEN t ELSE s[k - 1]
  <2>1. /\ node'[i].index = index /\ node'[i].filename = filename
        /\ \A x \in Slots \ {i} :
             node'[x].index = node[x].index /\ node'[x].filename = node[x].filename
    BY <1>5 DEF Spliced
  <2>2. \A l \in 1..n : p[l] \in Slots \ {i}
    BY <1>5
  <2>3. \A l \in 1..n : s[l] = [index |-> node'[p[l]].index, filename |-> node'[p[l]].filename]
    BY <1>7, <2>1, <2>2 DEF Table
  <2> HIDE DEF s
  <2>4. CASE k <= c
    <3>1. k \in 1..n /\ q[k] = p[k]
      BY <1>6, <2>4 DEF Added
    <3>2. QED
      BY <2>3, <2>4, <3>1
  <2>5. CASE k = c + 1
    <3>1. ~(k <= c) /\ q[k] = i
      BY <1>6, <2>5 DEF Added
    <3>2. QED
      BY <2>1, <2>5, <3>1
  <2>6. CASE ~(k <= c) /\ k # c + 1
    <3>1. k - 1 \in 1..n /\ q[k] = p[k - 1]
      BY <1>6, <2>6 DEF Added
    <3>2. QED
      BY <2>3, <2>6, <3>1
  <2>7. QED
    BY <2>4, <2>5, <2>6
<1>16. s' = Abstract!InsertTable(s, t)
  <2> HIDE DEF s, t, q
  <2>1. QED
    BY <1>10, <1>14, <1>15 DEF Added
<1>17. Abstract!Insert(t)
  BY <1>4, <1>7, <1>16 DEF Abstract!Insert, N
<1>18. QED
  BY <1>8, <1>17 DEF Abstract!Next, Entries

\* popleft is the PopLeft of TableList.
LEMMA PopIs ==
  ASSUME ChainInv, popleft
  PROVE  Abstract!Next
<1> DEFINE s == Listed
<1>1. PICK n \in 0..N : \E p \in [1..n -> Slots] : Chain(n, p)
  BY DEF ChainInv
<1>2. PICK p \in [1..n -> Slots] : Chain(n, p)
  BY <1>1
<1>3. TypeInv
  BY DEF ChainInv
<1>4. /\ TypeInv' /\ n # 0
      /\ Chain(n - 1, Popped(n, p))'
      /\ \A k \in 1..n : k # 1 => /\ node'[p[k]].index = node[p[k]].index
                                  /\ node'[p[k]].filename = node[p[k]].filename
  BY <1>2, <1>3, PopChain
<1>5. n \in Nat /\ N \in Nat /\ n - 1 \in 0..N
  BY <1>4, MetaListAssumption DEF N
<1>6. /\ s = [k \in 1..n |-> Table(p[k])]
      /\ s \in Seq(Entries)
      /\ Len(s) = n
  BY <1>2, <1>3, ListedIs
<1> DEFINE q == Popped(n, p)
<1>7. q \in [1..(n - 1) -> Slots]
  BY <1>4 DEF Chain
<1>8. /\ s' = [k \in 1..(n - 1) |-> [index |-> node'[q[k]].index, filename |-> node'[q[k]].filename]]
      /\ s' \in Seq(Entries)
      /\ Len(s') = n - 1
  <2>1. Chain(n - 1, q)'
    BY <1>4
  <2> HIDE DEF q
  <2>2. QED
    BY <1>4, <1>5, <1>7, <2>1, ListedIsNext
<1>9. \A k \in 1..(n - 1) : s'[k] = s[k + 1]
  <2> TAKE k \in 1..(n - 1)
  <2>1. k + 1 \in 1..n /\ k + 1 # 1 /\ q[k] = p[k + 1]
    BY <1>5 DEF Popped
  <2>2. s[k + 1] = [index |-> node'[p[k + 1]].index, filename |-> node'[p[k + 1]].filename]
    BY <1>4, <1>6, <2>1 DEF Table
  <2> HIDE DEF s, q
  <2>3. QED
    BY <1>8, <2>1, <2>2
<1>10. s # <<>>
  <2>1. Len(<<>>) = 0
    OBVIOUS
  <2>2. QED
    BY <1>4, <1>6, <2>1
<1> HIDE DEF s
<1>11. /\ Tail(s) \in Seq(Entries) /\ Len(Tail(s)) = n - 1
       /\ \A k \in 1..(n - 1) : Tail(s)[k] = s[k + 1]
  BY <1>6, <1>10, HeadTailProperties
<1>12. s' = Tail(s)
  BY <1>8, <1>9, <1>11, SeqEqual
<1>13. QED
  BY <1>10, <1>12 DEF s, Abstract!PopLeft, Abstract!Next

\* For any number of nodes and any indexes, also equal ones and with no node left, the
\* linked nodes are a sorted sequence: insert_node inserts into it before the first
\* table whose index is not smaller, and popleft takes its head.
THEOREM ListIsSequence == ListSpec => ImplementsTableList
<1>1. ListInit => Abstract!Init
  <2> SUFFICES ASSUME ListInit
               PROVE  Abstract!Init
    OBVIOUS
  <2>1. TypeInv /\ Chain(0, <<>>)
    BY EmptyChain DEF ChainInv
  <2>2. 0 \in 0..N /\ <<>> \in [1..0 -> Slots]
    BY <2>1 DEF Chain
  <2>3. Len(Listed) = 0 /\ Listed \in Seq(Entries)
    BY <2>1, <2>2, ListedIs
  <2>4. Listed = <<>>
    BY <2>3, EmptySeq
  <2>5. QED
    BY <2>4 DEF Abstract!Init
<1>2. ASSUME ChainInv, [ListNext]_listVars
      PROVE  [Abstract!Next]_Listed
  <2>1. CASE popleft
    BY <1>2, <2>1, PopIs
  <2>2. ASSUME NEW index \in Indexes, NEW filename \in Filenames, insert_node(index, filename)
        PROVE  Abstract!Next
    BY <1>2, <2>2, InsertIs
  <2>3. CASE UNCHANGED listVars
    <3>1. PICK n \in 0..N : \E p \in [1..n -> Slots] : Chain(n, p)
      BY <1>2 DEF ChainInv
    <3>2. PICK p \in [1..n -> Slots] : Chain(n, p)
      BY <3>1
    <3>3. TypeInv' /\ Chain(n, p)'
      BY <1>2, <2>3, <3>2 DEF listVars, ChainInv, TypeInv, Chain, Linked, Uses, Ordered
    <3>4. Listed = [k \in 1..n |-> Table(p[k])]
      BY <1>2, <3>2, ListedIs DEF ChainInv
    <3>5. Listed' = [k \in 1..n |-> [index |-> node'[p[k]].index,
                                     filename |-> node'[p[k]].filename]]
      BY <3>3, ListedIsNext
    <3>6. Listed' = Listed
      BY <2>3, <3>4, <3>5 DEF listVars, Table
    <3>7. QED
      BY <3>6
  <2>4. QED
    BY <1>2, <2>1, <2>2, <2>3 DEF ListNext
<1>3. QED
  BY <1>1, <1>2, ChainAlways, PTL DEF ListSpec, ImplementsTableList, Abstract!Spec

=============================================================================
