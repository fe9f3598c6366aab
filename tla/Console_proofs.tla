--------------------------- MODULE Console_proofs ---------------------------
(***************************************************************************)
(* What is proved about the editors and the displays of hw1, for every set *)
(* of buttons, every length of a value and any number of pairs: the key    *)
(* holds what was typed, the displays tell the truth about it, what is     *)
(* printed fits in a line of the LCD up to an index of 99, and a button    *)
(* shows its own letters.                                                  *)
(***************************************************************************)
EXTENDS Console, TLAPS, FiniteSetTheorems, SequenceTheorems, WellFoundedInduction

----------------------------------------------------------------------------
(* The displays.                                                           *)

\* DisplaysTellTruth is inductive together with the values of the modes.
DisplayInv ==
  /\ mode \in {"PUT", "GET", "MERGE"}
  /\ put_input_mode \in {"KEY", "VALUE"}
  /\ DisplaysTellTruth

\* VOL_UP and VOL_DOWN lead from mode to mode.
LEMMA ModesAround ==
  ASSUME mode \in {"PUT", "GET", "MERGE"}, mode' \in {Up[mode], Down[mode]}
  PROVE  mode' \in {"PUT", "GET", "MERGE"}
  BY DEF Up, Down

\* Every input keeps DisplayInv.
LEMMA DisplayStep ==
  ASSUME DisplayInv, [Next]_vars
  PROVE  DisplayInv'
<1> USE DEF DisplayInv, DisplaysTellTruth, FndFollowsKey, LedTellsEditor,
            Led1, Led34, Led5, Led78
<1>1. CASE ChangeMode
  <2>1. mode' \in {"PUT", "GET", "MERGE"}
    BY <1>1, ModesAround DEF ChangeMode
  <2>2. key' = INITIAL_KEY /\ put_input_mode' = "KEY"
    BY <1>1 DEF ChangeMode, InitState
  <2>3. mode' = "PUT" => led' = Led1
    BY <1>1 DEF ChangeMode, ModeLed
  <2>4. QED
    BY <2>1, <2>2, <2>3
<1>2. CASE PutReset
  BY <1>2 DEF PutReset
<1>3. CASE PutClear
  BY <1>3 DEF PutClear, InitState
<1>4. CASE PutSubmit
  BY <1>4 DEF PutSubmit
<1>5. CASE GetOther
  BY <1>5 DEF GetOther
<1>6. CASE GetSubmit
  BY <1>6 DEF GetSubmit
<1>7. CASE MergeReset
  BY <1>7 DEF MergeReset
<1>8. ASSUME NEW b \in Buttons, PutDigit(b)
      PROVE  DisplayInv'
  BY <1>8 DEF PutDigit, FndAfter
<1>9. ASSUME NEW b \in Buttons, PutCharacter(b)
      PROVE  DisplayInv'
  BY <1>9 DEF PutCharacter
<1>10. ASSUME NEW b \in Buttons, GetDigit(b)
       PROVE  DisplayInv'
  BY <1>10 DEF GetDigit, FndAfter
<1>11. CASE UNCHANGED vars
  BY <1>11 DEF vars
<1>12. QED
  BY <1>1, <1>2, <1>3, <1>4, <1>5, <1>6, <1>7, <1>8, <1>9, <1>10, <1>11 DEF Next

\* Whatever is typed, cleared, submitted and in whichever order the modes are
\* changed: the FND shows the key, or the one before a change of mode, and the LEDs
\* tell which of key and value is being edited.
THEOREM DisplaysAreTrue == Spec => []DisplaysTellTruth
<1>1. Init => DisplayInv
  BY DEF Init, DisplayInv, DisplaysTellTruth, FndFollowsKey, LedTellsEditor,
         Led1, Led34, Led5, Led78
<1>2. DisplayInv /\ [Next]_vars => DisplayInv'
  BY DisplayStep
<1>3. DisplayInv => DisplaysTellTruth
  BY DEF DisplayInv
<1>4. QED
  BY <1>1, <1>2, <1>3, PTL DEF Spec

----------------------------------------------------------------------------
(* The key.                                                                *)

\* The position of the digit typed i-th last, for a cursor.
Before(cursor, i) == ((cursor - i + 4) % 4) + 1

\* The digits typed stand before the cursor and the rest of the key is 0.
KeyTypes ==
  /\ key \in [1..4 -> 0..9] /\ next_index \in 0..4
  /\ typed \in Seq(1..9) /\ Len(typed) <= 4
Placed ==
  /\ \A i \in 1..Len(typed) : key[Before(next_index, i)] = typed[Len(typed) - i + 1]
  /\ \A i \in 1..4 : i > Len(typed) => key[Before(next_index, i)] = 0
KeyInv == KeyTypes /\ Placed

\* The four positions before a cursor are all there are.
LEMMA Around ==
  ASSUME NEW c \in 0..4
  PROVE  /\ \A i \in 1..4 : Before(c, i) \in 1..4
         /\ \A i, j \in 1..4 : Before(c, i) = Before(c, j) => i = j
         /\ \A p \in 1..4 : \E i \in 1..4 : p = Before(c, i)
<1>1. c = 0 \/ c = 1 \/ c = 2 \/ c = 3 \/ c = 4
  OBVIOUS
<1>2. /\ \A i \in 1..4 : Before(c, i) \in 1..4
      /\ \A i, j \in 1..4 : Before(c, i) = Before(c, j) => i = j
  BY DEF Before
<1>3. ASSUME NEW p \in 1..4
      PROVE  \E i \in 1..4 : p = Before(c, i)
  <2>1. ((c - p + 4) % 4) + 1 \in 1..4
    OBVIOUS
  <2>2. p = Before(c, ((c - p + 4) % 4) + 1)
    BY <1>1 DEF Before
  <2>3. QED
    BY <2>1, <2>2
<1>4. QED
  BY <1>2, <1>3

\* Where the cursor moves on, what was i-th last is one further behind.
LEMMA CursorMoves ==
  ASSUME NEW c \in 0..4
  PROVE  /\ Cursor(c) \in 0..3
         /\ Before(Cursor(c) + 1, 1) = Cursor(c) + 1
         /\ \A i \in 1..3 : /\ Before(Cursor(c) + 1, i + 1) = Before(c, i)
                            /\ Before(c, i) # Cursor(c) + 1
<1>1. c = 0 \/ c = 1 \/ c = 2 \/ c = 3 \/ c = 4
  OBVIOUS
<1>2. QED
  BY <1>1 DEF Cursor, Before

\* add_char_and_update writes the digit at the cursor, over the oldest of four.
LEMMA AfterDigit ==
  ASSUME NEW d \in 1..9, KeyInv, add_char_and_update(d)
  PROVE  KeyInv'
<1> DEFINE c == Cursor(next_index)
           n == Len(typed)
           old == IF n = 4 THEN Tail(typed) ELSE typed
<1>1. /\ key' = [key EXCEPT ![c + 1] = d] /\ next_index' = c + 1
      /\ typed' = Append(old, d)
  BY DEF add_char_and_update
<1>2. n \in 0..4 /\ typed \in Seq(1..9)
  <2>1. typed \in Seq(1..9) /\ Len(typed) <= 4
    BY DEF KeyInv, KeyTypes
  <2>2. Len(typed) \in Nat
    BY <2>1, LenProperties
  <2>3. \A x \in Nat : x <= 4 => x \in 0..4
    OBVIOUS
  <2>4. QED
    BY <2>1, <2>2, <2>3, Zenon
<1>3. /\ old \in Seq(1..9) /\ Len(old) = IF n = 4 THEN 3 ELSE n
      /\ \A i \in 1..Len(old) : old[Len(old) - i + 1] = typed[n - i + 1]
  <2>1. CASE n = 4
    <3>0. typed # <<>>
      BY <2>1, EmptySeq
    <3>1. Len(Tail(typed)) = 3 /\ Tail(typed) \in Seq(1..9)
      BY <1>2, <2>1, <3>0, HeadTailProperties
    <3>2. \A j \in 1..3 : Tail(typed)[j] = typed[j + 1]
      BY <1>2, <3>0, <3>1, HeadTailProperties
    <3>3. \A i \in 1..3 : 3 - i + 1 \in 1..3 /\ (3 - i + 1) + 1 = 4 - i + 1
      OBVIOUS
    <3>4. ASSUME NEW i \in 1..3
          PROVE  Tail(typed)[3 - i + 1] = typed[4 - i + 1]
      <4>1. 3 - i + 1 \in 1..3 /\ (3 - i + 1) + 1 = 4 - i + 1
        BY <3>3
      <4>2. Tail(typed)[3 - i + 1] = typed[(3 - i + 1) + 1]
        BY <3>2, <4>1, Zenon
      <4>3. QED
        BY <4>1, <4>2, Zenon
    <3>5. old = Tail(typed)
      BY <2>1
    <3> HIDE DEF old
    <3>6. Len(old) = 3 /\ old \in Seq(1..9)
      BY <3>1, <3>5
    <3>7. \A i \in 1..3 : old[3 - i + 1] = typed[n - i + 1]
      BY <2>1, <3>4, <3>5
    <3>8. QED
      BY <2>1, <3>6, <3>7
  <2>2. CASE n # 4
    BY <1>2, <2>2
  <2>3. QED
    BY <2>1, <2>2
<1> DEFINE m == Len(old)
<1>4. /\ typed' \in Seq(1..9) /\ Len(typed') = m + 1 /\ m \in 0..3
      /\ typed'[m + 1] = d /\ \A i \in 1..m : typed'[i] = old[i]
  BY <1>1, <1>2, <1>3
<1>5. /\ c \in 0..3 /\ Before(c + 1, 1) = c + 1
      /\ \A i \in 1..3 : /\ Before(c + 1, i + 1) = Before(next_index, i)
                         /\ Before(next_index, i) # c + 1
  BY CursorMoves DEF KeyInv, KeyTypes
<1>6. /\ \A i \in 1..4 : Before(next_index, i) \in 1..4
  BY Around DEF KeyInv, KeyTypes
<1>7. KeyTypes'
  <2>1. key' \in [1..4 -> 0..9]
    BY <1>1, <1>5 DEF KeyInv, KeyTypes
  <2> HIDE DEF c, old, m
  <2>2. next_index' \in 0..4 /\ Len(typed') <= 4
    BY <1>1, <1>4, <1>5
  <2>3. QED
    BY <1>4, <2>1, <2>2 DEF KeyTypes
<1> HIDE DEF c, old
<1>8. /\ key'[Before(c + 1, 1)] = d
      /\ \A i \in 1..3 : key'[Before(c + 1, i + 1)] = key[Before(next_index, i)]
  BY <1>1, <1>5, <1>6 DEF KeyInv, KeyTypes
<1>9. ASSUME NEW i \in 1..(m + 1)
      PROVE  key'[Before(c + 1, i)] = typed'[(m + 1) - i + 1]
  <2>1. CASE i = 1
    <3>1. (m + 1) - i + 1 = m + 1
      BY <1>4, <2>1
    <3>2. QED
      BY <1>4, <1>8, <2>1, <3>1
  <2>2. CASE i # 1
    <3> DEFINE j == i - 1
    <3>1. /\ j \in 1..3 /\ j \in 1..m /\ i = j + 1
          /\ (m + 1) - i + 1 = m - j + 1 /\ m - j + 1 \in 1..m
      BY <1>4, <2>2
    <3> HIDE DEF j
    <3>2. key'[Before(c + 1, i)] = key[Before(next_index, j)]
      BY <1>8, <3>1
    <3>3. j \in 1..n
      BY <1>2, <1>3, <3>1
    <3>4. key[Before(next_index, j)] = typed[n - j + 1]
      BY <3>3 DEF KeyInv, Placed
    <3>5. typed'[(m + 1) - i + 1] = old[m - j + 1]
      BY <1>4, <3>1
    <3>6. QED
      BY <1>3, <3>1, <3>2, <3>4, <3>5
  <2>3. QED
    BY <2>1, <2>2
<1>10. ASSUME NEW i \in 1..4, i > m + 1
       PROVE  key'[Before(c + 1, i)] = 0
  <2> DEFINE j == i - 1
  <2>1. j \in 1..3 /\ i = j + 1 /\ j > n
    BY <1>2, <1>3, <1>4, <1>10
  <2> HIDE DEF j
  <2>2. key[Before(next_index, j)] = 0
    BY <2>1 DEF KeyInv, Placed
  <2>3. QED
    BY <1>8, <2>1, <2>2
<1>11. Placed'
  BY <1>1, <1>4, <1>9, <1>10 DEF Placed
<1>12. QED
  BY <1>7, <1>11 DEF KeyInv

\* Every input keeps KeyInv: two of them type a digit, two clear the key.
LEMMA KeyStep ==
  ASSUME KeyInv, [Next]_vars
  PROVE  KeyInv'
<1> DEFINE keyVars == <<key, next_index, typed>>
<1>1. ASSUME UNCHANGED keyVars
      PROVE  KeyInv'
  BY <1>1 DEF KeyInv, KeyTypes, Placed
<1>2. ASSUME InitState, UNCHANGED next_index
      PROVE  KeyInv'
  <2>1. key' = <<0, 0, 0, 0>> /\ typed' = <<>> /\ next_index' = next_index
    BY <1>2 DEF InitState, INITIAL_KEY
  <2>2. Len(typed') = 0 /\ typed' \in Seq(1..9)
    BY <2>1, EmptySeq
  <2>3. key' \in [1..4 -> 0..9] /\ \A p \in 1..4 : key'[p] = 0
    BY <2>1
  <2>4. KeyTypes'
    BY <2>1, <2>2, <2>3 DEF KeyInv, KeyTypes
  <2>5. Placed'
    BY <2>1, <2>2, <2>3, Around DEF KeyInv, KeyTypes, Placed
  <2>6. QED
    BY <2>4, <2>5 DEF KeyInv
<1>3. ASSUME NEW b \in Buttons, add_char_and_update(b)
      PROVE  KeyInv'
  BY <1>3, AfterDigit, ConsoleAssumption
<1>4. CASE ChangeMode
  BY <1>2, <1>4 DEF ChangeMode, editor
<1>5. CASE PutReset
  BY <1>1, <1>5 DEF PutReset, editor
<1>6. CASE PutClear
  BY <1>2, <1>6 DEF PutClear, editor
<1>7. CASE PutSubmit
  BY <1>1, <1>7 DEF PutSubmit, editor
<1>8. CASE GetOther
  BY <1>1, <1>8 DEF GetOther, editor
<1>9. CASE GetSubmit
  BY <1>1, <1>9 DEF GetSubmit, editor
<1>10. CASE MergeReset
  BY <1>1, <1>10 DEF MergeReset, editor
<1>11. ASSUME NEW b \in Buttons, PutDigit(b)
       PROVE  KeyInv'
  BY <1>3, <1>11 DEF PutDigit
<1>12. ASSUME NEW b \in Buttons, PutCharacter(b)
       PROVE  KeyInv'
  BY <1>1, <1>12 DEF PutCharacter
<1>13. ASSUME NEW b \in Buttons, GetDigit(b)
       PROVE  KeyInv'
  BY <1>3, <1>13 DEF GetDigit
<1>14. CASE UNCHANGED vars
  BY <1>1, <1>14 DEF vars
<1>15. QED
  BY <1>4, <1>5, <1>6, <1>7, <1>8, <1>9, <1>10, <1>11, <1>12, <1>13, <1>14 DEF Next

\* In the states of KeyInv the key has as many digits that are not 0 as were typed.
LEMMA AsManyAsTyped ==
  ASSUME KeyInv
  PROVE  Cardinality({p \in 1..4 : key[p] # 0}) = Len(typed)
<1> DEFINE n == Len(typed)
           T == {p \in 1..4 : key[p] # 0}
           f == [i \in 1..n |-> Before(next_index, i)]
<1>1. n \in Nat /\ n <= 4 /\ \A i \in 1..n : typed[i] \in 1..9
  BY LenProperties, ElementOfSeq DEF KeyInv, KeyTypes
<1>2. \A i \in 1..n : i \in 1..4 /\ n - i + 1 \in 1..n
  BY <1>1
<1>3. \A i \in 1..n : Before(next_index, i) \in T
  <2> TAKE i \in 1..n
  <2>1. Before(next_index, i) \in 1..4
    BY <1>2, Around DEF KeyInv, KeyTypes
  <2>2. key[Before(next_index, i)] = typed[n - i + 1] /\ typed[n - i + 1] \in 1..9
    BY <1>1, <1>2 DEF KeyInv, Placed
  <2>3. QED
    BY <2>1, <2>2
<1>4. \A p \in T : \E i \in 1..n : Before(next_index, i) = p
  <2> TAKE p \in T
  <2>1. PICK i \in 1..4 : p = Before(next_index, i)
    BY Around DEF KeyInv, KeyTypes
  <2>2. ~(i > n)
    BY <2>1 DEF KeyInv, Placed
  <2>3. i \in 1..n
    BY <1>1, <2>2
  <2>4. QED
    BY <2>1, <2>3
<1>5. \A i, j \in 1..n : Before(next_index, i) = Before(next_index, j) => i = j
  BY <1>2, Around DEF KeyInv, KeyTypes
<1>6. f \in Bijection(1..n, T)
  BY <1>3, <1>4, <1>5, Zenon DEF Bijection, Injection, Surjection, IsInjective
<1>7. ExistsBijection(1..n, T)
  BY <1>6 DEF ExistsBijection
<1>8. IsFiniteSet(1..n) /\ Cardinality(1..n) = n
  <2>1. 1 \in Int /\ n \in Int /\ n = IF 1 > n THEN 0 ELSE n - 1 + 1
    BY <1>1
  <2>2. IsFiniteSet(1..n) /\ Cardinality(1..n) = IF 1 > n THEN 0 ELSE n - 1 + 1
    BY <2>1, FS_Interval, Zenon
  <2>3. QED
    BY <2>1, <2>2, Zenon
<1>9. QED
  BY <1>7, <1>8, FS_Bijection

\* At the start nothing is typed.
LEMMA KeyInit ==
  ASSUME Init
  PROVE  KeyInv
<1>1. key = <<0, 0, 0, 0>> /\ typed = <<>> /\ next_index = 0
  BY DEF Init, INITIAL_KEY
<1>2. Len(typed) = 0 /\ typed \in Seq(1..9)
  BY <1>1, EmptySeq
<1>3. key \in [1..4 -> 0..9] /\ \A p \in 1..4 : key[p] = 0
  BY <1>1
<1>4. QED
  BY <1>1, <1>2, <1>3, Around DEF KeyInv, KeyTypes, Placed

\* Whatever is typed and cleared, in both modes, with a cursor that outlives the key:
\* the key holds the last four digits typed, in their order around the end.
THEOREM KeyIsTyped == Spec => []KeyHoldsTyped
<1>1. Init => KeyInv
  BY KeyInit
<1>2. KeyInv /\ [Next]_vars => KeyInv'
  BY KeyStep
<1>3. KeyInv => KeyHoldsTyped
  BY AsManyAsTyped DEF KeyInv, Placed, KeyHoldsTyped, Before
<1>4. QED
  BY <1>1, <1>2, <1>3, PTL DEF Spec

----------------------------------------------------------------------------
(* The lines of the LCD.                                                   *)

\* The numbers of at most two, three and four digits.
Below(e) == {n \in Nat : n < CASE e = 2 -> 100 [] e = 3 -> 1000 [] e = 4 -> 10000}

\* They have no more digits when they are printed.
LEMMA AtMost ==
  ASSUME NEW e \in 2..4, NEW n \in Below(e)
  PROVE  Digits(n) \in Nat /\ Digits(n) <= e
<1> DEFINE N == {d \in 0..9 : n >= 10 ^ d}
           R == 0..(e - 1)
           P(d) == 10 ^ d
<1>1. IsFiniteSet(R) /\ Cardinality(R) = e
  <2> DEFINE a == 0
             b == e - 1
  <2>1. a \in Int /\ b \in Int /\ ~(a > b) /\ b - a + 1 = e
    OBVIOUS
  <2> HIDE DEF a, b
  <2>2. IsFiniteSet(a..b) /\ Cardinality(a..b) = IF a > b THEN 0 ELSE b - a + 1
    BY <2>1, FS_Interval
  <2>3. IsFiniteSet(a..b) /\ Cardinality(a..b) = e
    BY <2>1, <2>2
  <2>4. QED
    BY <2>3 DEF a, b
<1>2. /\ P(0) = 1 /\ P(1) = 10 /\ P(2) = 100 /\ P(3) = 1000 /\ P(4) = 10000
      /\ P(5) = 100000 /\ P(6) = 1000000 /\ P(7) = 10000000
      /\ P(8) = 100000000 /\ P(9) = 1000000000
  BY SMT
<1>3. N = {d \in 0..9 : n >= P(d)}
  OBVIOUS
<1> HIDE DEF P, N
<1> DEFINE big == CASE e = 2 -> 100 [] e = 3 -> 1000 [] e = 4 -> 10000
<1>4. ASSUME NEW d \in 0..9
      PROVE  P(d) \in Nat /\ P(d) > 0 /\ (d >= e => P(d) >= big)
  <2>1. d = 0 \/ d = 1 \/ d = 2 \/ d = 3 \/ d = 4 \/ d = 5 \/ d = 6 \/ d = 7 \/ d = 8 \/ d = 9
    BY SMT
  <2>2. QED
    BY <1>2, <2>1, SMT
<1>n. big \in Nat /\ \A p \in Nat : p >= big => ~(n >= p)
  BY SMT DEF Below
<1> HIDE DEF big
<1>5. N \subseteq R
  <2>1. ASSUME NEW d \in 0..9, n >= P(d)
        PROVE  d \in R
    <3>1. P(d) \in Nat /\ (d >= e => P(d) >= big)
      BY <1>4
    <3>2. ~(d >= e)
      BY <1>n, <2>1, <3>1, Zenon
    <3>3. QED
      BY <3>2, SMT
  <2>2. QED
    BY <1>3, <2>1
<1> HIDE DEF R
<1>6. Cardinality(N) \in Nat /\ Cardinality(N) <= e
  <2>1. IsFiniteSet(N) /\ Cardinality(N) <= Cardinality(R)
    BY <1>1, <1>5, FS_Subset
  <2>2. Cardinality(N) \in Nat
    BY <2>1, FS_CardinalityType
  <2>3. QED
    BY <1>1, <2>1, <2>2
<1>7. CASE n = 0
  <2>1. N = {}
    <3>1. ASSUME NEW d \in 0..9
          PROVE  ~(n >= P(d))
      <4>1. P(d) \in Nat /\ P(d) > 0
        BY <1>4
      <4>2. \A p \in Nat : p > 0 => ~(0 >= p)
        OBVIOUS
      <4>3. QED
        BY <1>7, <4>1, <4>2, Zenon
    <3>2. QED
      BY <1>3, <3>1
  <2>2. Cardinality(N) = 0
    BY <2>1, FS_EmptySet
  <2>3. QED
    BY <1>7, <2>2 DEF Digits, N
<1>8. CASE n # 0
  <2>1. Digits(n) = Cardinality(N) + 0
    BY <1>8 DEF Digits, N
  <2>2. QED
    BY <1>6, <2>1
<1>9. QED
  BY <1>7, <1>8

\* atoi of a key is such a number.
LEMMA KeyIsSmall ==
  ASSUME NEW k \in [1..4 -> 0..9]
  PROVE  KeyNumber(k) \in Below(4)
<1>1. k[1] \in 0..9 /\ k[2] \in 0..9 /\ k[3] \in 0..9 /\ k[4] \in 0..9
  BY SMT
<1>2. \A d \in 0..9 : d \in Nat /\ d <= 9
  BY SMT
<1> DEFINE Number(p, q, r, s) == 1000 * p + 100 * q + 10 * r + s
<1>3. \A p, q, r, s \in Nat :
        p <= 9 /\ q <= 9 /\ r <= 9 /\ s <= 9 => Number(p, q, r, s) \in Below(4)
  BY SMT DEF Below
<1>4. /\ k[1] \in Nat /\ k[2] \in Nat /\ k[3] \in Nat /\ k[4] \in Nat
      /\ k[1] <= 9 /\ k[2] <= 9 /\ k[3] <= 9 /\ k[4] <= 9
  BY <1>1, <1>2, Zenon
<1>5. KeyNumber(k) = Number(k[1], k[2], k[3], k[4])
  BY DEF KeyNumber
<1> HIDE DEF Number
<1>6. QED
  BY <1>3, <1>4, <1>5, SMT

\* A value is a sequence of some characters.
IsText(v) == \E S : v \in Seq(S)

\* The empty value, one more character and another character in the last place.
LEMMA TextOps ==
  ASSUME NEW v, IsText(v)
  PROVE  /\ Len(v) \in Nat
         /\ \A c : IsText(Append(v, c)) /\ Len(Append(v, c)) = Len(v) + 1
         /\ v # <<>> => \A c : /\ IsText([v EXCEPT ![Len(v)] = c])
                               /\ Len([v EXCEPT ![Len(v)] = c]) = Len(v)
<1>1. PICK S : v \in Seq(S)
  BY DEF IsText
<1>2. Len(v) \in Nat
  BY <1>1, LenProperties
<1>3. ASSUME NEW c
      PROVE  /\ IsText(Append(v, c)) /\ Len(Append(v, c)) = Len(v) + 1
             /\ v # <<>> => /\ IsText([v EXCEPT ![Len(v)] = c])
                            /\ Len([v EXCEPT ![Len(v)] = c]) = Len(v)
  <2> DEFINE T == S \cup {c}
  <2>1. v \in Seq(T) /\ c \in T
    BY <1>1, SeqMonotonic
  <2> HIDE DEF T
  <2>2. Append(v, c) \in Seq(T) /\ Len(Append(v, c)) = Len(v) + 1
    BY <2>1, AppendProperties
  <2>3. ASSUME v # <<>>
        PROVE  /\ [v EXCEPT ![Len(v)] = c] \in Seq(T)
               /\ Len([v EXCEPT ![Len(v)] = c]) = Len(v)
    <3>1. Len(v) # 0
      BY <2>1, <2>3, EmptySeq
    <3>2. Len(v) \in 1..Len(v)
      BY <1>2, <3>1
    <3>3. QED
      BY <2>1, <3>2, ExceptSeq
  <2>4. QED
    BY <2>2, <2>3 DEF IsText
<1>4. QED
  BY <1>2, <1>3

\* A text of MAX_LENGTH characters at most.
Short(v) == IsText(v) /\ Len(v) <= MAX_LENGTH

\* process_value keeps the value one.
LEMMA ShortStays ==
  ASSUME NEW b \in Buttons, Short(value), process_value(b)
  PROVE  Short(value')
<1>1. /\ Len(value) \in Nat
      /\ \A c : IsText(Append(value, c)) /\ Len(Append(value, c)) = Len(value) + 1
      /\ value # <<>> => \A c : /\ IsText([value EXCEPT ![Len(value)] = c])
                                /\ Len([value EXCEPT ![Len(value)] = c]) = Len(value)
  BY TextOps DEF Short
<1>2. ASSUME Fits(value), NEW c, value' = Append(value, c)
      PROVE  Short(value')
  <2>1. IsText(value') /\ Len(value') = Len(value) + 1
    BY <1>1, <1>2
  <2>2. Len(value) < MAX_LENGTH
    BY <1>2 DEF Fits
  <2>3. QED
    BY <1>1, <2>1, <2>2, ConsoleAssumption DEF Short
<1>3. ASSUME value' = value
      PROVE  Short(value')
  BY <1>3
<1>4. CASE ToggleNumMode
  BY <1>3, <1>4 DEF ToggleNumMode
<1>5. CASE TypeNumber(b)
  BY <1>2, <1>3, <1>5 DEF TypeNumber
<1>6. CASE Circulate(b)
  <2> DEFINE c == Row(b)[press_count' + 1]
  <2>1. value # <<>> /\ value' = [value EXCEPT ![Len(value)] = c]
    BY <1>6 DEF Circulate
  <2> HIDE DEF c
  <2>2. IsText(value') /\ Len(value') = Len(value)
    BY <1>1, <2>1
  <2>3. QED
    BY <2>2 DEF Short
<1>7. CASE NewCharacter(b)
  BY <1>2, <1>3, <1>7 DEF NewCharacter
<1>8. QED
  BY <1>4, <1>5, <1>6, <1>7 DEF process_value

\* The value is short, which process_value sees to, and the key has four digits.
LineInv == KeyInv /\ Short(value) /\ table_index \in Nat \ {0}

\* Room for a value and the 11 characters around it.
Room == LINE_BUFF >= MAX_LENGTH + 11

\* What a pair that is put, and one that is found, takes.
LEMMA PairsFit ==
  ASSUME Room, NEW i \in Nat \ {0}, NEW n \in Nat, n <= MAX_LENGTH
  PROVE  /\ i < 100 => 1 + Digits(i) + 2 + 4 + 1 + n + 1 <= LINE_BUFF
         /\ \A d \in Nat : i < 1000 /\ d <= 4 =>
              1 + Digits(i) + 1 + d + 1 + n + 1 <= LINE_BUFF
<1>1. MAX_LENGTH \in Nat /\ LINE_BUFF \in Nat
  BY ConsoleAssumption
<1>2. ASSUME i < 100
      PROVE  Digits(i) \in Nat /\ Digits(i) <= 2
  <2>1. 2 \in 2..4 /\ i \in Below(2)
    BY <1>2 DEF Below
  <2>2. QED
    BY <2>1, AtMost
<1>3. ASSUME i < 1000
      PROVE  Digits(i) \in Nat /\ Digits(i) <= 3
  <2>1. 3 \in 2..4 /\ i \in Below(3)
    BY <1>3 DEF Below
  <2>2. QED
    BY <2>1, AtMost
<1>4. QED
  BY <1>1, <1>2, <1>3 DEF Room

\* The empty text.
LEMMA EmptyText == Short(INITIAL_VALUE)
<1>1. <<>> \in Seq({}) /\ Len(<<>>) = 0
  BY EmptySeq
<1>2. QED
  BY <1>1, ConsoleAssumption DEF Short, IsText, INITIAL_VALUE

\* Every input keeps the value short and the key a key.
LEMMA LineStep ==
  ASSUME LineInv, [Next]_vars
  PROVE  LineInv'
<1>1. KeyInv'
  BY KeyStep DEF LineInv
<1>2. Short(value) /\ table_index \in Nat \ {0}
  BY DEF LineInv
<1>3. ASSUME value' = value \/ InitState, table_index' = table_index
      PROVE  LineInv'
  BY <1>1, <1>2, <1>3, EmptyText DEF InitState, LineInv
<1>4. CASE ChangeMode
  BY <1>3, <1>4 DEF ChangeMode
<1>5. CASE PutReset
  BY <1>3, <1>5 DEF PutReset
<1>6. CASE PutClear
  BY <1>3, <1>6 DEF PutClear
<1>7. CASE PutSubmit
  BY <1>1, <1>2, <1>7 DEF PutSubmit, LineInv
<1>8. CASE GetOther
  BY <1>3, <1>8 DEF GetOther
<1>9. CASE GetSubmit
  BY <1>3, <1>9 DEF GetSubmit
<1>10. CASE MergeReset
  BY <1>3, <1>10 DEF MergeReset
<1>11. ASSUME NEW b \in Buttons, PutDigit(b)
       PROVE  LineInv'
  BY <1>3, <1>11 DEF PutDigit
<1>12. ASSUME NEW b \in Buttons, PutCharacter(b)
       PROVE  LineInv'
  <2>1. Short(value')
    BY <1>2, <1>12, ShortStays DEF PutCharacter
  <2>2. QED
    BY <1>1, <1>2, <1>12, <2>1 DEF PutCharacter, LineInv, Short
<1>13. ASSUME NEW b \in Buttons, GetDigit(b)
       PROVE  LineInv'
  BY <1>3, <1>13 DEF GetDigit
<1>14. CASE UNCHANGED vars
  BY <1>3, <1>14 DEF vars
<1>15. QED
  BY <1>4, <1>5, <1>6, <1>7, <1>8, <1>9, <1>10, <1>11, <1>12, <1>13, <1>14 DEF Next

\* What a step prints: only the two lines with a pair can be too long.
LEMMA LineLengths ==
  ASSUME Room, LineInv, [Next]_vars, ~(line2' <= LINE_BUFF), line2' # line2
  PROVE  \/ PutSubmit /\ table_index >= 100
         \/ GetSubmit /\ MaxPuts >= 1000
<1>1. /\ LINE_BUFF \in Nat /\ MAX_LENGTH \in Nat /\ MaxPuts \in Nat
      /\ Short(value) /\ Len(value) \in Nat /\ table_index \in Nat \ {0}
  BY ConsoleAssumption, TextOps DEF LineInv, Short
<1>2. 0 <= LINE_BUFF /\ 5 <= LINE_BUFF /\ 8 <= LINE_BUFF
      /\ \A n \in Nat : n <= MAX_LENGTH => n <= LINE_BUFF
  BY <1>1 DEF Room
<1>3. line2' # 0
  BY <1>2
<1>4. CASE PutSubmit
  <2>1. line2' = 1 + Digits(table_index) + 2 + 4 + 1 + Len(value) + 1
    BY <1>4 DEF PutSubmit, PutLine
  <2>2. ~(table_index < 100)
    BY <1>1, <2>1, PairsFit DEF Short
  <2>3. QED
    BY <1>1, <1>4, <2>2
<1>5. CASE GetSubmit
  <2>1. PICK i \in 1..MaxPuts, n \in 1..MAX_LENGTH :
          line2' = 1 + Digits(i) + 1 + Digits(KeyNumber(key)) + 1 + n + 1
    BY <1>2, <1>5 DEF GetSubmit
  <2>2. Digits(KeyNumber(key)) \in Nat /\ Digits(KeyNumber(key)) <= 4
    <3>1. 4 \in 2..4 /\ KeyNumber(key) \in Below(4)
      BY KeyIsSmall DEF LineInv, KeyInv, KeyTypes
    <3>2. QED
      BY <3>1, AtMost
  <2>3. i \in Nat \ {0} /\ i <= MaxPuts /\ n \in Nat /\ n <= MAX_LENGTH
    BY <1>1
  <2>4. ~(i < 1000)
    BY <2>1, <2>2, <2>3, PairsFit
  <2>5. QED
    BY <1>1, <1>5, <2>3, <2>4
<1>6. CASE MergeReset
  <2>1. PICK d \in 1..FileDigits : line2' = d + 4
    BY <1>6 DEF MergeReset
  <2>2. line2' \in Nat /\ line2' <= 8
    BY <2>1 DEF FileDigits
  <2>3. QED
    BY <1>1, <1>2, <2>2
<1>7. ASSUME NEW b \in Buttons, PutDigit(b)
      PROVE  FALSE
  BY <1>1, <1>2, <1>7 DEF PutDigit, Short
<1>8. ASSUME NEW b \in Buttons, PutCharacter(b)
      PROVE  FALSE
  <2>1. Short(value') /\ line2' = Len(value')
    BY <1>1, <1>8, ShortStays DEF PutCharacter
  <2>2. Len(value') \in Nat /\ Len(value') <= MAX_LENGTH
    BY <2>1, TextOps DEF Short
  <2>3. QED
    BY <1>2, <2>1, <2>2
<1>9. ~ChangeMode /\ ~PutReset /\ ~PutClear /\ ~GetOther
  BY <1>3 DEF ChangeMode, PutReset, PutClear, GetOther
<1>10. ~\E b \in Buttons : GetDigit(b)
  BY <1>3 DEF GetDigit
<1>11. QED
  BY <1>4, <1>5, <1>6, <1>7, <1>8, <1>9, <1>10 DEF Next, vars

\* For any number of pairs: a line that is too long, which the assert in print_lcd
\* does not let pass, is that of a pair put with an index of 100 or more, or of a
\* pair found with one of 1000 or more (which takes as many pairs); all the rest fits
\* where a line has 11 characters more than a value.
THEOREM LinesOverrunFrom100 == ASSUME Room PROVE Spec => OverrunsFrom100
<1>1. Init => LineInv
  BY KeyInit, EmptyText DEF Init, LineInv
<1>2. LineInv /\ [Next]_vars => LineInv'
  BY LineStep
<1>3. LineInv /\ LineInv' /\ [Next]_vars =>
        [~LinesFit' /\ line2' # line2 =>
           \/ PutSubmit /\ table_index >= 100
           \/ GetSubmit /\ MaxPuts >= 1000]_vars
  <2> SUFFICES ASSUME LineInv, [Next]_vars, ~LinesFit', line2' # line2
               PROVE  \/ PutSubmit /\ table_index >= 100
                      \/ GetSubmit /\ MaxPuts >= 1000
    OBVIOUS
  <2>1. QED
    BY LineLengths DEF LinesFit
<1>4. QED
  BY <1>1, <1>2, <1>3, PTL DEF Spec, OverrunsFrom100

----------------------------------------------------------------------------
(* The letters.                                                            *)

\* The rows whose letters end with a NUL of their own.
Ended == {2, 3, 4, 5, 6, 8}

\* key_map, row by row.
LEMMA KeyMap ==
  /\ Len(key_map) = 40 /\ IsText(key_map)
  /\ \A b \in 2..9 : key_map[4 * b + 1] # NUL
  /\ \A b \in Ended : /\ key_map[4 * b + 2] # NUL /\ key_map[4 * b + 3] # NUL
                      /\ key_map[4 * b + 4] = NUL
<1>1. Len(key_map) = 40 /\ IsText(key_map)
  <2> DEFINE S == {NUL, "a", "b", "c", "d", "e", "f", "g", "h", "i", "j", "k", "l", "m", "n",
                   "o", "p", "q", "r", "s", "t", "u", "v", "w", "x", "y", "z"}
  <2>1. Len(key_map) = 40
    BY DEF key_map, NUL
  <2>2. key_map \in Seq(S)
    BY DEF key_map, NUL
  <2>3. QED
    BY <2>1, <2>2 DEF IsText
<1>2. /\ key_map[9] # NUL /\ key_map[10] # NUL /\ key_map[11] # NUL /\ key_map[12] = NUL
      /\ key_map[13] # NUL /\ key_map[14] # NUL /\ key_map[15] # NUL /\ key_map[16] = NUL
      /\ key_map[17] # NUL /\ key_map[18] # NUL /\ key_map[19] # NUL /\ key_map[20] = NUL
      /\ key_map[21] # NUL /\ key_map[22] # NUL /\ key_map[23] # NUL /\ key_map[24] = NUL
      /\ key_map[25] # NUL /\ key_map[26] # NUL /\ key_map[27] # NUL /\ key_map[28] = NUL
      /\ key_map[29] # NUL
      /\ key_map[33] # NUL /\ key_map[34] # NUL /\ key_map[35] # NUL /\ key_map[36] = NUL
      /\ key_map[37] # NUL
  BY DEF key_map, NUL
<1> HIDE DEF key_map
<1>3. ASSUME NEW b \in 2..9
      PROVE  key_map[4 * b + 1] # NUL
  <2>1. b = 2 \/ b = 3 \/ b = 4 \/ b = 5 \/ b = 6 \/ b = 7 \/ b = 8 \/ b = 9
    OBVIOUS
  <2>2. QED
    BY <1>2, <2>1
<1>4. ASSUME NEW b \in Ended
      PROVE  /\ key_map[4 * b + 2] # NUL /\ key_map[4 * b + 3] # NUL
             /\ key_map[4 * b + 4] = NUL
  <2>1. b = 2 \/ b = 3 \/ b = 4 \/ b = 5 \/ b = 6 \/ b = 8
    BY DEF Ended
  <2>2. QED
    BY <1>2, <2>1
<1>5. QED
  BY <1>1, <1>3, <1>4


\* A set of numbers that is not empty has a least one.
LEMMA LeastNumber ==
  ASSUME NEW S \in SUBSET Nat, S # {}
  PROVE  Min(S) \in S /\ \A y \in S : Min(S) <= y
<1> DEFINE Rel == OpToRel(<, Nat)
<1>1. \E x \in S : \A y \in S : ~(<<y, x>> \in Rel)
  BY NatLessThanWellFounded, WFMin
<1>2. \A x, y \in Nat : <<x, y>> \in Rel <=> x < y
  BY DEF OpToRel
<1> HIDE DEF Rel
<1>3. PICK x \in S : \A y \in S : ~(<<y, x>> \in Rel)
  BY <1>1
<1>4. \A y \in S : x <= y
  <2> TAKE y \in S
  <2>1. x \in Nat /\ y \in Nat /\ ~(y < x)
    BY <1>2, <1>3
  <2>2. QED
    BY <2>1
<1>5. QED
  BY <1>4 DEF Min

\* What is seen from the byte i of key_map on: m bytes, the last a NUL, of which the
\* first are those of key_map.
LEMMA CStringIs ==
  ASSUME NEW i \in 1..40, key_map[i] # NUL
  PROVE  /\ Len(CString(i)) \in Nat \ {0}
         /\ \A n \in 1..3 :
              /\ i + n <= 40
              /\ key_map[i + n] = NUL
              /\ \A k \in 0..(n - 1) : key_map[i + k] # NUL
              => /\ Len(CString(i)) = n
                 /\ \A k \in 1..n : CString(i)[k] = key_map[i + k - 1]
<1> DEFINE past == [n \in 1..PastBytes |-> "?"]
           own == SubSeq(key_map, i, Len(key_map))
           bytes == own \o past \o <<NUL>>
           I == {k \in 1..Len(bytes) : bytes[k] = NUL}
           m == Min(I)
<1>1. PICK S0 : key_map \in Seq(S0)
  BY KeyMap DEF IsText
<1> DEFINE S == S0 \union {"?", NUL}
<1>2. key_map \in Seq(S) /\ "?" \in S /\ NUL \in S
  BY <1>1, SeqMonotonic
<1> HIDE DEF S
<1>3. /\ own \in Seq(S) /\ Len(own) = 41 - i
      /\ \A k \in 1..(41 - i) : own[k] = key_map[i + k - 1]
  <2>1. Len(key_map) = 40 /\ \A k \in i..40 : key_map[k] \in S
    <3>1. Len(key_map) = 40
      BY KeyMap
    <3>2. key_map \in [1..40 -> S]
      BY <1>2, <3>1, LenProperties
    <3>3. \A k \in i..40 : k \in 1..40
      OBVIOUS
    <3>4. QED
      BY <3>1, <3>2, <3>3
  <2>2. i \in Int /\ 40 \in Int /\ i <= 40 /\ 40 - i + 1 = 41 - i
    OBVIOUS
  <2>3. /\ SubSeq(key_map, i, 40) \in Seq(S)
        /\ Len(SubSeq(key_map, i, 40)) = IF i <= 40 THEN 40 - i + 1 ELSE 0
        /\ \A k \in 1..(40 - i + 1) : SubSeq(key_map, i, 40)[k] = key_map[i + k - 1]
    BY <2>1, <2>2, SubSeqProperties
  <2>4. QED
    BY <2>1, <2>2, <2>3
<1>4. past \in Seq(S) /\ Len(past) = PastBytes
  BY <1>2, ConsoleAssumption
<1>5. <<NUL>> \in Seq(S) /\ Len(<<NUL>>) = 1 /\ <<NUL>>[1] = NUL
  BY <1>2
<1> HIDE DEF own, past
<1> DEFINE most == own \o past
<1>6. /\ most \in Seq(S) /\ Len(most) = (41 - i) + PastBytes
      /\ \A k \in 1..(41 - i) : most[k] = own[k]
  <2>1. Len(own) + Len(past) = (41 - i) + PastBytes
    BY <1>3, <1>4
  <2>2. /\ most \in Seq(S) /\ Len(most) = Len(own) + Len(past)
        /\ \A k \in 1..(Len(own) + Len(past)) :
             most[k] = IF k <= Len(own) THEN own[k] ELSE past[k - Len(own)]
    BY <1>3, <1>4, ConcatProperties
  <2>3. \A k \in 1..(41 - i) : k \in 1..((41 - i) + PastBytes) /\ k <= 41 - i
    BY ConsoleAssumption
  <2>4. QED
    BY <1>3, <2>1, <2>2, <2>3
<1> HIDE DEF most
<1> DEFINE l == (41 - i) + PastBytes + 1
<1>7. l \in Nat /\ 1 <= 41 - i /\ 41 - i < l
  BY ConsoleAssumption
<1>8. /\ bytes \in Seq(S) /\ Len(bytes) = l /\ bytes[l] = NUL
      /\ \A k \in 1..(41 - i) : bytes[k] = key_map[i + k - 1]
  <2>1. Len(most) + Len(<<NUL>>) = l /\ l - Len(most) = 1
    BY <1>5, <1>6, ConsoleAssumption
  <2>2. /\ most \o <<NUL>> \in Seq(S) /\ Len(most \o <<NUL>>) = Len(most) + Len(<<NUL>>)
        /\ \A k \in 1..(Len(most) + Len(<<NUL>>)) :
             (most \o <<NUL>>)[k] = IF k <= Len(most) THEN most[k] ELSE <<NUL>>[k - Len(most)]
    BY <1>5, <1>6, ConcatProperties
  <2>3. bytes = most \o <<NUL>>
    BY DEF most
  <2>4. l \in 1..l /\ ~(l <= Len(most))
    BY <1>6, <1>7, ConsoleAssumption
  <2>5. \A k \in 1..(41 - i) : k \in 1..l /\ k <= Len(most)
    BY <1>6, <1>7, ConsoleAssumption
  <2> HIDE DEF bytes, l
  <2>6. QED
    BY <1>3, <1>5, <1>6, <2>1, <2>2, <2>3, <2>4, <2>5
<1>9. CString(i) = SubSeq(bytes, 1, (IF I # {} THEN m ELSE 0) - 1)
  BY DEF CString, SelectInSeq, own, past
<1> HIDE DEF bytes
<1>10. I \in SUBSET (1..l) /\ l \in I /\ \A k \in I : bytes[k] = NUL
  <2>1. l \in 1..l
    BY <1>7
  <2> HIDE DEF l
  <2>2. QED
    BY <1>8, <2>1
<1>11. \A k \in 1..l : bytes[k] = NUL => k \in I
  BY <1>8
<1> HIDE DEF I, l
<1>12. m \in I /\ m \in 1..l /\ \A k \in I : m <= k
  <2>1. \A k \in I : k \in Nat
    BY <1>7, <1>10
  <2>2. m \in I /\ \A k \in I : m <= k
    BY <1>10, <2>1, LeastNumber
  <2>3. QED
    BY <1>10, <2>2
<1> HIDE DEF m
<1>13. CString(i) = SubSeq(bytes, 1, m - 1)
  BY <1>9, <1>10
<1>14. m # 1
  <2>1. 1 \in 1..(41 - i) /\ i + 1 - 1 = i
    BY <1>7
  <2>2. bytes[1] = key_map[i]
    BY <1>8, <2>1
  <2>3. QED
    BY <1>10, <1>12, <2>2
<1>15. m - 1 \in Nat \ {0} /\ m - 1 <= l
  BY <1>7, <1>12, <1>14
<1>16. /\ Len(CString(i)) = m - 1
       /\ \A k \in 1..(m - 1) : CString(i)[k] = bytes[k]
  <2>1. \A k \in 1..(m - 1) : k \in 1..l
    BY <1>7, <1>15
  <2>2. \A k \in 1..(m - 1) : bytes[k] \in S
    BY <1>8, <2>1, LenProperties
  <2>3. /\ Len(SubSeq(bytes, 1, m - 1)) = IF 1 <= m - 1 THEN (m - 1) - 1 + 1 ELSE 0
        /\ \A k \in 1..((m - 1) - 1 + 1) : SubSeq(bytes, 1, m - 1)[k] = bytes[1 + k - 1]
    BY <1>15, <2>2, SubSeqProperties
  <2>4. 1 <= m - 1 /\ (m - 1) - 1 + 1 = m - 1 /\ \A k \in 1..(m - 1) : 1 + k - 1 = k
    BY <1>12, <1>15
  <2>5. QED
    BY <1>13, <2>3, <2>4
<1>17. ASSUME NEW n \in 1..3, i + n <= 40, key_map[i + n] = NUL,
              \A k \in 0..(n - 1) : key_map[i + k] # NUL
       PROVE  /\ Len(CString(i)) = n
              /\ \A k \in 1..n : CString(i)[k] = key_map[i + k - 1]
  <2>1. n + 1 \in 1..(41 - i) /\ i + (n + 1) - 1 = i + n /\ n + 1 \in 1..l
    BY <1>7, <1>17
  <2>2. n + 1 \in I
    <3>1. bytes[n + 1] = key_map[i + n]
      BY <1>8, <2>1
    <3>2. QED
      BY <1>11, <1>17, <2>1, <3>1
  <2>3. m <= n + 1
    BY <1>12, <2>2
  <2>4. ~(m <= n)
    <3> SUFFICES ASSUME m <= n
                 PROVE  FALSE
      OBVIOUS
    <3>1. m \in 1..(41 - i) /\ m - 1 \in 0..(n - 1) /\ i + m - 1 = i + (m - 1)
      BY <1>12, <1>15, <2>1
    <3>2. bytes[m] = key_map[i + (m - 1)]
      BY <1>8, <3>1
    <3>3. QED
      BY <1>10, <1>12, <1>17, <3>1, <3>2
  <2>5. m - 1 = n
    BY <1>12, <1>15, <2>3, <2>4
  <2>6. \A k \in 1..n : k \in 1..(41 - i)
    BY <2>1
  <2>7. QED
    BY <1>8, <1>16, <2>5, <2>6
<1>18. QED
  BY <1>15, <1>16, <1>17

\* The rows are never empty, and those of the buttons with three letters hold just
\* these.
LEMMA Rows ==
  /\ \A b \in 2..9 : Len(Row(b)) \in Nat \ {0}
  /\ \A b \in Ended : \A k \in 1..Len(Row(b)) : Row(b)[k] \in Letters(b)
<1>1. ASSUME NEW b \in 2..9
      PROVE  4 * b + 1 \in 1..40 /\ key_map[4 * b + 1] # NUL
  BY KeyMap
<1>2. ASSUME NEW b \in 2..9
      PROVE  Len(Row(b)) \in Nat \ {0}
  BY <1>1, CStringIs DEF Row
<1>3. ASSUME NEW b \in Ended, NEW k \in 1..Len(Row(b))
      PROVE  Row(b)[k] \in Letters(b)
  <2> DEFINE i == 4 * b + 1
  <2>1. b \in 2..9
    BY DEF Ended
  <2>2. i \in 1..40 /\ i + 3 <= 40 /\ i + 1 = 4 * b + 2 /\ i + 2 = 4 * b + 3 /\ i + 3 = 4 * b + 4
    BY <2>1 DEF Ended
  <2>3. /\ key_map[i] # NUL /\ key_map[i + 1] # NUL /\ key_map[i + 2] # NUL
        /\ key_map[i + 3] = NUL
    BY <2>1, <2>2, KeyMap
  <2> HIDE DEF i
  <2>4. \A j \in 0..(3 - 1) : key_map[i + j] # NUL
    <3>1. \A j \in 0..(3 - 1) : j = 0 \/ j = 1 \/ j = 2
      OBVIOUS
    <3>2. i + 0 = i
      BY <2>2
    <3>3. QED
      BY <2>3, <3>1, <3>2
  <2>5. /\ Len(CString(i)) = 3
        /\ \A j \in 1..3 : CString(i)[j] = key_map[i + j - 1]
    <3>1. 3 \in 1..3
      OBVIOUS
    <3>2. QED
      BY <2>2, <2>3, <2>4, <3>1, CStringIs
  <2>6. Row(b) = CString(i)
    BY DEF Row, i
  <2>7. k \in 1..3 /\ k - 1 \in 0..(3 - 1) /\ i + k - 1 = i + (k - 1)
    <3>1. Len(Row(b)) = 3
      BY <2>5, <2>6
    <3>2. k \in 1..3
      BY <3>1
    <3>3. QED
      BY <2>2, <3>2
  <2>8. i + (k - 1) \in (4 * b + 1)..(4 * b + 4)
    BY <2>1, <2>7 DEF i
  <2>9. Row(b)[k] = key_map[i + (k - 1)] /\ key_map[i + (k - 1)] # NUL
    BY <2>4, <2>5, <2>6, <2>7
  <2>10. QED
    BY <2>8, <2>9 DEF Letters
<1>4. QED
  BY <1>2, <1>3

\* As long as more fits, the last character is a letter of the button remembered.
LastIsLetter ==
  last_key \in Ended /\ value # <<>> /\ Len(value) < MAX_LENGTH =>
    value[Len(value)] \in Letters(last_key)

LetterInv ==
  /\ IsText(value) /\ press_count \in Nat /\ last_key \in {0} \union 2..9
  /\ LastIsLetter

\* The last place of a value, after one more character and after another one in it.
LEMMA LastPlace ==
  ASSUME NEW v, IsText(v), NEW c
  PROVE  /\ Append(v, c)[Len(Append(v, c))] = c
         /\ v # <<>> => [v EXCEPT ![Len(v)] = c][Len([v EXCEPT ![Len(v)] = c])] = c
<1>1. PICK S0 : v \in Seq(S0)
  BY DEF IsText
<1> DEFINE S == S0 \union {c}
<1>2. v \in Seq(S) /\ c \in S
  BY <1>1, SeqMonotonic
<1> HIDE DEF S
<1>3. Len(v) \in Nat /\ DOMAIN v = 1..Len(v)
  BY <1>2, LenProperties
<1>4. Len(Append(v, c)) = Len(v) + 1 /\ Append(v, c)[Len(v) + 1] = c
  BY <1>2, AppendProperties
<1>5. ASSUME v # <<>>
      PROVE  [v EXCEPT ![Len(v)] = c][Len([v EXCEPT ![Len(v)] = c])] = c
  <2>1. Len(v) # 0
    BY <1>2, <1>5, EmptySeq
  <2>2. Len(v) \in 1..Len(v)
    BY <1>3, <2>1
  <2>3. Len([v EXCEPT ![Len(v)] = c]) = Len(v)
    BY <1>2, <2>2, ExceptSeq
  <2>4. [v EXCEPT ![Len(v)] = c][Len(v)] = c
    BY <1>3, <2>2
  <2>5. QED
    BY <2>3, <2>4
<1>6. QED
  BY <1>4, <1>5

\* The letter that Circulate shows is one of the row of its button.
LEMMA Circulates ==
  ASSUME LetterInv, NEW b \in 2..9, Circulate(b)
  PROVE  /\ value # <<>> /\ last_key = b /\ last_key' = b /\ press_count' \in Nat
         /\ IsText(value') /\ Len(value') = Len(value)
         /\ b \in Ended => value'[Len(value')] \in Letters(b)
<1>1. /\ value # <<>> /\ last_key = b /\ last_key' = b
      /\ press_count' = (press_count + 1) % Len(Row(b))
      /\ value' = [value EXCEPT ![Len(value)] = Row(b)[press_count' + 1]]
  BY DEF Circulate
<1>2. press_count \in Nat /\ Len(Row(b)) \in Nat \ {0} /\ IsText(value)
  BY Rows DEF LetterInv
<1>3. press_count' \in 0..(Len(Row(b)) - 1)
  <2>1. \A x \in Nat : \A n \in Nat \ {0} : x % n \in 0..(n - 1)
    OBVIOUS
  <2>2. press_count + 1 \in Nat
    BY <1>2
  <2>3. QED
    BY <1>1, <1>2, <2>1, <2>2
<1>4. press_count' \in Nat /\ press_count' + 1 \in 1..Len(Row(b))
  <2>1. \A n \in Nat \ {0} : \A x \in 0..(n - 1) : x \in Nat /\ x + 1 \in 1..n
    OBVIOUS
  <2>2. QED
    BY <1>2, <1>3, <2>1
<1> DEFINE c == Row(b)[press_count' + 1]
<1>5. b \in Ended => c \in Letters(b)
  BY <1>4, Rows
<1> HIDE DEF c
<1>6. value' = [value EXCEPT ![Len(value)] = c]
  BY <1>1 DEF c
<1>7. IsText(value') /\ Len(value') = Len(value)
  <2>1. \A d : /\ IsText([value EXCEPT ![Len(value)] = d])
               /\ Len([value EXCEPT ![Len(value)] = d]) = Len(value)
    BY <1>1, <1>2, TextOps
  <2>2. QED
    BY <1>6, <2>1
<1>8. value'[Len(value')] = c
  BY <1>1, <1>2, <1>6, LastPlace
<1>9. QED
  BY <1>1, <1>4, <1>5, <1>7, <1>8

\* The letter that NewCharacter appends is the first one of the row of its button;
\* with no room for it the button is remembered nevertheless.
LEMMA Appends ==
  ASSUME LetterInv, NEW b \in 2..9, NewCharacter(b)
  PROVE  /\ last_key' = b /\ press_count' \in Nat /\ IsText(value')
         /\ \/ Fits(value) /\ Len(value') = Len(value) + 1
               /\ (b \in Ended => value'[Len(value')] \in Letters(b))
            \/ ~Fits(value) /\ value' = value
<1>1. /\ last_key' = b
      /\ IF Fits(value)
         THEN value' = Append(value, Row(b)[1]) /\ press_count' = 0
         ELSE UNCHANGED <<value, press_count>>
  BY DEF NewCharacter, Remembers
<1>2. press_count \in Nat /\ Len(Row(b)) \in Nat \ {0} /\ IsText(value)
  BY Rows DEF LetterInv
<1> DEFINE c == Row(b)[1]
<1>3. b \in Ended => c \in Letters(b)
  <2>1. 1 \in 1..Len(Row(b))
    BY <1>2
  <2>2. QED
    BY <2>1, Rows
<1> HIDE DEF c
<1>4. CASE Fits(value)
  <2>1. value' = Append(value, c) /\ press_count' = 0
    BY <1>1, <1>4 DEF c
  <2>2. IsText(value') /\ Len(value') = Len(value) + 1
    BY <1>2, <2>1, TextOps
  <2>3. value'[Len(value')] = c
    BY <1>2, <2>1, LastPlace
  <2>4. QED
    BY <1>1, <1>3, <1>4, <2>1, <2>2, <2>3
<1>5. CASE ~Fits(value)
  BY <1>1, <1>2, <1>5
<1>6. QED
  BY <1>4, <1>5

\* LetterInv stays true: a number, a change to numbers and a cleared value leave no
\* letter of the button remembered to be replaced.
LEMMA LetterStep ==
  ASSUME LetterInv, [Next]_vars
  PROVE  LetterInv'
<1>0. IsText(value) /\ press_count \in Nat /\ last_key \in {0} \union 2..9 /\ LastIsLetter
  BY DEF LetterInv
<1>1. ASSUME UNCHANGED <<value, press_count, last_key>>
      PROVE  LetterInv'
  BY <1>0, <1>1 DEF LetterInv, LastIsLetter
<1>2. ASSUME InitState, UNCHANGED <<press_count, last_key>>
      PROVE  LetterInv'
  <2>1. value' = <<>>
    BY <1>2 DEF InitState, INITIAL_VALUE
  <2>2. IsText(value')
    BY <2>1, EmptyText DEF Short, INITIAL_VALUE
  <2>3. QED
    BY <1>0, <1>2, <2>1, <2>2 DEF LetterInv, LastIsLetter
<1>3. ASSUME NEW b \in Buttons, PutCharacter(b)
      PROVE  LetterInv'
  <2>1. process_value(b)
    BY <1>3 DEF PutCharacter
  <2>2. ASSUME IsText(value'), last_key' = 0, press_count' = 0
        PROVE  LetterInv'
    BY <2>2 DEF LetterInv, LastIsLetter, Ended
  <2>3. CASE ToggleNumMode
    BY <1>0, <2>2, <2>3 DEF ToggleNumMode
  <2>4. CASE TypeNumber(b)
    <3>1. IsText(value')
      BY <1>0, <2>4, TextOps DEF TypeNumber
    <3>2. QED
      BY <2>2, <2>4, <3>1 DEF TypeNumber
  <2>5. CASE b \in 2..9 /\ Circulate(b)
    <3>1. /\ last_key' = b /\ press_count' \in Nat /\ IsText(value')
          /\ b \in Ended => value'[Len(value')] \in Letters(b)
      BY <2>5, Circulates
    <3>2. QED
      BY <2>5, <3>1 DEF LetterInv, LastIsLetter
  <2>6. CASE b \in 2..9 /\ NewCharacter(b)
    <3>1. /\ last_key' = b /\ press_count' \in Nat /\ IsText(value')
          /\ \/ Fits(value) /\ (b \in Ended => value'[Len(value')] \in Letters(b))
             \/ ~Fits(value) /\ value' = value
      BY <2>6, Appends
    <3>2. LastIsLetter'
      BY <3>1 DEF LastIsLetter, Fits
    <3>3. QED
      BY <2>6, <3>1, <3>2 DEF LetterInv
  <2>7. QED
    BY <2>1, <2>3, <2>4, <2>5, <2>6 DEF process_value
<1>4. CASE ChangeMode
  BY <1>2, <1>4 DEF ChangeMode, editor
<1>5. CASE PutReset
  BY <1>1, <1>5 DEF PutReset, editor
<1>6. CASE PutClear
  BY <1>2, <1>6 DEF PutClear, editor
<1>7. CASE PutSubmit
  BY <1>1, <1>7 DEF PutSubmit, editor
<1>8. CASE GetOther
  BY <1>1, <1>8 DEF GetOther, editor
<1>9. CASE GetSubmit
  BY <1>1, <1>9 DEF GetSubmit, editor
<1>10. CASE MergeReset
  BY <1>1, <1>10 DEF MergeReset, editor
<1>11. ASSUME NEW b \in Buttons, PutDigit(b) \/ GetDigit(b)
       PROVE  LetterInv'
  BY <1>1, <1>11 DEF PutDigit, GetDigit
<1>12. CASE UNCHANGED vars
  BY <1>1, <1>12 DEF vars
<1>13. QED
  BY <1>3, <1>4, <1>5, <1>6, <1>7, <1>8, <1>9, <1>10, <1>11, <1>12 DEF Next

\* A press shows a letter of its own button and, while more characters fit, replaces
\* none but such a letter.
LEMMA LettersStep ==
  ASSUME LetterInv, [Next]_vars
  PROVE  ShowsOwnLetters /\ CirculatesOwnLetter
<1> SUFFICES ASSUME NEW b \in Buttons \ {7, 9}, PutCharacter(b), value' # value
             PROVE  /\ ~num_mode => value'[Len(value')] \in Letters(b)
                    /\ Len(value') = Len(value) /\ Len(value) < MAX_LENGTH
                         => value[Len(value)] \in Letters(b)
  BY DEF ShowsOwnLetters, CirculatesOwnLetter
<1>0. IsText(value) /\ Len(value) \in Nat /\ LastIsLetter
  BY TextOps DEF LetterInv
<1>1. process_value(b)
  BY DEF PutCharacter
<1>2. b \in 2..9 /\ (TypeNumber(b) \/ Circulate(b) \/ NewCharacter(b))
  BY <1>1 DEF process_value, ToggleNumMode
<1>3. b \in Ended
  <2>1. b # 7 /\ b # 9
    OBVIOUS
  <2>2. QED
    BY <1>2, <2>1 DEF Ended
<1>4. CASE TypeNumber(b)
  <2>1. num_mode
    BY <1>4 DEF TypeNumber
  <2>2. value' = Append(value, Digit(b))
    BY <1>4 DEF TypeNumber
  <2>3. Len(value') # Len(value)
    <3>1. Len(value') = Len(value) + 1
      BY <1>0, <2>2, TextOps
    <3>2. QED
      BY <1>0, <3>1
  <2>4. QED
    BY <2>1, <2>3
<1>5. CASE Circulate(b)
  <2>1. value # <<>> /\ last_key = b /\ value'[Len(value')] \in Letters(b)
    BY <1>2, <1>3, <1>5, Circulates
  <2>2. Len(value) < MAX_LENGTH => value[Len(value)] \in Letters(b)
    BY <1>0, <1>3, <2>1 DEF LastIsLetter
  <2>3. QED
    BY <2>1, <2>2
<1>6. CASE NewCharacter(b)
  <2>1. Len(value') = Len(value) + 1 /\ value'[Len(value')] \in Letters(b)
    BY <1>2, <1>3, <1>6, Appends
  <2>2. Len(value') # Len(value)
    BY <1>0, <2>1
  <2>3. QED
    BY <2>1, <2>2
<1>7. QED
  BY <1>2, <1>4, <1>5, <1>6

\* For every length of a value: a press in letter mode shows a letter of the button
\* pressed (7 and 9, whose rows have no NUL, aside), and a press that replaces a
\* character of a value that is not full replaces a letter of the same button,
\* whatever was typed, cleared or submitted before.
THEOREM LettersAreOwn == Spec => LettersOfButton
<1>1. Init => LetterInv
  BY EmptyText DEF Init, LetterInv, LastIsLetter, Short, INITIAL_VALUE
<1>2. LetterInv /\ [Next]_vars => LetterInv'
  BY LetterStep
<1>3. LetterInv /\ [Next]_vars => [ShowsOwnLetters /\ CirculatesOwnLetter]_vars
  BY LettersStep
<1>4. QED
  BY <1>1, <1>2, <1>3, PTL DEF Spec, LettersOfButton

=============================================================================
