--------------------------- MODULE KvReads_proofs ---------------------------
(***************************************************************************)
(* What is proved about the values that the store holds and returns, for   *)
(* every set of keys, every size of the tables and any number of puts.  In *)
(* one run of the program that begins in an empty directory it is the map  *)
(* of KvMap, through all flushes and merges; and a start after BACK finds  *)
(* every value again if the list was in the order of the file numbers.     *)
(*                                                                         *)
(* What the search in a table returns is all that matters of the table.    *)
(* So the proof has two parts: the list of tables (SessionInv: a flush     *)
(* adds a table at its end, a merge takes two from its head and puts one   *)
(* there), and what the searches in the memory table, in the tables of the *)
(* list and in the array of merge return (ReadsInv).                       *)
(***************************************************************************)
EXTENDS KvStore_proofs

\* One run of the program, with the sizes that the bounds of the list need.
Session == Sizes /\ MaxStarts <= 1 /\ MaxCrashes = 0

----------------------------------------------------------------------------
(* The list of tables.                                                     *)

\* The list is in the order of its indexes, each file is in it once, and the next
\* number is new.
Sorted(list, number) ==
  /\ \A i, j \in 1..Len(list) : i < j => list[i].index < list[j].index
                                         /\ list[i].file # list[j].file
  /\ \A i \in 1..Len(list) : list[i].index < number /\ list[i].file < number

\* Before the start there is nothing.
FreshInv ==
  starts = 0 => /\ phase = "down" /\ memory_table = <<>> /\ puts = <<>>
                /\ meta_list = <<>>

\* The table that is being written is in the list.
OutInv ==
  /\ phase \in {"flush", "write"} => out.number \in Named(meta_list)
  /\ phase \notin {"flush", "write"} => out = NoFile

\* A merge that has read a table is older than every table of the list.
MergingInv ==
  /\ popped = 0 => temp = <<>>
  /\ popped > 0 => /\ phase = "merge" /\ order < meta_index
                   /\ \A i \in 1..Len(meta_list) : order < meta_list[i].index

\* The check of main_process finds every third table.
RoomInv == phase \in {"ready", "down"} => Len(meta_list) < MERGE_TRIGGER

\* The merge process finds every table and lives, and before the start nothing was asked.
LifeInv == merger # "dead" /\ (starts = 0 => answer = NoAnswer)

SessionInv ==
  /\ BoundsInv /\ LifeInv
  /\ starts \in Nat /\ crashes = 0 /\ phase # "crashed"
  /\ Sorted(meta_list, meta_index) /\ DOMAIN files = Named(meta_list)
  /\ FreshInv /\ OutInv /\ MergingInv /\ RoomInv

\* flush adds a table at the end of the list.
Appended(list, new, node) ==
  /\ Len(new) = Len(list) + 1
  /\ \A j \in 1..Len(list) : new[j] = list[j]
  /\ new[Len(list) + 1] = node

\* merge adds one at the head.
Prepended(list, new, node) ==
  /\ Len(new) = Len(list) + 1
  /\ new[1] = node
  /\ \A j \in 1..Len(list) : new[j + 1] = list[j]

\* insert_node puts a node with a greater index than any other at the end.
LEMMA InsertLast ==
  ASSUME NEW list \in Seq(Node), Len(list) # META_LIST_CNT,
         NEW number \in Nat \ {0}, Sorted(list, number)
  PROVE  /\ insert_node(list, number, number) \in Seq(Node)
         /\ Appended(list, insert_node(list, number, number), [index |-> number, file |-> number])
<1> DEFINE node == [index |-> number, file |-> number]
           new == insert_node(list, number, number)
<1>1. PICK c \in 0..Len(list) :
             /\ Inserted(list, new, c, node)
             /\ \A j \in 1..c : list[j].index < number
             /\ c < Len(list) => ~(list[c + 1].index < number)
  BY InsertNode
<1> HIDE DEF new, node
<1>2. Len(list) \in Nat
  BY LenProperties
<1>3. c = Len(list)
  <2>1. ASSUME c < Len(list)
        PROVE  FALSE
    <3>1. c + 1 \in 1..Len(list)
      BY <1>1, <1>2, <2>1
    <3>2. QED
      BY <1>1, <2>1, <3>1 DEF Sorted
  <2>2. QED
    BY <1>1, <1>2, <2>1
<1>4. QED
  BY <1>1, <1>3 DEF Inserted, Appended, new, node

\* insert_node puts a node with a smaller index than any other at the head.
LEMMA InsertFirst ==
  ASSUME NEW list \in Seq(Node), Len(list) # META_LIST_CNT,
         NEW index \in Nat \ {0}, NEW number \in Nat \ {0},
         \A i \in 1..Len(list) : index < list[i].index
  PROVE  /\ insert_node(list, index, number) \in Seq(Node)
         /\ Prepended(list, insert_node(list, index, number), [index |-> index, file |-> number])
<1> DEFINE node == [index |-> index, file |-> number]
           new == insert_node(list, index, number)
<1>1. PICK c \in 0..Len(list) :
             /\ Inserted(list, new, c, node)
             /\ \A j \in 1..c : list[j].index < index
  BY InsertNode
<1> HIDE DEF new, node
<1>2. Len(list) \in Nat
  BY LenProperties
<1>3. c = 0
  <2>1. ASSUME c # 0
        PROVE  FALSE
    <3>1. 1 \in 1..Len(list) /\ 1 \in 1..c
      BY <1>1, <1>2, <2>1
    <3>2. list[1].index < index /\ index < list[1].index
      BY <1>1, <3>1
    <3>3. list[1].index \in Nat
      <4>1. list[1] \in Node
        BY <3>1, ElementOfSeq
      <4>2. QED
        BY <4>1 DEF Node
    <3>4. QED
      BY <3>2, <3>3
  <2>2. QED
    BY <2>1
<1>4. new \in Seq(Node) /\ Len(new) = Len(list) + 1
      /\ new[0 + 1] = node /\ \A j \in (0 + 1)..Len(list) : new[j + 1] = list[j]
  BY <1>1, <1>3 DEF Inserted
<1>5. QED
  BY <1>4 DEF Prepended, new, node

\* The numbers and sequences that the list is made of.
LEMMA SessionTypes ==
  ASSUME Session, SessionInv
  PROVE  /\ MERGE_TRIGGER \in Nat /\ META_LIST_CNT \in Nat /\ MERGE_TRIGGER <= META_LIST_CNT
         /\ MERGE_TRIGGER >= 2 /\ Sizes
         /\ meta_index \in Nat \ {0} /\ meta_list \in Seq(Node) /\ Len(meta_list) \in Nat
         /\ \A i \in 1..Len(meta_list) : meta_list[i].index \in Nat \ {0}
                                         /\ meta_list[i].file \in Nat \ {0}
<1>1. BoundsInv /\ Sizes
  BY DEF Session, SessionInv
<1>2. /\ MERGE_TRIGGER \in Nat /\ META_LIST_CNT \in Nat /\ MERGE_TRIGGER <= META_LIST_CNT
      /\ MERGE_TRIGGER >= 2 /\ Len(meta_list) \in Nat
  BY <1>1, BoundsTypes
<1>3. meta_index \in Nat \ {0} /\ meta_list \in Seq(Node)
  BY <1>1 DEF BoundsInv, ListInv
<1>4. \A i \in 1..Len(meta_list) : meta_list[i] \in Node
  BY <1>3, ElementOfSeq
<1>5. \A i \in 1..Len(meta_list) : meta_list[i].index \in Nat \ {0}
                                   /\ meta_list[i].file \in Nat \ {0}
  BY <1>4 DEF Node
<1>6. QED
  BY <1>1, <1>2, <1>3, <1>5

\* A list with one more node at its end.
LEMMA AppendSorted ==
  ASSUME Session, SessionInv, NEW new,
         Appended(meta_list, new, [index |-> meta_index, file |-> meta_index])
  PROVE  Sorted(new, meta_index + 1) /\ Named(new) = Named(meta_list) \cup {meta_index}
<1> DEFINE n == Len(meta_list)
<1>1. /\ n \in Nat /\ meta_index \in Nat \ {0} /\ Sorted(meta_list, meta_index)
      /\ \A i \in 1..n : meta_list[i].index \in Nat /\ meta_list[i].file \in Nat
  BY SessionTypes DEF SessionInv
<1>2. /\ Len(new) = n + 1 /\ \A j \in 1..n : new[j] = meta_list[j]
      /\ new[n + 1].index = meta_index /\ new[n + 1].file = meta_index
  BY DEF Appended
<1> HIDE DEF n
<1>3. \A i \in 1..(n + 1) : i \in 1..n \/ i = n + 1
  BY <1>1
<1>4. \A i, j \in 1..n : i < j => meta_list[i].index < meta_list[j].index
                                  /\ meta_list[i].file # meta_list[j].file
  BY <1>1 DEF Sorted, n
<1>5. \A i \in 1..n : meta_list[i].index < meta_index /\ meta_list[i].file < meta_index
  BY <1>1 DEF Sorted, n
<1>6. ASSUME NEW i \in 1..(n + 1), NEW j \in 1..(n + 1), i < j
      PROVE  new[i].index < new[j].index /\ new[i].file # new[j].file
  <2>1. i \in 1..n
    BY <1>1, <1>6
  <2>2. CASE j \in 1..n
    BY <1>2, <1>4, <1>6, <2>1, <2>2
  <2>3. CASE j = n + 1
    BY <1>1, <1>2, <1>5, <2>1, <2>3
  <2>4. QED
    BY <1>3, <2>2, <2>3
<1>7. ASSUME NEW i \in 1..(n + 1)
      PROVE  new[i].index < meta_index + 1 /\ new[i].file < meta_index + 1
  <2>1. CASE i \in 1..n
    BY <1>1, <1>2, <1>5, <2>1
  <2>2. CASE i = n + 1
    BY <1>1, <1>2, <2>2
  <2>3. QED
    BY <1>3, <2>1, <2>2
<1>8. Sorted(new, meta_index + 1)
  BY <1>2, <1>6, <1>7 DEF Sorted
<1>9. Named(meta_list) \cup {meta_index} \subseteq Named(new)
  <2>1. n + 1 \in 1..(n + 1) /\ \A i \in 1..n : i \in 1..(n + 1)
    BY <1>1
  <2>2. QED
    BY <1>2, <2>1 DEF Named, n
<1>10. Named(new) \subseteq Named(meta_list) \cup {meta_index}
  BY <1>2, <1>3 DEF Named, n
<1>11. QED
  BY <1>8, <1>9, <1>10

\* A list with one more node at its head.
LEMMA PrependSorted ==
  ASSUME Session, SessionInv, NEW new, NEW index \in Nat \ {0}, index < meta_index,
         \A i \in 1..Len(meta_list) : index < meta_list[i].index,
         Prepended(meta_list, new, [index |-> index, file |-> meta_index])
  PROVE  Sorted(new, meta_index + 1) /\ Named(new) = Named(meta_list) \cup {meta_index}
<1> DEFINE n == Len(meta_list)
<1>1. /\ n \in Nat /\ meta_index \in Nat \ {0} /\ Sorted(meta_list, meta_index)
      /\ \A i \in 1..n : meta_list[i].index \in Nat /\ meta_list[i].file \in Nat
  BY SessionTypes DEF SessionInv
<1>2. /\ Len(new) = n + 1 /\ \A j \in 1..n : new[j + 1] = meta_list[j]
      /\ new[1].index = index /\ new[1].file = meta_index
  BY DEF Prepended
<1>3. \A i \in 1..n : index < meta_list[i].index
  OBVIOUS
<1>4. \A i, j \in 1..n : i < j => meta_list[i].index < meta_list[j].index
                                  /\ meta_list[i].file # meta_list[j].file
  BY <1>1 DEF Sorted
<1>5. \A i \in 1..n : meta_list[i].index < meta_index /\ meta_list[i].file < meta_index
  BY <1>1 DEF Sorted
<1> HIDE DEF n
<1>6. \A i \in 1..(n + 1) : i # 1 => \E j \in 1..n : i = j + 1
  BY <1>1
<1>7. ASSUME NEW i \in 1..(n + 1), NEW j \in 1..(n + 1), i < j
      PROVE  new[i].index < new[j].index /\ new[i].file # new[j].file
  <2>1. PICK b \in 1..n : j = b + 1
    BY <1>1, <1>6, <1>7
  <2>2. CASE i = 1
    <3>1. new[j] = meta_list[b]
      BY <1>2, <2>1
    <3>2. meta_list[b].file # meta_index
      BY <1>1, <1>5
    <3>3. QED
      BY <1>2, <1>3, <2>2, <3>1, <3>2
  <2>3. CASE i # 1
    <3>1. PICK a \in 1..n : i = a + 1
      BY <1>6, <2>3
    <3>2. a < b
      BY <1>7, <2>1, <3>1
    <3>3. QED
      BY <1>2, <1>4, <2>1, <3>1, <3>2
  <2>4. QED
    BY <2>2, <2>3
<1>8. ASSUME NEW i \in 1..(n + 1)
      PROVE  new[i].index < meta_index + 1 /\ new[i].file < meta_index + 1
  <2>1. CASE i = 1
    BY <1>1, <1>2, <2>1
  <2>2. CASE i # 1
    <3>1. PICK a \in 1..n : i = a + 1
      BY <1>6, <2>2
    <3>2. new[i] = meta_list[a]
      BY <1>2, <3>1
    <3>3. QED
      BY <1>1, <1>5, <3>2
  <2>3. QED
    BY <2>1, <2>2
<1>9. Sorted(new, meta_index + 1)
  BY <1>2, <1>7, <1>8 DEF Sorted
<1>10. Named(meta_list) \cup {meta_index} \subseteq Named(new)
  <2>1. 1 \in 1..(n + 1) /\ \A i \in 1..n : i + 1 \in 1..(n + 1)
    BY <1>1
  <2>2. QED
    BY <1>2, <2>1 DEF Named, n
<1>11. Named(new) \subseteq Named(meta_list) \cup {meta_index}
  <2>1. ASSUME NEW i \in 1..(n + 1)
        PROVE  new[i].file \in Named(meta_list) \cup {meta_index}
    <3>1. CASE i = 1
      BY <1>2, <3>1
    <3>2. CASE i # 1
      <4>1. PICK a \in 1..n : i = a + 1
        BY <1>6, <3>2
      <4>2. new[i].file = meta_list[a].file
        BY <1>2, <4>1
      <4>3. QED
        BY <4>2 DEF Named, n
    <3>3. QED
      BY <3>1, <3>2
  <2>2. Len(new) = n + 1
    BY <1>2
  <2>3. QED
    BY <2>1, <2>2 DEF Named
<1>12. QED
  BY <1>9, <1>10, <1>11

\* A step that leaves the list and the names of the files alone and does not write.
LEMMA SameSession ==
  ASSUME Session, SessionInv, BoundsInv', LifeInv', popped = 0, starts # 0, out' = NoFile,
         UNCHANGED <<meta_index, meta_list, temp, popped, starts, crashes>>,
         DOMAIN files' = DOMAIN files, phase' \in {"ready", "down", "merge"},
         phase' # "merge" => Len(meta_list) < MERGE_TRIGGER
  PROVE  SessionInv'
<1>1. Sorted(meta_list, meta_index)' /\ (DOMAIN files = Named(meta_list))'
  BY DEF SessionInv, Sorted, Named
<1>2. FreshInv' /\ RoomInv' /\ OutInv'
  BY DEF FreshInv, RoomInv, OutInv
<1>3. MergingInv'
  BY DEF SessionInv, MergingInv
<1>4. starts' \in Nat /\ crashes' = 0 /\ phase' # "crashed"
  BY DEF SessionInv
<1>5. QED
  BY <1>1, <1>2, <1>3, <1>4 DEF SessionInv

\* A request finds the store started, with no file open and no merge begun.
LEMMA AtRequest ==
  ASSUME Session, SessionInv, phase = "ready"
  PROVE  /\ starts # 0 /\ popped = 0 /\ out = NoFile /\ temp = <<>>
         /\ Len(meta_list) < MERGE_TRIGGER
<1>1. starts # 0 /\ out = NoFile /\ Len(meta_list) < MERGE_TRIGGER
  BY DEF SessionInv, FreshInv, OutInv, RoomInv
<1>2. popped = 0
  BY DEF SessionInv, BoundsInv, PhaseInv
<1>3. QED
  BY <1>1, <1>2 DEF SessionInv, MergingInv

\* A flush.
LEMMA SessionFlush ==
  ASSUME Session, SessionInv, BoundsInv', LifeInv', phase = "ready", NEW t, Flush(t),
         UNCHANGED <<temp, popped, starts, crashes>>
  PROVE  /\ SessionInv'
         /\ Appended(meta_list, meta_list', [index |-> meta_index, file |-> meta_index])
<1>1. /\ files' = OpenFile(files, meta_index) /\ out'.number = meta_index
      /\ meta_list' = insert_node(meta_list, meta_index, meta_index)
      /\ meta_index' = meta_index + 1 /\ phase' = "flush"
  BY DEF Flush, NextNumber
<1>2. starts # 0 /\ popped = 0 /\ Len(meta_list) < MERGE_TRIGGER /\ temp = <<>>
  BY AtRequest
<1>3. /\ MERGE_TRIGGER \in Nat /\ META_LIST_CNT \in Nat /\ MERGE_TRIGGER <= META_LIST_CNT
      /\ meta_index \in Nat \ {0} /\ meta_list \in Seq(Node) /\ Len(meta_list) \in Nat
  BY SessionTypes
<1>4. Len(meta_list) # META_LIST_CNT
  BY <1>2, <1>3
<1>5. Sorted(meta_list, meta_index)
  BY DEF SessionInv
<1>6. Appended(meta_list, meta_list', [index |-> meta_index, file |-> meta_index])
  BY <1>1, <1>3, <1>4, <1>5, InsertLast
<1>7. Sorted(meta_list', meta_index + 1) /\ Named(meta_list') = Named(meta_list) \cup {meta_index}
  BY <1>6, AppendSorted
<1>8. Sorted(meta_list, meta_index)' /\ Named(meta_list)' = Named(meta_list) \cup {meta_index}
  BY <1>1, <1>7 DEF Sorted, Named
<1>9. (DOMAIN files = Named(meta_list))'
  BY <1>1, <1>8 DEF SessionInv, OpenFile
<1>10. FreshInv' /\ RoomInv' /\ OutInv' /\ MergingInv'
  BY <1>1, <1>2, <1>8 DEF FreshInv, RoomInv, OutInv, MergingInv
<1>11. starts' \in Nat /\ crashes' = 0 /\ phase' # "crashed"
  BY <1>1 DEF SessionInv
<1>12. QED
  BY <1>6, <1>8, <1>9, <1>10, <1>11 DEF SessionInv

\* merge finds the table at the head of the list.
LEMMA SessionRead ==
  ASSUME Session, SessionInv, BoundsInv', LifeInv', MergeRead
  PROVE  /\ SessionInv'
         /\ Len(meta_list) \in Nat \ {0} /\ Len(meta_list') = Len(meta_list) - 1
         /\ \A i \in 1..Len(meta_list') : meta_list'[i] = meta_list[i + 1]
         /\ meta_list[1].file \in DOMAIN files
         /\ temp' = temp \o Pairs(files[meta_list[1].file])
         /\ files' = RemoveFile(files, meta_list[1].file)
<1> DEFINE head == meta_list[1]
<1>1. /\ MERGE_TRIGGER \in Nat /\ meta_index \in Nat \ {0} /\ meta_list \in Seq(Node)
      /\ Len(meta_list) \in Nat
      /\ \A i \in 1..Len(meta_list) : meta_list[i].index \in Nat \ {0}
  BY SessionTypes
<1>2. phase = "merge" /\ popped \in 0..1 /\ Len(meta_list) + popped \in 2..MERGE_TRIGGER
  BY DEF SessionInv, BoundsInv, PhaseInv, MergeRead, Session, Sizes
<1>3. Len(meta_list) # 0
  BY <1>1, <1>2
<1>4. meta_list # <<>>
  BY <1>3, EmptySeq
<1>5. head = Head(meta_list)
  BY <1>1, <1>4, HeadTailProperties
<1>6. 1 \in 1..Len(meta_list) /\ Len(meta_list) \in Nat \ {0}
  BY <1>1, <1>3
<1>7. head.file \in DOMAIN files
  BY <1>6 DEF SessionInv, Named
<1>8. /\ temp' = temp \o Pairs(files[head.file])
      /\ order' = IF popped = 0 THEN head.index ELSE order
      /\ popped' = popped + 1 /\ meta_list' = Tail(meta_list)
      /\ files' = RemoveFile(files, head.file) /\ phase' = "merge"
      /\ UNCHANGED <<meta_index, out, starts, crashes>>
  BY <1>2, <1>5, <1>7 DEF MergeRead, envVars
<1> HIDE DEF head
<1>9. Len(meta_list') = Len(meta_list) - 1
      /\ \A i \in 1..Len(meta_list') : meta_list'[i] = meta_list[i + 1]
  BY <1>1, <1>4, <1>8, HeadTailProperties
<1>10. Sorted(meta_list, meta_index)
  BY DEF SessionInv
<1>11. \A i \in 1..Len(meta_list') : i + 1 \in 1..Len(meta_list)
  BY <1>1, <1>6, <1>9
<1>12. Sorted(meta_list, meta_index)'
  <2>1. ASSUME NEW i \in 1..Len(meta_list'), NEW j \in 1..Len(meta_list'), i < j
        PROVE  meta_list'[i].index < meta_list'[j].index /\ meta_list'[i].file # meta_list'[j].file
    <3>1. i + 1 < j + 1
      BY <2>1
    <3>2. QED
      BY <1>9, <1>10, <1>11, <3>1 DEF Sorted
  <2>2. ASSUME NEW i \in 1..Len(meta_list')
        PROVE  meta_list'[i].index < meta_index /\ meta_list'[i].file < meta_index
    BY <1>9, <1>10, <1>11 DEF Sorted
  <2>3. QED
    BY <1>8, <2>1, <2>2 DEF Sorted
<1>13. DOMAIN files' = Named(meta_list')
  <2>1. DOMAIN files' = Named(meta_list) \ {head.file}
    BY <1>8 DEF RemoveFile, SessionInv
  <2>2. \A i \in 1..Len(meta_list) : i # 1 => \E j \in 1..Len(meta_list') : i = j + 1
    BY <1>1, <1>6, <1>9
  <2>3. \A i \in 1..Len(meta_list) : i # 1 => 1 < i
    BY <1>1
  <2>4. \A i \in 1..Len(meta_list) : i # 1 => meta_list[i].file # head.file
    BY <1>6, <1>10, <2>3 DEF Sorted, head
  <2>5. \A i \in 1..Len(meta_list') : i + 1 # 1
    OBVIOUS
  <2>6. Named(meta_list') \subseteq Named(meta_list) \ {head.file}
    <3>1. ASSUME NEW i \in 1..Len(meta_list')
          PROVE  meta_list'[i].file \in Named(meta_list) \ {head.file}
      <4>1. i + 1 \in 1..Len(meta_list) /\ meta_list'[i] = meta_list[i + 1]
        BY <1>9, <1>11
      <4>2. meta_list[i + 1].file # head.file
        BY <2>4, <2>5, <4>1
      <4>3. meta_list[i + 1].file \in Named(meta_list)
        BY <4>1 DEF Named
      <4>4. QED
        BY <4>1, <4>2, <4>3
    <3>2. QED
      BY <3>1 DEF Named
  <2>7. ASSUME NEW f \in Named(meta_list), f # head.file
        PROVE  f \in Named(meta_list')
    <3>1. PICK i \in 1..Len(meta_list) : meta_list[i].file = f
      BY DEF Named
    <3>2. i # 1
      BY <2>7, <3>1 DEF head
    <3>3. PICK j \in 1..Len(meta_list') : i = j + 1
      BY <2>2, <3>1, <3>2
    <3>4. meta_list'[j].file = f
      BY <1>9, <3>1, <3>3
    <3>5. QED
      BY <3>4 DEF Named
  <2>8. QED
    BY <2>1, <2>6, <2>7
<1>14. (DOMAIN files = Named(meta_list))'
  BY <1>13 DEF Named
<1>15. MergingInv'
  <2>1. order' < meta_index /\ \A i \in 1..Len(meta_list') : order' < meta_list'[i].index
    <3>1. CASE popped = 0
      <4>1. order' = meta_list[1].index
        BY <1>8, <3>1 DEF head
      <4>2. \A i \in 1..Len(meta_list') : 1 < i + 1
        OBVIOUS
      <4>3. QED
        BY <1>6, <1>9, <1>10, <1>11, <4>1, <4>2 DEF Sorted
    <3>2. CASE popped # 0
      <4>1. order' = order /\ popped > 0
        BY <1>2, <1>8, <3>2
      <4>2. order < meta_index /\ \A i \in 1..Len(meta_list) : order < meta_list[i].index
        BY <4>1 DEF SessionInv, MergingInv
      <4>3. QED
        BY <1>9, <1>11, <4>1, <4>2
    <3>3. QED
      BY <3>1, <3>2
  <2>2. popped' # 0
    BY <1>2, <1>8
  <2>3. QED
    BY <1>8, <2>1, <2>2 DEF MergingInv
<1>16. starts # 0 /\ out = NoFile
  BY <1>2 DEF SessionInv, FreshInv, OutInv
<1>17. FreshInv' /\ RoomInv' /\ OutInv'
  BY <1>8, <1>16 DEF FreshInv, RoomInv, OutInv
<1>18. starts' \in Nat /\ crashes' = 0 /\ phase' # "crashed"
  BY <1>8 DEF SessionInv
<1>19. SessionInv'
  BY <1>12, <1>14, <1>15, <1>17, <1>18 DEF SessionInv
<1>20. QED
  BY <1>6, <1>7, <1>8, <1>9, <1>19 DEF head

\* merge puts the new table at the head of the list.
LEMMA SessionWrite ==
  ASSUME Session, SessionInv, BoundsInv', LifeInv', MergeWrite
  PROVE  /\ SessionInv'
         /\ Prepended(meta_list, meta_list', [index |-> order, file |-> meta_index])
<1>1. /\ files' = OpenFile(files, meta_index) /\ out'.number = meta_index
      /\ meta_list' = insert_node(meta_list, order, meta_index)
      /\ meta_index' = meta_index + 1 /\ phase = "merge" /\ phase' = "write" /\ popped = 2
      /\ popped' = 0 /\ temp' = <<>> /\ UNCHANGED <<starts, crashes>>
  BY DEF MergeWrite, NextNumber, MergeOrder, envVars, Session, Sizes
<1>2. /\ MERGE_TRIGGER \in Nat /\ META_LIST_CNT \in Nat /\ MERGE_TRIGGER <= META_LIST_CNT
      /\ meta_index \in Nat \ {0} /\ meta_list \in Seq(Node) /\ Len(meta_list) \in Nat
  BY SessionTypes
<1>3. Len(meta_list) + popped \in 2..MERGE_TRIGGER
  BY <1>1 DEF SessionInv, BoundsInv, PhaseInv
<1>4. Len(meta_list) # META_LIST_CNT
  BY <1>1, <1>2, <1>3
<1>5. starts # 0
  BY <1>1 DEF SessionInv, FreshInv
<1>6. popped > 0
  BY <1>1
<1>7. /\ order \in Nat \ {0} /\ order < meta_index
      /\ \A i \in 1..Len(meta_list) : order < meta_list[i].index
  BY <1>1, <1>6 DEF SessionInv, MergingInv, BoundsInv, OrderInv
<1>8. Prepended(meta_list, meta_list', [index |-> order, file |-> meta_index])
  BY <1>1, <1>2, <1>4, <1>7, InsertFirst
<1>9. Sorted(meta_list', meta_index + 1) /\ Named(meta_list') = Named(meta_list) \cup {meta_index}
  BY <1>7, <1>8, PrependSorted
<1>10. Sorted(meta_list, meta_index)' /\ Named(meta_list)' = Named(meta_list) \cup {meta_index}
  BY <1>1, <1>9 DEF Sorted, Named
<1>11. (DOMAIN files = Named(meta_list))'
  BY <1>1, <1>10 DEF SessionInv, OpenFile
<1>12. FreshInv' /\ RoomInv' /\ OutInv' /\ MergingInv'
  BY <1>1, <1>5, <1>10 DEF FreshInv, RoomInv, OutInv, MergingInv
<1>13. starts' \in Nat /\ crashes' = 0 /\ phase' # "crashed"
  BY <1>1 DEF SessionInv
<1>14. QED
  BY <1>8, <1>10, <1>11, <1>12, <1>13 DEF SessionInv

\* The program starts in an empty directory.
LEMMA SessionStart ==
  ASSUME Session, SessionInv, BoundsInv', LifeInv', Start
  PROVE  SessionInv' /\ meta_list = <<>> /\ meta_list' = <<>>
<1>1. starts \in Nat /\ starts < MaxStarts /\ MaxStarts \in Nat /\ MaxStarts <= 1
  BY KvStoreAssumption DEF Start, Session, SessionInv
<1>2. starts = 0 /\ starts' # 0 /\ starts' \in Nat
  BY <1>1 DEF Start
<1>3. meta_list = <<>> /\ DOMAIN files = {}
  <2>1. meta_list = <<>>
    BY <1>2 DEF SessionInv, FreshInv
  <2>2. 1..Len(<<>>) = {}
    BY EmptySeq
  <2>3. QED
    BY <2>1, <2>2 DEF SessionInv, Named
<1>4. PICK dir \in SetToSeqs(DOMAIN files) :
            /\ meta_index' = load_storage(dir).counter
            /\ meta_list' = load_storage(dir).list
  BY DEF Start
<1>5. IsFiniteSet({}) /\ Cardinality({}) = 0
  BY FS_EmptySet
<1>6. META_LIST_CNT \in Nat /\ MERGE_TRIGGER \in Nat /\ MERGE_TRIGGER >= 2
  BY SessionTypes
<1>7. dir \in SetToSeqs({})
  BY <1>3, <1>4
<1>8. Cardinality({}) <= META_LIST_CNT /\ {} \subseteq Nat \ {0}
  BY <1>5, <1>6
<1>9. InNumberOrder(load_storage(dir).list, {}) /\ Len(load_storage(dir).list) = Cardinality({})
  BY <1>5, <1>7, <1>8, Loaded
<1>10. meta_list' \in Seq(Node) /\ Len(meta_list') = 0
  BY <1>4, <1>5, <1>9 DEF InNumberOrder
<1>11. meta_list' = <<>> /\ 1..Len(meta_list') = {}
  BY <1>10, EmptySeq
<1>12. /\ phase' = "ready" /\ temp' = <<>> /\ popped' = 0 /\ out' = NoFile
       /\ UNCHANGED <<files, crashes>>
  BY DEF Start
<1>13. (DOMAIN files = Named(meta_list))' /\ Sorted(meta_list, meta_index)'
  BY <1>3, <1>11, <1>12 DEF Named, Sorted
<1>14. FreshInv' /\ OutInv' /\ MergingInv'
  BY <1>2, <1>12 DEF FreshInv, OutInv, MergingInv
<1>15. RoomInv'
  BY <1>6, <1>10 DEF RoomInv
<1>16. crashes' = 0 /\ phase' # "crashed"
  BY <1>12 DEF SessionInv
<1>17. QED
  BY <1>2, <1>3, <1>11, <1>13, <1>14, <1>15, <1>16 DEF SessionInv

\* With a merge process that lives main is never stuck.
LEMMA LivesOn ==
  ASSUME NEW list, NEW quit, merger # "dead"
  PROVE  Rest(list, quit) # "stuck"
<1> DEFINE full == NeedsMerge(list)
<1>1. Rest(list, quit) = CASE ~full /\ ~quit -> "ready"
                           [] (full \/ quit) /\ FALSE -> "stuck"
                           [] full /\ TRUE -> "merge"
                           [] ~full /\ quit /\ TRUE -> "down"
  BY DEF Rest
<1> HIDE DEF full
<1>2. CASE ~full /\ ~quit
  BY <1>1, <1>2
<1>3. CASE full
  BY <1>1, <1>3
<1>4. CASE ~full /\ quit
  BY <1>1, <1>4
<1>5. QED
  BY <1>2, <1>3, <1>4

\* Rest goes on to the merge when the list is full.
LEMMA RestRoom ==
  ASSUME Session, SessionInv, NEW quit, phase' = Rest(meta_list, quit)
  PROVE  /\ phase' \in {"ready", "down", "merge"}
         /\ phase' # "merge" => Len(meta_list) < MERGE_TRIGGER
<1>1. /\ Len(meta_list) = MERGE_TRIGGER => phase' = "merge"
      /\ Len(meta_list) # MERGE_TRIGGER => phase' \in {"down", "ready"}
  <2>1. merger # "dead"
    BY DEF SessionInv, LifeInv
  <2>2. phase' # "stuck"
    BY <2>1, LivesOn
  <2>3. QED
    BY <2>2, RestIs
<1>2. Len(meta_list) \in Nat /\ MERGE_TRIGGER \in Nat /\ Len(meta_list) <= MERGE_TRIGGER
  BY SessionTypes DEF SessionInv, BoundsInv, PhaseInv
<1>3. QED
  BY <1>1, <1>2

\* fclose at the end of flush and of merge.
LEMMA SessionClose ==
  ASSUME Session, SessionInv, phase \in {"flush", "write"},
         files' = [files EXCEPT ![out.number] = out.lines]
  PROVE  popped = 0 /\ starts # 0 /\ DOMAIN files' = DOMAIN files
<1>1. popped = 0
  BY DEF SessionInv, BoundsInv, PhaseInv
<1>2. starts # 0
  BY DEF SessionInv, FreshInv
<1>3. QED
  BY <1>1, <1>2

\* Every table of the list can be opened.
LEMMA NoneMissing ==
  ASSUME Session, SessionInv, NEW k \in Keys
  PROVE  ~ReadsMissingFile(k)
<1>1. \A i \in 1..Len(meta_list) : meta_list[i].file \in DOMAIN files
  BY DEF SessionInv, Named
<1>2. LastStop(k) > 0 => LastStop(k) \in 1..Len(meta_list)
  <2> DEFINE I == {i \in 1..Len(meta_list) : StopsAt(k, meta_list[i])}
  <2>1. LastStop(k) = IF I # {} THEN Max(I) ELSE 0
    BY DEF LastStop, SelectLastInSeq
  <2>2. Len(meta_list) \in Nat /\ I \in SUBSET (1..Len(meta_list))
    BY SessionTypes
  <2>3. I # {} => Max(I) \in I
    BY <2>2, LastPosition
  <2>4. QED
    BY <2>1, <2>3
<1>3. QED
  BY <1>1, <1>2 DEF ReadsMissingFile

\* A merge finds both tables, so that the merge process lives.
LEMMA LifeStep ==
  ASSUME Session, SessionInv, [Next]_vars
  PROVE  LifeInv'
<1>1. merger # "dead" /\ (starts = 0 => answer = NoAnswer /\ phase = "down") /\ starts \in Nat
  BY DEF SessionInv, LifeInv, FreshInv
<1>2. ASSUME NEW list, NEW quit, GoOn(list, quit)
      PROVE  merger' # "dead"
  BY <1>1, <1>2 DEF GoOn
<1>3. CASE Start
  <2>1. starts' # 0 /\ merger' = "waits"
    BY <1>1, <1>3 DEF Start
  <2>2. QED
    BY <2>1 DEF LifeInv
<1>4. CASE Back
  <2>1. merger' # "dead"
    <3>1. CASE memory_table # <<>>
      BY <1>1, <1>4, <3>1 DEF Back, Flush
    <3>2. CASE memory_table = <<>>
      BY <1>1, <1>4, <3>2 DEF Back, GoOn
    <3>3. QED
      BY <3>1, <3>2
  <2>2. QED
    BY <1>1, <1>4, <2>1 DEF Back, envVars, LifeInv
<1>5. CASE CloseFlush
  BY <1>1, <1>2, <1>5 DEF CloseFlush, envVars, LifeInv
<1>6. CASE ManualMerge
  BY <1>1, <1>6 DEF ManualMerge, envVars, LifeInv
<1>7. CASE MergeRead
  <2>1. Head(meta_list).file \in DOMAIN files
    <3>1. /\ Len(meta_list) \in Nat /\ meta_list \in Seq(Node)
          /\ Len(meta_list) + popped \in 2..MERGE_TRIGGER /\ popped \in 0..1
          /\ MERGE_TRIGGER \in Nat
      BY <1>7, SessionTypes DEF MergeRead, SessionInv, BoundsInv, PhaseInv, Session, Sizes
    <3>2. Len(meta_list) # 0
      BY <3>1
    <3>3. 1 \in 1..Len(meta_list) /\ meta_list # <<>>
      BY <3>1, <3>2, EmptySeq
    <3>4. Head(meta_list) = meta_list[1]
      BY <3>1, <3>3, HeadTailProperties
    <3>5. meta_list[1].file \in DOMAIN files
      BY <3>3 DEF SessionInv, Named
    <3>6. QED
      BY <3>4, <3>5
  <2>2. UNCHANGED <<merger, answer, starts>>
    BY <1>7, <2>1 DEF MergeRead, envVars
  <2>3. QED
    BY <1>1, <2>2 DEF LifeInv
<1>8. CASE MergeWrite
  BY <1>1, <1>8 DEF MergeWrite, envVars, LifeInv
<1>9. CASE CloseMerge
  BY <1>1, <1>9 DEF CloseMerge, envVars, LifeInv
<1>10. CASE Crash
  BY <1>10 DEF Crash, LifeInv
<1>11. ASSUME NEW k \in Keys, put_pair(k)
       PROVE  LifeInv'
  <2> DEFINE t == Append(memory_table, [index |-> table_index, key |-> k, value |-> Len(puts) + 1])
  <2>1. merger' # "dead"
    <3>1. CASE Full(t)
      BY <1>1, <1>11, <3>1 DEF put_pair, Flush
    <3>2. CASE ~Full(t)
      BY <1>1, <1>11, <3>2 DEF put_pair, GoOn
    <3>3. QED
      BY <3>1, <3>2
  <2>2. QED
    BY <1>1, <1>11, <2>1 DEF put_pair, LifeInv
<1>12. ASSUME NEW k \in Keys, Get(k)
       PROVE  LifeInv'
  BY <1>1, <1>12 DEF Get, LifeInv
<1>13. CASE UNCHANGED vars
  BY <1>1, <1>13 DEF vars, LifeInv
<1>14. QED
  BY <1>3, <1>4, <1>5, <1>6, <1>7, <1>8, <1>9, <1>10, <1>11, <1>12, <1>13 DEF Next

\* Every step keeps SessionInv.
LEMMA SessionStep ==
  ASSUME Session, SessionInv, [Next]_vars
  PROVE  SessionInv'
<1>1. BoundsInv' /\ BoundsInv /\ Sizes /\ LifeInv'
  BY BoundsStep, LifeStep DEF Session, SessionInv
<1>2. CASE Start
  BY <1>1, <1>2, SessionStart
<1>3. CASE Back
  <2>1. phase = "ready" /\ UNCHANGED <<temp, popped, starts, crashes>>
    BY <1>3 DEF Back, mergeVars, envVars
  <2>2. CASE memory_table # <<>>
    <3>1. Flush(memory_table)
      BY <1>3, <2>2 DEF Back
    <3>2. QED
      BY <1>1, <2>1, <3>1, SessionFlush
  <2>3. CASE memory_table = <<>>
    <3>1. phase' = Rest(meta_list, TRUE) /\ UNCHANGED <<meta_index, meta_list, files, out>>
      BY <1>3, <2>3 DEF Back, GoOn
    <3>2. QED
      BY <1>1, <2>1, <3>1, AtRequest, RestRoom, SameSession
  <2>4. QED
    BY <2>2, <2>3
<1>4. CASE CloseFlush
  <2>1. /\ phase = "flush" /\ files' = [files EXCEPT ![out.number] = out.lines]
        /\ out' = NoFile /\ phase' = Rest(meta_list, closing)
        /\ UNCHANGED <<meta_index, meta_list, temp, popped, starts, crashes>>
    BY <1>4 DEF CloseFlush, GoOn, ramVars, mergeVars, envVars
  <2>2. QED
    BY <1>1, <2>1, RestRoom, SessionClose, SameSession
<1>5. CASE ManualMerge
  <2>1. /\ phase = "ready" /\ phase' = "merge"
        /\ UNCHANGED <<meta_index, meta_list, temp, popped, starts, crashes, files, out>>
    BY <1>5 DEF ManualMerge, ramVars, mergeVars, envVars
  <2>2. QED
    BY <1>1, <2>1, AtRequest, SameSession
<1>6. CASE MergeRead
  BY <1>1, <1>6, SessionRead
<1>7. CASE MergeWrite
  BY <1>1, <1>7, SessionWrite
<1>8. CASE CloseMerge
  <2>1. /\ phase = "write" /\ files' = [files EXCEPT ![out.number] = out.lines]
        /\ out' = NoFile /\ phase' \in {"down", "ready"}
        /\ UNCHANGED <<meta_index, meta_list, temp, popped, starts, crashes>>
    BY <1>8 DEF CloseMerge, ramVars, mergeVars, envVars
  <2>2. Len(meta_list) < MERGE_TRIGGER
    BY <1>1, <2>1 DEF BoundsInv, PhaseInv
  <2>3. QED
    BY <1>1, <2>1, <2>2, SessionClose, SameSession
<1>9. CASE Crash
  <2>1. crashes < 0
    BY <1>9 DEF Crash, Session
  <2>2. QED
    BY <2>1 DEF SessionInv
<1>10. ASSUME NEW k \in Keys, put_pair(k)
       PROVE  SessionInv'
  <2> DEFINE t == Append(memory_table, [index |-> table_index, key |-> k, value |-> Len(puts) + 1])
  <2>1. phase = "ready" /\ UNCHANGED <<temp, popped, starts, crashes>>
    BY <1>10 DEF put_pair, mergeVars
  <2>2. CASE Full(t)
    <3>1. Flush(t)
      BY <1>10, <2>2 DEF put_pair
    <3>2. QED
      BY <1>1, <2>1, <3>1, SessionFlush
  <2>3. CASE ~Full(t)
    <3>1. phase' = Rest(meta_list, closing) /\ UNCHANGED <<meta_index, meta_list, files, out>>
      BY <1>10, <2>3 DEF put_pair, GoOn
    <3>2. QED
      BY <1>1, <2>1, <3>1, AtRequest, RestRoom, SameSession
  <2>4. QED
    BY <2>2, <2>3
<1>11. ASSUME NEW k \in Keys, Get(k)
       PROVE  SessionInv'
  <2>1. ~ReadsMissingFile(k)
    BY NoneMissing
  <2>2. /\ phase = "ready" /\ phase' = "ready"
        /\ UNCHANGED <<meta_index, meta_list, temp, popped, starts, crashes, files, out>>
    BY <1>11, <2>1 DEF Get, ramVars, mergeVars
  <2>3. QED
    BY <1>1, <2>2, AtRequest, SameSession
<1>12. CASE UNCHANGED vars
  <2>1. UNCHANGED <<phase, memory_table, puts, meta_index, meta_list, temp, popped, order, files,
                    out, starts, crashes>>
    BY <1>12 DEF vars
  <2>2. Sorted(meta_list, meta_index)' /\ (DOMAIN files = Named(meta_list))'
    BY <2>1 DEF SessionInv, Sorted, Named
  <2>3. FreshInv' /\ OutInv' /\ MergingInv' /\ RoomInv'
    BY <2>1 DEF SessionInv, FreshInv, OutInv, MergingInv, RoomInv, Named
  <2>4. QED
    BY <1>1, <2>1, <2>2, <2>3 DEF SessionInv
<1>13. QED
  BY <1>2, <1>3, <1>4, <1>5, <1>6, <1>7, <1>8, <1>9, <1>10, <1>11, <1>12 DEF Next

----------------------------------------------------------------------------
(* What a search returns.                                                  *)

\* v is the value of the last pair with key k in t.
IsFound(t, k, v) ==
  \/ v = NOT_FOUND /\ \A i \in 1..Len(t) : t[i].key # k
  \/ \E i \in 1..Len(t) : /\ t[i].key = k /\ t[i].value = v
                          /\ \A j \in 1..Len(t) : i < j => t[j].key # k

\* search finds it.
LEMMA SearchIs ==
  ASSUME NEW t \in Seq(Pair), NEW k
  PROVE  IsFound(t, k, search(t, k))
<1> DEFINE I == {i \in 1..Len(t) : t[i].key = k}
           m == IF I # {} THEN Max(I) ELSE 0
<1>1. search(t, k) = IF m = 0 THEN NOT_FOUND ELSE t[m].value
  BY DEF search, SelectLastInSeq
<1>2. Len(t) \in Nat /\ I \in SUBSET (1..Len(t))
  BY LenProperties
<1>3. CASE I = {}
  BY <1>1, <1>3 DEF IsFound
<1>4. CASE I # {}
  <2>1. Max(I) \in I /\ \A y \in I : y <= Max(I)
    BY <1>2, <1>4, LastPosition
  <2>2. PICK n \in 1..Len(t) : n = Max(I)
    BY <2>1
  <2>3. m = n /\ t[n].key = k /\ n # 0
    BY <1>2, <1>4, <2>1, <2>2
  <2>4. \A j \in 1..Len(t) : n < j => t[j].key # k
    BY <1>2, <2>1, <2>2
  <2>5. search(t, k) = t[n].value
    BY <1>1, <2>3
  <2>6. QED
    BY <2>3, <2>4, <2>5 DEF IsFound
<1>5. QED
  BY <1>3, <1>4

\* There is only one such value.
LEMMA SearchFound ==
  ASSUME NEW t \in Seq(Pair), NEW k, NEW v, IsFound(t, k, v)
  PROVE  search(t, k) = v
<1> DEFINE w == search(t, k)
<1>1. IsFound(t, k, w)
  BY SearchIs
<1> HIDE DEF w
<1>2. Len(t) \in Nat
  BY LenProperties
<1>3. CASE \A i \in 1..Len(t) : t[i].key # k
  BY <1>1, <1>3 DEF IsFound, w
<1>4. CASE \E i \in 1..Len(t) : t[i].key = k
  <2>1. PICK a \in 1..Len(t) : t[a].key = k /\ t[a].value = v
                               /\ \A j \in 1..Len(t) : a < j => t[j].key # k
    BY <1>4 DEF IsFound
  <2>2. PICK b \in 1..Len(t) : t[b].key = k /\ t[b].value = w
                               /\ \A j \in 1..Len(t) : b < j => t[j].key # k
    BY <1>1, <1>4 DEF IsFound
  <2>3. a = b
    BY <1>2, <2>1, <2>2
  <2>4. QED
    BY <2>1, <2>2, <2>3 DEF w
<1>5. QED
  BY <1>3, <1>4

\* It is NOT_FOUND or the number of a put.
LEMMA SearchType ==
  ASSUME ContentInv, NEW t \in Seq(Written), NEW k
  PROVE  search(t, k) \in {NOT_FOUND} \cup 1..Len(puts)
<1>1. t \in Seq(Pair)
  BY SeqMonotonic DEF Written
<1>2. \A i \in 1..Len(t) : t[i] \in Written
  BY ElementOfSeq
<1>3. \A i \in 1..Len(t) : t[i].value \in 1..Len(puts)
  BY <1>2 DEF Written
<1>4. IsFound(t, k, search(t, k))
  BY <1>1, SearchIs
<1>5. QED
  BY <1>3, <1>4 DEF IsFound

\* Nothing is found in an empty table.
LEMMA SearchEmpty ==
  ASSUME NEW k
  PROVE  search(<<>>, k) = NOT_FOUND
<1>1. <<>> \in Seq(Pair) /\ 1..Len(<<>>) = {}
  BY EmptySeq
<1>2. IsFound(<<>>, k, NOT_FOUND)
  BY <1>1 DEF IsFound
<1>3. QED
  BY <1>1, <1>2, SearchFound

\* In two tables one after the other the second one counts.
LEMMA SearchConcat ==
  ASSUME NEW s \in Seq(Pair), NEW t \in Seq(Pair), NEW k
  PROVE  search(s \o t, k) = IF search(t, k) # NOT_FOUND THEN search(t, k) ELSE search(s, k)
<1> DEFINE u == s \o t
           n == Len(s)
<1>1. n \in Nat /\ Len(t) \in Nat
  BY LenProperties
<1>2. /\ u \in Seq(Pair) /\ Len(u) = n + Len(t)
      /\ \A i \in 1..Len(u) : u[i] = IF i <= n THEN s[i] ELSE t[i - n]
  BY ConcatProperties
<1> HIDE DEF u
<1>3. \A i \in 1..n : i \in 1..Len(u) /\ u[i] = s[i]
  BY <1>1, <1>2
<1>4. \A i \in 1..Len(t) : n + i \in 1..Len(u) /\ u[n + i] = t[i]
  <2> TAKE i \in 1..Len(t)
  <2>1. n + i \in 1..Len(u) /\ ~(n + i <= n) /\ (n + i) - n = i
    BY <1>1, <1>2
  <2>2. QED
    BY <1>2, <2>1
<1>5. \A j \in 1..Len(u) : j \in 1..n \/ \E i \in 1..Len(t) : j = n + i
  <2> TAKE j \in 1..Len(u)
  <2>1. CASE j > n
    <3>1. j - n \in 1..Len(t) /\ j = n + (j - n)
      BY <1>1, <1>2, <2>1
    <3>2. QED
      BY <3>1
  <2>2. CASE ~(j > n)
    BY <1>1, <1>2, <2>2
  <2>3. QED
    BY <2>1, <2>2
<1> HIDE DEF n
<1>6. IsFound(s, k, search(s, k)) /\ IsFound(t, k, search(t, k))
  BY SearchIs
<1>7. CASE \A i \in 1..Len(t) : t[i].key # k
  <2>1. search(t, k) = NOT_FOUND
    BY <1>6, <1>7 DEF IsFound
  <2>2. \A i \in 1..Len(t) : u[n + i].key # k
    BY <1>4, <1>7
  <2>3. CASE \A i \in 1..n : s[i].key # k
    <3>1. search(s, k) = NOT_FOUND
      BY <1>6, <2>3 DEF IsFound, n
    <3>2. \A j \in 1..Len(u) : u[j].key # k
      BY <1>3, <1>5, <2>2, <2>3
    <3>3. IsFound(u, k, search(s, k))
      BY <3>1, <3>2 DEF IsFound
    <3>4. QED
      BY <1>2, <2>1, <3>3, SearchFound DEF u
  <2>4. CASE \E i \in 1..n : s[i].key = k
    <3>1. PICK a \in 1..n : s[a].key = k /\ s[a].value = search(s, k)
                            /\ \A j \in 1..n : a < j => s[j].key # k
      BY <1>6, <2>4 DEF IsFound, n
    <3>2. \A j \in 1..Len(u) : a < j => u[j].key # k
      BY <1>3, <1>5, <2>2, <3>1
    <3>3. a \in 1..Len(u) /\ u[a].key = k /\ u[a].value = search(s, k)
      BY <1>3, <3>1
    <3>4. IsFound(u, k, search(s, k))
      BY <3>2, <3>3 DEF IsFound
    <3>5. QED
      BY <1>2, <2>1, <3>4, SearchFound DEF u
  <2>5. QED
    BY <2>3, <2>4
<1>8. CASE \E i \in 1..Len(t) : t[i].key = k
  <2>1. PICK a \in 1..Len(t) : t[a].key = k /\ t[a].value = search(t, k)
                               /\ \A j \in 1..Len(t) : a < j => t[j].key # k
    BY <1>6, <1>8 DEF IsFound
  <2>2. search(t, k) # NOT_FOUND
    <3>1. t[a] \in Pair
      BY <2>1, ElementOfSeq
    <3>2. t[a].value \in Nat
      BY <3>1 DEF Pair
    <3>3. QED
      BY <2>1, <3>2 DEF NOT_FOUND
  <2>3. n + a \in 1..Len(u) /\ u[n + a].key = k /\ u[n + a].value = search(t, k)
    BY <1>4, <2>1
  <2>4. ASSUME NEW j \in 1..Len(u), n + a < j
        PROVE  u[j].key # k
    <3>1. j \notin 1..n
      BY <1>1, <2>4 DEF n
    <3>2. PICK i \in 1..Len(t) : j = n + i
      BY <1>5, <3>1
    <3>3. a < i
      BY <1>1, <2>4, <3>2 DEF n
    <3>4. QED
      BY <1>4, <2>1, <3>2, <3>3
  <2>5. IsFound(u, k, search(t, k))
    BY <2>3, <2>4 DEF IsFound
  <2>6. QED
    BY <1>2, <2>2, <2>5, SearchFound DEF u
<1>9. QED
  BY <1>7, <1>8

\* A pair that is appended is the last one of its key.
LEMMA SearchAppend ==
  ASSUME NEW t \in Seq(Pair), NEW pair \in Pair, NEW k
  PROVE  search(Append(t, pair), k) = IF pair.key = k THEN pair.value ELSE search(t, k)
<1> DEFINE u == Append(t, pair)
           n == Len(t)
<1>1. n \in Nat
  BY LenProperties
<1>2. /\ u \in Seq(Pair) /\ Len(u) = n + 1 /\ \A i \in 1..n : u[i] = t[i]
      /\ u[n + 1] = pair
  BY AppendProperties
<1> HIDE DEF u
<1>3. IsFound(t, k, search(t, k))
  BY SearchIs
<1>4. n + 1 \in 1..Len(u) /\ \A i \in 1..Len(u) : i \in 1..n \/ i = n + 1
  BY <1>1, <1>2
<1>5. \A i \in 1..n : i \in 1..Len(u)
  BY <1>1, <1>2
<1>6. CASE pair.key = k
  <2>1. \A j \in 1..Len(u) : ~(n + 1 < j)
    BY <1>1, <1>2
  <2>2. IsFound(u, k, pair.value)
    BY <1>2, <1>4, <1>6, <2>1 DEF IsFound
  <2>3. QED
    BY <1>2, <1>6, <2>2, SearchFound DEF u
<1>7. CASE pair.key # k
  <2>1. IsFound(u, k, search(t, k))
    <3>1. CASE \A i \in 1..n : t[i].key # k
      <4>1. search(t, k) = NOT_FOUND
        BY <1>3, <3>1 DEF IsFound
      <4>2. \A i \in 1..Len(u) : u[i].key # k
        BY <1>2, <1>4, <1>7, <3>1
      <4>3. QED
        BY <4>1, <4>2 DEF IsFound
    <3>2. CASE \E i \in 1..n : t[i].key = k
      <4>1. PICK a \in 1..n : t[a].key = k /\ t[a].value = search(t, k)
                              /\ \A j \in 1..n : a < j => t[j].key # k
        BY <1>3, <3>2 DEF IsFound
      <4>2. \A j \in 1..Len(u) : a < j => u[j].key # k
        BY <1>2, <1>4, <1>7, <4>1
      <4>3. QED
        BY <1>2, <1>5, <4>1, <4>2 DEF IsFound
    <3>3. QED
      BY <3>1, <3>2
  <2>2. QED
    BY <1>2, <1>7, <2>1, SearchFound DEF u
<1>8. QED
  BY <1>6, <1>7

\* A merge does not change what is found.
LEMMA SearchMerged ==
  ASSUME NEW t \in Seq(Pair), NEW k
  PROVE  search(Merged(t), k) = search(t, k)
<1>1. PICK m, r : MergedBy(t, m, r) /\ Merged(t) = Picked(t, m, r)
  BY MergedPairs
<1> DEFINE u == Merged(t)
<1>2. u \in Seq(Pair)
  BY MergedLength
<1>3. /\ m \in Nat /\ r \in [1..m -> 1..Len(t)] /\ Len(t) \in Nat
      /\ \A a, b \in 1..m : a < b => t[r[a]].key < t[r[b]].key
      /\ \A j \in 1..Len(t) : \E a \in 1..m : t[r[a]].key = t[j].key /\ r[a] >= j
  BY <1>1, LenProperties DEF MergedBy
<1>4. Len(u) = m
  BY <1>1, <1>2, <1>3, LenProperties DEF Picked
<1>5. \A a \in 1..m : u[a].key = t[r[a]].key /\ u[a].value = t[r[a]].value
  <2> TAKE a \in 1..m
  <2>1. u[a] = [t[r[a]] EXCEPT !.index = a]
    BY <1>1 DEF Picked
  <2>2. t[r[a]] \in Pair
    BY <1>3, ElementOfSeq
  <2>3. PICK x \in Pair : x = t[r[a]]
    BY <2>2
  <2>4. [x EXCEPT !.index = a].key = x.key /\ [x EXCEPT !.index = a].value = x.value
    BY DEF Pair
  <2>5. QED
    BY <2>1, <2>3, <2>4
<1> HIDE DEF u
<1>6. \A i \in 1..Len(t) : t[i].key \in Nat
  BY PairKeys
<1>7. IsFound(t, k, search(t, k))
  BY SearchIs
<1>8. CASE \A i \in 1..Len(t) : t[i].key # k
  <2>1. search(t, k) = NOT_FOUND
    BY <1>7, <1>8 DEF IsFound
  <2>2. \A a \in 1..m : u[a].key # k
    <3>1. \A a \in 1..m : r[a] \in 1..Len(t)
      BY <1>3
    <3>2. QED
      BY <1>5, <1>8, <3>1
  <2>3. IsFound(u, k, search(t, k))
    BY <1>4, <2>1, <2>2 DEF IsFound
  <2>4. QED
    BY <1>2, <2>3, SearchFound DEF u
<1>9. CASE \E i \in 1..Len(t) : t[i].key = k
  <2>1. PICK i \in 1..Len(t) : t[i].key = k /\ t[i].value = search(t, k)
                               /\ \A j \in 1..Len(t) : i < j => t[j].key # k
    BY <1>7, <1>9 DEF IsFound
  <2>2. PICK a \in 1..m : t[r[a]].key = t[i].key /\ r[a] >= i
    BY <1>3
  <2>3. r[a] \in 1..Len(t)
    BY <1>3
  <2>4. ~(i < r[a])
    BY <2>1, <2>2, <2>3
  <2>5. r[a] = i
    BY <1>3, <2>2, <2>3, <2>4
  <2>6. \A b \in 1..m : a < b => u[b].key # k
    <3> TAKE b \in 1..m
    <3>1. HAVE a < b
    <3>2. t[r[a]].key < t[r[b]].key /\ r[b] \in 1..Len(t)
      BY <1>3, <3>1
    <3>3. t[r[a]].key \in Nat /\ t[r[b]].key \in Nat
      BY <1>6, <2>3, <3>2
    <3>4. QED
      BY <1>5, <2>1, <2>2, <3>2, <3>3
  <2>7. u[a].key = k /\ u[a].value = search(t, k)
    BY <1>5, <2>1, <2>5
  <2>8. IsFound(u, k, search(t, k))
    BY <1>4, <2>6, <2>7 DEF IsFound
  <2>9. QED
    BY <1>2, <2>8, SearchFound DEF u
<1>10. QED
  BY <1>8, <1>9

----------------------------------------------------------------------------
(* What the store holds.                                                   *)

\* The value for a key when the searches in the memory table, in the n tables of the
\* list and in the array of merge return mem, tab and tmp.
Holds(mem, tab, n, tmp, v) ==
  \/ mem # NOT_FOUND /\ v = mem
  \/ /\ mem = NOT_FOUND
     /\ \E i \in 1..n : /\ tab[i] # NOT_FOUND /\ v = tab[i]
                        /\ \A j \in 1..n : i < j => tab[j] = NOT_FOUND
  \/ /\ mem = NOT_FOUND /\ \A i \in 1..n : tab[i] = NOT_FOUND
     /\ v = IF tmp # NOT_FOUND THEN tmp ELSE Nothing

\* The lines of a table, and what the searches in the tables of a list return.
TableIn(buffer, disk, number) ==
  IF number = buffer.number THEN buffer.lines
  ELSE IF number \in DOMAIN disk THEN disk[number] ELSE <<>>
Found(buffer, disk, list, k) ==
  [i \in 1..Len(list) |-> search(Pairs(TableIn(buffer, disk, list[i].file)), k)]

\* The last put of a key.
LastOf(keys, k) == LET I == {i \in 1..Len(keys) : keys[i] = k}
                   IN  IF I # {} THEN Max(I) ELSE 0

\* Every key has the value put last.
Reads(mem, buffer, disk, list, tmp, keys) ==
  \A k \in Keys : Holds(search(mem, k), Found(buffer, disk, list, k), Len(list),
                        search(tmp, k), LastOf(keys, k))
ReadsInv == Reads(memory_table, out, files, meta_list, temp, puts)

\* LastOf is LastPut.
LEMMA LastPutIs ==
  ASSUME NEW k
  PROVE  LastPut(k) = LastOf(puts, k)
  BY DEF LastPut, LastOf, SelectLastInSeq

\* A put is the last of its key and of no other.
LEMMA LastAppend ==
  ASSUME NEW keys \in Seq(Keys), NEW key \in Keys, NEW k
  PROVE  LastOf(Append(keys, key), k) = IF key = k THEN Len(keys) + 1 ELSE LastOf(keys, k)
<1> DEFINE u == Append(keys, key)
           n == Len(keys)
           I == {i \in 1..n : keys[i] = k}
           J == {i \in 1..Len(u) : u[i] = k}
<1>1. n \in Nat
  BY LenProperties
<1>2. Len(u) = n + 1 /\ (\A i \in 1..n : u[i] = keys[i]) /\ u[n + 1] = key
  BY AppendProperties
<1>3. LastOf(u, k) = (IF J # {} THEN Max(J) ELSE 0)
      /\ LastOf(keys, k) = (IF I # {} THEN Max(I) ELSE 0)
  BY DEF LastOf
<1> HIDE DEF u
<1>4. n + 1 \in Nat /\ J \in SUBSET (1..(n + 1))
  BY <1>1, <1>2
<1>5. CASE key = k
  <2>1. n + 1 \in J
    BY <1>1, <1>2, <1>5
  <2>2. Max(J) \in J /\ \A y \in J : y <= Max(J)
    BY <1>4, <2>1, LastPosition
  <2>3. Max(J) = n + 1
    BY <1>1, <1>4, <2>1, <2>2
  <2>4. J # {}
    BY <2>1
  <2>5. QED
    BY <1>3, <1>5, <2>3, <2>4 DEF u
<1>6. CASE key # k
  <2>1. J = I
    <3>1. \A i \in 1..Len(u) : i \in 1..n \/ i = n + 1
      BY <1>1, <1>2
    <3>2. \A i \in 1..n : i \in 1..Len(u)
      BY <1>1, <1>2
    <3>3. QED
      BY <1>2, <1>6, <3>1, <3>2
  <2>2. QED
    BY <1>3, <1>6, <2>1 DEF u
<1>7. QED
  BY <1>5, <1>6

\* Holds looks at the searches in the n tables only.
LEMMA HoldsSame ==
  ASSUME NEW mem, NEW tab, NEW n, NEW tmp, NEW v, Holds(mem, tab, n, tmp, v),
         NEW new, \A i \in 1..n : new[i] = tab[i]
  PROVE  Holds(mem, new, n, tmp, v)
  BY DEF Holds

\* The memory table becomes the last table.
LEMMA HoldsFlush ==
  ASSUME NEW mem, NEW tab, NEW n \in Nat, NEW tmp, NEW v, Holds(mem, tab, n, tmp, v),
         NEW new, \A i \in 1..n : new[i] = tab[i], new[n + 1] = mem
  PROVE  Holds(NOT_FOUND, new, n + 1, tmp, v)
<1>1. \A i \in 1..(n + 1) : i \in 1..n \/ i = n + 1
  OBVIOUS
<1>2. n + 1 \in 1..(n + 1) /\ \A j \in 1..(n + 1) : ~(n + 1 < j)
  OBVIOUS
<1>3. \A i \in 1..n : i \in 1..(n + 1)
  OBVIOUS
<1>4. CASE mem # NOT_FOUND
  BY <1>2, <1>4 DEF Holds
<1>5. CASE mem = NOT_FOUND /\ \E i \in 1..n : tab[i] # NOT_FOUND
  <2>1. PICK i \in 1..n : /\ tab[i] # NOT_FOUND /\ v = tab[i]
                          /\ \A j \in 1..n : i < j => tab[j] = NOT_FOUND
    BY <1>5 DEF Holds
  <2>2. \A j \in 1..(n + 1) : i < j => new[j] = NOT_FOUND
    BY <1>1, <1>5, <2>1
  <2>3. QED
    BY <1>3, <2>1, <2>2 DEF Holds
<1>6. CASE mem = NOT_FOUND /\ \A i \in 1..n : tab[i] = NOT_FOUND
  BY <1>1, <1>6 DEF Holds
<1>7. QED
  BY <1>4, <1>5, <1>6

\* The first table becomes the last part of the array of merge.
LEMMA HoldsRead ==
  ASSUME NEW mem, NEW tab, NEW n \in Nat \ {0}, NEW tmp, NEW v, Holds(mem, tab, n, tmp, v),
         NEW new, \A i \in 1..(n - 1) : new[i] = tab[i + 1]
  PROVE  Holds(mem, new, n - 1, IF tab[1] # NOT_FOUND THEN tab[1] ELSE tmp, v)
<1> DEFINE tmp2 == IF tab[1] # NOT_FOUND THEN tab[1] ELSE tmp
<1>1. \A i \in 1..(n - 1) : i + 1 \in 1..n /\ 1 < i + 1
  OBVIOUS
<1>2. 1 \in 1..n /\ \A i \in 1..n : i = 1 \/ \E j \in 1..(n - 1) : i = j + 1
  OBVIOUS
<1>3. \A i, j \in 1..(n - 1) : i < j => i + 1 < j + 1
  OBVIOUS
<1>4. CASE mem # NOT_FOUND
  BY <1>4 DEF Holds
<1>5. CASE mem = NOT_FOUND /\ \E i \in 1..n : tab[i] # NOT_FOUND
  <2>1. PICK i \in 1..n : /\ tab[i] # NOT_FOUND /\ v = tab[i]
                          /\ \A j \in 1..n : i < j => tab[j] = NOT_FOUND
    BY <1>5 DEF Holds
  <2>2. CASE i = 1
    <3>1. \A j \in 1..(n - 1) : new[j] = NOT_FOUND
      BY <1>1, <2>1, <2>2
    <3>2. tmp2 = v /\ tmp2 # NOT_FOUND
      BY <2>1, <2>2
    <3>3. QED
      BY <1>5, <3>1, <3>2 DEF Holds
  <2>3. CASE i # 1
    <3>1. PICK a \in 1..(n - 1) : i = a + 1
      BY <1>2, <2>3
    <3>2. new[a] # NOT_FOUND /\ v = new[a]
      BY <2>1, <3>1
    <3>3. \A j \in 1..(n - 1) : a < j => new[j] = NOT_FOUND
      BY <1>1, <1>3, <2>1, <3>1
    <3>4. QED
      BY <1>5, <3>2, <3>3 DEF Holds
  <2>4. QED
    BY <2>2, <2>3
<1>6. CASE mem = NOT_FOUND /\ \A i \in 1..n : tab[i] = NOT_FOUND
  <2>1. \A j \in 1..(n - 1) : new[j] = NOT_FOUND
    BY <1>1, <1>6
  <2>2. tmp2 = tmp
    BY <1>2, <1>6
  <2>3. QED
    BY <1>6, <2>1, <2>2 DEF Holds
<1>7. QED
  BY <1>4, <1>5, <1>6

\* The array of merge becomes the first table.
LEMMA HoldsWrite ==
  ASSUME NEW mem, NEW tab, NEW n \in Nat, NEW tmp, NEW v, Holds(mem, tab, n, tmp, v),
         NEW new, new[1] = tmp, \A i \in 1..n : new[i + 1] = tab[i]
  PROVE  Holds(mem, new, n + 1, NOT_FOUND, v)
<1>1. \A i \in 1..n : i + 1 \in 1..(n + 1)
  OBVIOUS
<1>2. 1 \in 1..(n + 1) /\ \A i \in 1..(n + 1) : i = 1 \/ \E j \in 1..n : i = j + 1
  OBVIOUS
<1>3. CASE mem # NOT_FOUND
  BY <1>3 DEF Holds
<1>4. CASE mem = NOT_FOUND /\ \E i \in 1..n : tab[i] # NOT_FOUND
  <2>1. PICK i \in 1..n : /\ tab[i] # NOT_FOUND /\ v = tab[i]
                          /\ \A j \in 1..n : i < j => tab[j] = NOT_FOUND
    BY <1>4 DEF Holds
  <2>2. ASSUME NEW j \in 1..(n + 1), i + 1 < j
        PROVE  new[j] = NOT_FOUND
    <3>1. j # 1
      BY <2>1, <2>2
    <3>2. PICK b \in 1..n : j = b + 1
      BY <1>2, <3>1
    <3>3. i < b
      BY <2>1, <2>2, <3>2
    <3>4. QED
      BY <2>1, <3>2, <3>3
  <2>3. new[i + 1] = tab[i] /\ i + 1 \in 1..(n + 1)
    BY <1>1, <2>1
  <2>4. PICK a \in 1..(n + 1) : a = i + 1
    BY <2>3
  <2>5. new[a] # NOT_FOUND /\ v = new[a] /\ \A j \in 1..(n + 1) : a < j => new[j] = NOT_FOUND
    BY <2>1, <2>2, <2>3, <2>4
  <2>6. QED
    BY <1>4, <2>5 DEF Holds
<1>5. CASE mem = NOT_FOUND /\ \A i \in 1..n : tab[i] = NOT_FOUND
  <2>1. \A j \in 1..(n + 1) : j # 1 => new[j] = NOT_FOUND
    BY <1>2, <1>5
  <2>2. \A j \in 1..(n + 1) : 1 < j => j # 1
    OBVIOUS
  <2>3. CASE tmp # NOT_FOUND
    BY <1>2, <1>5, <2>1, <2>2, <2>3 DEF Holds
  <2>4. CASE tmp = NOT_FOUND
    <3>1. \A j \in 1..(n + 1) : new[j] = NOT_FOUND
      BY <2>1, <2>4
    <3>2. QED
      BY <1>5, <2>4, <3>1 DEF Holds
  <2>5. QED
    BY <2>3, <2>4
<1>6. QED
  BY <1>3, <1>4, <1>5

\* A step that leaves every table as it is.
LEMMA ReadsSame ==
  ASSUME ReadsInv, UNCHANGED <<memory_table, meta_list, temp, puts>>,
         \A i \in 1..Len(meta_list) :
           TableIn(out', files', meta_list[i].file) = TableIn(out, files, meta_list[i].file)
  PROVE  ReadsInv'
<1>1. ASSUME NEW k \in Keys
      PROVE  Found(out', files', meta_list, k) = Found(out, files, meta_list, k)
  BY DEF Found
<1>2. Reads(memory_table, out', files', meta_list, temp, puts)
  BY <1>1 DEF ReadsInv, Reads
<1>3. Reads(memory_table', out', files', meta_list', temp', puts')
  BY <1>2
<1>4. QED
  BY <1>3 DEF ReadsInv

\* fclose moves the lines of a table from the buffer to the disk.
LEMMA TableClosed ==
  ASSUME Session, SessionInv, phase \in {"flush", "write"},
         files' = [files EXCEPT ![out.number] = out.lines], out' = NoFile
  PROVE  \A i \in 1..Len(meta_list) :
           TableIn(out', files', meta_list[i].file) = TableIn(out, files, meta_list[i].file)
<1> TAKE i \in 1..Len(meta_list)
<1>1. out.number \in DOMAIN files
  BY DEF SessionInv, OutInv
<1>2. meta_list[i].file \in Nat \ {0} /\ meta_list[i].file \in DOMAIN files
  BY SessionTypes DEF SessionInv, Named
<1> DEFINE f == meta_list[i].file
<1>3. f # out'.number /\ f \in DOMAIN files' /\ f \in DOMAIN files
  BY <1>2 DEF NoFile
<1> HIDE DEF f
<1>4. TableIn(out', files', f) = files'[f]
  BY <1>3 DEF TableIn
<1>5. CASE f = out.number
  <2>1. files'[f] = out.lines
    BY <1>1, <1>5
  <2>2. QED
    BY <1>4, <1>5, <2>1 DEF TableIn, f
<1>6. CASE f # out.number
  <2>1. files'[f] = files[f]
    BY <1>3, <1>6
  <2>2. TableIn(out, files, f) = files[f]
    BY <1>3, <1>6 DEF TableIn
  <2>3. QED
    BY <1>4, <2>1, <2>2 DEF f
<1>7. QED
  BY <1>5, <1>6

\* fopen of a new table leaves the others alone.
LEMMA TableOpened ==
  ASSUME Session, SessionInv, out = NoFile, NEW lines,
         files' = OpenFile(files, meta_index), out' = [number |-> meta_index, lines |-> lines]
  PROVE  /\ TableIn(out', files', meta_index) = lines
         /\ \A i \in 1..Len(meta_list) :
              TableIn(out', files', meta_list[i].file) = TableIn(out, files, meta_list[i].file)
<1>1. TableIn(out', files', meta_index) = lines
  BY DEF TableIn
<1>2. ASSUME NEW i \in 1..Len(meta_list), NEW f, f = meta_list[i].file
      PROVE  TableIn(out', files', f) = TableIn(out, files, f)
  <2>1. f \in Nat \ {0} /\ f < meta_index /\ meta_index \in Nat /\ f \in DOMAIN files
    BY <1>2, SessionTypes DEF SessionInv, Named, Sorted
  <2>2. f # meta_index /\ f # 0
    BY <2>1
  <2>3. TableIn(out, files, f) = files[f]
    BY <2>1, <2>2 DEF TableIn, NoFile
  <2>4. f \in DOMAIN files' /\ files'[f] = files[f]
    BY <2>1, <2>2 DEF OpenFile
  <2>5. TableIn(out', files', f) = files'[f]
    BY <2>2, <2>4 DEF TableIn
  <2>6. QED
    BY <2>3, <2>4, <2>5
<1>3. QED
  BY <1>1, <1>2

\* A flush of t.
LEMMA ReadsFlush ==
  ASSUME Session, SessionInv, phase = "ready", NEW t \in Seq(Pair), Flush(t),
         Reads(t, out, files, meta_list, temp, puts'), UNCHANGED temp,
         Appended(meta_list, meta_list', [index |-> meta_index, file |-> meta_index])
  PROVE  ReadsInv'
<1> DEFINE n == Len(meta_list)
<1>1. /\ files' = OpenFile(files, meta_index) /\ memory_table' = <<>>
      /\ out' = [number |-> meta_index, lines |-> Lines(t)]
  BY DEF Flush
<1>2. out = NoFile /\ n \in Nat
  BY AtRequest, SessionTypes
<1>3. /\ TableIn(out', files', meta_index) = Lines(t)
      /\ \A i \in 1..n :
           TableIn(out', files', meta_list[i].file) = TableIn(out, files, meta_list[i].file)
  BY <1>1, <1>2, TableOpened
<1>4. /\ Len(meta_list') = n + 1 /\ \A j \in 1..n : meta_list'[j] = meta_list[j]
      /\ meta_list'[n + 1].file = meta_index
  BY DEF Appended
<1>5. Pairs(Lines(t)) = t
  BY ReadBack
<1> HIDE DEF n
<1>6. ASSUME NEW k \in Keys
      PROVE  Holds(search(memory_table', k), Found(out', files', meta_list', k), Len(meta_list'),
                   search(temp', k), LastOf(puts', k))
  <2> DEFINE tab == Found(out, files, meta_list, k)
             new == Found(out', files', meta_list', k)
  <2>1. Holds(search(t, k), tab, n, search(temp, k), LastOf(puts', k))
    BY DEF Reads, n
  <2>2. \A i \in 1..n : i \in 1..(n + 1)
    BY <1>2
  <2>3. \A i \in 1..n : new[i] = tab[i]
    BY <1>3, <1>4, <2>2 DEF Found, n
  <2>4. n + 1 \in 1..(n + 1)
    BY <1>2
  <2>5. new[n + 1] = search(t, k)
    BY <1>3, <1>4, <1>5, <2>4 DEF Found
  <2>6. search(memory_table', k) = NOT_FOUND
    BY <1>1, SearchEmpty
  <2> HIDE DEF tab, new
  <2>7. Holds(NOT_FOUND, new, n + 1, search(temp, k), LastOf(puts', k))
    BY <1>2, <2>1, <2>3, <2>5, HoldsFlush
  <2>8. temp' = temp
    OBVIOUS
  <2>9. QED
    BY <1>4, <2>6, <2>7, <2>8 DEF new
<1>7. Reads(memory_table', out', files', meta_list', temp', puts')
  BY <1>6 DEF Reads
<1>8. QED
  BY <1>7 DEF ReadsInv

\* The tables, and the array of merge, hold pairs.
LEMMA TableType ==
  ASSUME ContentInv
  PROVE  /\ temp \in Seq(Pair) /\ memory_table \in Seq(Pair)
         /\ \A f \in DOMAIN files : Pairs(files[f]) \in Seq(Pair)
  BY SeqMonotonic DEF ContentInv, Written

\* merge reads the table at the head of the list.
LEMMA ReadsRead ==
  ASSUME Session, SessionInv, BoundsInv', LifeInv', ReadsInv, MergeRead
  PROVE  ReadsInv'
<1> DEFINE n == Len(meta_list)
           h == meta_list[1].file
<1>1. /\ n \in Nat \ {0} /\ Len(meta_list') = n - 1
      /\ \A i \in 1..Len(meta_list') : meta_list'[i] = meta_list[i + 1]
      /\ h \in DOMAIN files
      /\ temp' = temp \o Pairs(files[h]) /\ files' = RemoveFile(files, h)
  BY SessionRead
<1>2. out = NoFile /\ UNCHANGED <<memory_table, out, puts>>
  BY DEF SessionInv, OutInv, MergeRead, envVars
<1>3. Sorted(meta_list, meta_index) /\ DOMAIN files = Named(meta_list)
  BY DEF SessionInv
<1>4. \A i \in 1..n : meta_list[i].file # 0 /\ meta_list[i].file \in DOMAIN files
  BY <1>3, SessionTypes DEF Named
<1>5. \A i \in 1..n : TableIn(out, files, meta_list[i].file) = files[meta_list[i].file]
  BY <1>2, <1>4 DEF TableIn, NoFile
<1>6. ASSUME NEW i \in 1..n, i # 1
      PROVE  TableIn(out', files', meta_list[i].file) = TableIn(out, files, meta_list[i].file)
  <2>1. 1 \in 1..n /\ 1 < i
    BY <1>1, <1>6
  <2>2. meta_list[i].file # h
    BY <1>3, <2>1 DEF Sorted
  <2>3. meta_list[i].file \in DOMAIN files' /\ files'[meta_list[i].file] = files[meta_list[i].file]
    BY <1>1, <1>4, <2>2 DEF RemoveFile
  <2>4. out'.number = 0
    BY <1>2 DEF NoFile
  <2>5. TableIn(out', files', meta_list[i].file) = files'[meta_list[i].file]
    BY <1>4, <2>3, <2>4 DEF TableIn
  <2>6. QED
    BY <1>5, <2>3, <2>5
<1>7. temp \in Seq(Pair) /\ Pairs(files[h]) \in Seq(Pair)
  BY <1>1, TableType DEF SessionInv, BoundsInv
<1> HIDE DEF n, h
<1>8. ASSUME NEW k \in Keys
      PROVE  Holds(search(memory_table', k), Found(out', files', meta_list', k), Len(meta_list'),
                   search(temp', k), LastOf(puts', k))
  <2> DEFINE tab == Found(out, files, meta_list, k)
             new == Found(out', files', meta_list', k)
  <2>1. Holds(search(memory_table, k), tab, n, search(temp, k), LastOf(puts, k))
    BY DEF ReadsInv, Reads, n
  <2>2. ASSUME NEW i \in 1..(n - 1)
        PROVE  new[i] = tab[i + 1]
    <3>1. i + 1 \in 1..n /\ i + 1 # 1 /\ i \in 1..Len(meta_list')
      BY <1>1
    <3>2. meta_list'[i] = meta_list[i + 1]
      BY <1>1, <3>1
    <3>3. new[i] = search(Pairs(TableIn(out', files', meta_list[i + 1].file)), k)
      BY <3>1, <3>2 DEF Found
    <3>4. tab[i + 1] = search(Pairs(TableIn(out, files, meta_list[i + 1].file)), k)
      BY <3>1 DEF Found, n
    <3>5. QED
      BY <1>6, <3>1, <3>3, <3>4
  <2>3. tab[1] = search(Pairs(files[h]), k)
    <3>1. 1 \in 1..n
      BY <1>1
    <3>2. QED
      BY <1>5, <3>1 DEF Found, n, h
  <2> HIDE DEF tab, new
  <2>4. search(temp', k) = IF tab[1] # NOT_FOUND THEN tab[1] ELSE search(temp, k)
    BY <1>1, <1>7, <2>3, SearchConcat
  <2>5. Holds(search(memory_table, k), new, n - 1,
              IF tab[1] # NOT_FOUND THEN tab[1] ELSE search(temp, k), LastOf(puts, k))
    BY <1>1, <2>1, <2>2, HoldsRead
  <2>6. QED
    BY <1>1, <1>2, <2>4, <2>5 DEF new
<1>9. Reads(memory_table', out', files', meta_list', temp', puts')
  BY <1>8 DEF Reads
<1>10. QED
  BY <1>9 DEF ReadsInv

\* merge writes the new table.
LEMMA ReadsWrite ==
  ASSUME Session, SessionInv, BoundsInv', LifeInv', ReadsInv, MergeWrite
  PROVE  ReadsInv'
<1> DEFINE n == Len(meta_list)
<1>1. /\ files' = OpenFile(files, meta_index) /\ temp' = <<>>
      /\ out' = [number |-> meta_index, lines |-> Lines(Merged(temp))]
      /\ phase = "merge" /\ UNCHANGED <<memory_table, puts>>
  BY DEF MergeWrite, envVars
<1>2. out = NoFile /\ n \in Nat
  BY <1>1, SessionTypes DEF SessionInv, OutInv
<1>3. /\ TableIn(out', files', meta_index) = Lines(Merged(temp))
      /\ \A i \in 1..n :
           TableIn(out', files', meta_list[i].file) = TableIn(out, files, meta_list[i].file)
  BY <1>1, <1>2, TableOpened
<1>4. Prepended(meta_list, meta_list', [index |-> order, file |-> meta_index])
  BY SessionWrite
<1>5. /\ Len(meta_list') = n + 1 /\ meta_list'[1].file = meta_index
      /\ \A j \in 1..n : meta_list'[j + 1] = meta_list[j]
  BY <1>4 DEF Prepended
<1>6. temp \in Seq(Pair)
  BY TableType DEF SessionInv, BoundsInv
<1>7. Pairs(Lines(Merged(temp))) = Merged(temp)
  BY <1>6, MergedLength, ReadBack
<1> HIDE DEF n
<1>8. ASSUME NEW k \in Keys
      PROVE  Holds(search(memory_table', k), Found(out', files', meta_list', k), Len(meta_list'),
                   search(temp', k), LastOf(puts', k))
  <2> DEFINE tab == Found(out, files, meta_list, k)
             new == Found(out', files', meta_list', k)
  <2>1. Holds(search(memory_table, k), tab, n, search(temp, k), LastOf(puts, k))
    BY DEF ReadsInv, Reads, n
  <2>2. ASSUME NEW i \in 1..n
        PROVE  new[i + 1] = tab[i]
    <3>1. i + 1 \in 1..Len(meta_list')
      BY <1>2, <1>5
    <3>2. new[i + 1] = search(Pairs(TableIn(out', files', meta_list[i].file)), k)
      BY <1>5, <3>1 DEF Found
    <3>3. QED
      BY <1>3, <3>2 DEF Found, n
  <2>3. new[1] = search(temp, k)
    <3>1. 1 \in 1..Len(meta_list')
      BY <1>2, <1>5
    <3>2. new[1] = search(Merged(temp), k)
      BY <1>3, <1>5, <1>7, <3>1 DEF Found
    <3>3. QED
      BY <1>6, <3>2, SearchMerged
  <2> HIDE DEF tab, new
  <2>4. search(temp', k) = NOT_FOUND
    BY <1>1, SearchEmpty
  <2>5. Holds(search(memory_table, k), new, n + 1, NOT_FOUND, LastOf(puts, k))
    BY <1>2, <2>1, <2>2, <2>3, HoldsWrite
  <2>6. QED
    BY <1>1, <1>5, <2>4, <2>5 DEF new
<1>9. Reads(memory_table', out', files', meta_list', temp', puts')
  BY <1>8 DEF Reads
<1>10. QED
  BY <1>9 DEF ReadsInv

\* A pair that is put is found first.
LEMMA ReadsPut ==
  ASSUME Session, SessionInv, ReadsInv, NEW k \in Keys,
         NEW pair, pair = [index |-> table_index, key |-> k, value |-> Len(puts) + 1]
  PROVE  /\ pair \in Pair /\ Append(memory_table, pair) \in Seq(Pair)
         /\ Reads(Append(memory_table, pair), out, files, meta_list, temp, Append(puts, k))
<1>1. memory_table \in Seq(Pair) /\ puts \in Seq(Keys) /\ table_index \in Nat
  BY TableType DEF SessionInv, BoundsInv, ContentInv
<1>2. Len(puts) \in Nat
  BY <1>1, LenProperties
<1>3. pair \in Pair /\ pair.key = k /\ pair.value = Len(puts) + 1
  BY <1>1, <1>2 DEF Pair
<1>4. Append(memory_table, pair) \in Seq(Pair)
  BY <1>1, <1>3, AppendProperties
<1>5. ASSUME NEW x \in Keys
      PROVE  Holds(search(Append(memory_table, pair), x), Found(out, files, meta_list, x),
                   Len(meta_list), search(temp, x), LastOf(Append(puts, k), x))
  <2>1. search(Append(memory_table, pair), x)
          = IF k = x THEN Len(puts) + 1 ELSE search(memory_table, x)
    BY <1>1, <1>3, SearchAppend
  <2>2. LastOf(Append(puts, k), x) = IF k = x THEN Len(puts) + 1 ELSE LastOf(puts, x)
    BY <1>1, LastAppend
  <2>3. CASE k = x
    <3>1. Len(puts) + 1 # NOT_FOUND
      BY <1>2 DEF NOT_FOUND
    <3>2. QED
      BY <2>1, <2>2, <2>3, <3>1 DEF Holds
  <2>4. CASE k # x
    BY <2>1, <2>2, <2>4 DEF ReadsInv, Reads
  <2>5. QED
    BY <2>3, <2>4
<1>6. QED
  BY <1>3, <1>4, <1>5 DEF Reads

\* Every step keeps ReadsInv.
LEMMA ReadsStep ==
  ASSUME Session, SessionInv, ReadsInv, [Next]_vars
  PROVE  ReadsInv'
<1>1. BoundsInv' /\ BoundsInv /\ LifeInv'
  BY BoundsStep, LifeStep DEF Session, SessionInv
<1>2. CASE Start
  <2>1. meta_list = <<>> /\ meta_list' = <<>> /\ 1..Len(meta_list) = {}
    BY <1>1, <1>2, SessionStart, EmptySeq
  <2>2. memory_table' = <<>> /\ temp' = <<>> /\ UNCHANGED puts
    BY <1>2 DEF Start
  <2>3. phase = "down" /\ popped = 0
    <3>1. phase = "down"
      BY <1>2 DEF Start, SessionInv
    <3>2. popped \in 0..2
      BY <1>1 DEF BoundsInv, PhaseInv
    <3>3. ~(popped > 0)
      BY <3>1 DEF SessionInv, MergingInv
    <3>4. QED
      BY <3>1, <3>2, <3>3
  <2>4. starts = 0
    BY <1>2, KvStoreAssumption DEF Start, Session, SessionInv
  <2>5. memory_table = <<>> /\ temp = <<>>
    BY <2>3, <2>4 DEF SessionInv, FreshInv, MergingInv
  <2>6. QED
    BY <2>1, <2>2, <2>5, ReadsSame
<1>3. CASE Back
  <2>1. phase = "ready" /\ UNCHANGED <<temp, popped, starts, crashes, puts>>
    BY <1>3 DEF Back, mergeVars, envVars
  <2>2. CASE memory_table # <<>>
    <3>1. Flush(memory_table)
      BY <1>3, <2>2 DEF Back
    <3>2. memory_table \in Seq(Pair)
      BY TableType DEF SessionInv, BoundsInv
    <3>3. Reads(memory_table, out, files, meta_list, temp, puts')
      BY <2>1 DEF ReadsInv
    <3>4. QED
      BY <1>1, <2>1, <3>1, <3>2, <3>3, SessionFlush, ReadsFlush
  <2>3. CASE memory_table = <<>>
    <3>1. UNCHANGED <<memory_table, meta_list, files, out>>
      BY <1>3, <2>3 DEF Back
    <3>2. QED
      BY <2>1, <3>1, ReadsSame
  <2>4. QED
    BY <2>2, <2>3
<1>4. CASE CloseFlush
  <2>1. /\ phase = "flush" /\ files' = [files EXCEPT ![out.number] = out.lines]
        /\ out' = NoFile /\ UNCHANGED <<memory_table, meta_list, temp, puts>>
    BY <1>4 DEF CloseFlush, ramVars, mergeVars, envVars
  <2>2. QED
    BY <2>1, TableClosed, ReadsSame
<1>5. CASE ManualMerge
  <2>1. UNCHANGED <<memory_table, meta_list, temp, puts, files, out>>
    BY <1>5 DEF ManualMerge, ramVars, mergeVars, envVars
  <2>2. QED
    BY <2>1, ReadsSame
<1>6. CASE MergeRead
  BY <1>1, <1>6, ReadsRead
<1>7. CASE MergeWrite
  BY <1>1, <1>7, ReadsWrite
<1>8. CASE CloseMerge
  <2>1. /\ phase = "write" /\ files' = [files EXCEPT ![out.number] = out.lines]
        /\ out' = NoFile /\ UNCHANGED <<memory_table, meta_list, temp, puts>>
    BY <1>8 DEF CloseMerge, ramVars, mergeVars, envVars
  <2>2. QED
    BY <2>1, TableClosed, ReadsSame
<1>9. CASE Crash
  <2>1. crashes < 0
    BY <1>9 DEF Crash, Session
  <2>2. QED
    BY <2>1 DEF SessionInv
<1>10. ASSUME NEW k \in Keys, put_pair(k)
       PROVE  ReadsInv'
  <2>1. PICK pair : pair = [index |-> table_index, key |-> k, value |-> Len(puts) + 1]
    OBVIOUS
  <2> DEFINE t == Append(memory_table, pair)
  <2>2. /\ phase = "ready" /\ puts' = Append(puts, k)
        /\ UNCHANGED <<temp, popped, starts, crashes>>
    BY <1>10 DEF put_pair, mergeVars
  <2>3. t \in Seq(Pair) /\ Reads(t, out, files, meta_list, temp, puts')
    BY <2>1, <2>2, ReadsPut
  <2>4. CASE Full(t)
    <3>1. Flush(t)
      BY <1>10, <2>1, <2>4 DEF put_pair
    <3>2. QED
      BY <1>1, <2>2, <2>3, <3>1, SessionFlush, ReadsFlush
  <2>5. CASE ~Full(t)
    <3>1. memory_table' = t /\ UNCHANGED <<meta_list, files, out>>
      BY <1>10, <2>1, <2>5 DEF put_pair
    <3>2. Reads(memory_table', out', files', meta_list', temp', puts')
      BY <2>2, <2>3, <3>1
    <3>3. QED
      BY <3>2 DEF ReadsInv
  <2>6. QED
    BY <2>4, <2>5
<1>11. ASSUME NEW k \in Keys, Get(k)
       PROVE  ReadsInv'
  <2>1. UNCHANGED <<memory_table, meta_list, temp, puts, files, out>>
    BY <1>11 DEF Get, ramVars, mergeVars
  <2>2. QED
    BY <2>1, ReadsSame
<1>12. CASE UNCHANGED vars
  <2>1. UNCHANGED <<memory_table, meta_list, temp, puts, files, out>>
    BY <1>12 DEF vars
  <2>2. QED
    BY <2>1, ReadsSame
<1>13. QED
  BY <1>2, <1>3, <1>4, <1>5, <1>6, <1>7, <1>8, <1>9, <1>10, <1>11, <1>12 DEF Next

\* Both hold at the start.
LEMMA SessionInit ==
  ASSUME Session, Init
  PROVE  SessionInv /\ ReadsInv
<1>1. BoundsInv
  BY BoundsInit DEF Session
<1>2. /\ phase = "down" /\ memory_table = <<>> /\ temp = <<>> /\ out = NoFile /\ popped = 0
      /\ meta_list = <<>> /\ DOMAIN files = {} /\ puts = <<>> /\ starts = 0 /\ crashes = 0
  BY DEF Init
<1>3. Len(<<>>) = 0 /\ 1..Len(<<>>) = {}
  BY EmptySeq
<1>4. Sorted(meta_list, meta_index) /\ DOMAIN files = Named(meta_list)
  BY <1>2, <1>3 DEF Sorted, Named
<1>5. MERGE_TRIGGER \in Nat /\ MERGE_TRIGGER >= 2
  BY KvStoreAssumption DEF Session, Sizes
<1>6. FreshInv /\ OutInv /\ MergingInv /\ RoomInv /\ LifeInv
  BY <1>2, <1>3, <1>5 DEF Init, FreshInv, OutInv, MergingInv, RoomInv, LifeInv
<1>7. SessionInv
  BY <1>1, <1>2, <1>4, <1>6 DEF SessionInv
<1>8. ASSUME NEW k \in Keys
      PROVE  Holds(search(memory_table, k), Found(out, files, meta_list, k), Len(meta_list),
                   search(temp, k), LastOf(puts, k))
  <2>1. search(memory_table, k) = NOT_FOUND /\ search(temp, k) = NOT_FOUND
    BY <1>2, SearchEmpty
  <2>2. LastOf(puts, k) = Nothing
    BY <1>2, <1>3 DEF LastOf, Nothing
  <2>3. QED
    BY <1>2, <1>3, <2>1, <2>2 DEF Holds
<1>9. QED
  BY <1>7, <1>8 DEF ReadsInv, Reads

----------------------------------------------------------------------------
(* The store is a map.                                                     *)

\* The greatest of some positions.
LEMMA Greatest ==
  ASSUME NEW n \in Nat, NEW I \in SUBSET (1..n), NEW m \in I, \A y \in I : y <= m
  PROVE  Max(I) = m
<1>1. Max(I) \in I /\ \A y \in I : y <= Max(I)
  BY LastPosition
<1>2. m <= Max(I) /\ Max(I) <= m
  BY <1>1
<1>3. m \in 1..n /\ Max(I) \in 1..n
  BY <1>1, Zenon
<1>4. QED
  BY <1>2, <1>3

\* What the searches in the tables return in a state.
LEMMA FoundType ==
  ASSUME BoundsInv, NEW k
  PROVE  /\ search(memory_table, k) \in {NOT_FOUND} \cup 1..Len(puts)
         /\ search(temp, k) \in {NOT_FOUND} \cup 1..Len(puts)
         /\ \A i \in 1..Len(meta_list) :
              /\ Pairs(TableLines(meta_list[i].file)) \in Seq(Written)
              /\ Found(out, files, meta_list, k)[i]
                   = search(Pairs(TableLines(meta_list[i].file)), k)
              /\ Found(out, files, meta_list, k)[i] \in {NOT_FOUND} \cup 1..Len(puts)
<1>1. ContentInv
  BY DEF BoundsInv
<1>2. memory_table \in Seq(Written) /\ temp \in Seq(Written)
  BY <1>1 DEF ContentInv
<1>3. ASSUME NEW i \in 1..Len(meta_list)
      PROVE  /\ Pairs(TableLines(meta_list[i].file)) \in Seq(Written)
             /\ Found(out, files, meta_list, k)[i]
                  = search(Pairs(TableLines(meta_list[i].file)), k)
  <2>1. Pairs(<<>>) \in Seq(Written)
    BY ReadBack, EmptySeq
  <2>2. Pairs(TableLines(meta_list[i].file)) \in Seq(Written)
    BY <1>1, <2>1 DEF TableLines, ContentInv
  <2>3. TableLines(meta_list[i].file) = TableIn(out, files, meta_list[i].file)
    BY DEF TableLines, TableIn
  <2>4. QED
    BY <2>2, <2>3 DEF Found
<1>4. QED
  BY <1>1, <1>2, <1>3, SearchType

\* The layers are the array of merge, the tables in the order of the list and the
\* memory table.
LEMMA LayersAre ==
  ASSUME BoundsInv
  PROVE  /\ Len(Layers) = Len(meta_list) + 2
         /\ Layers[1] = temp /\ Layers[Len(meta_list) + 2] = memory_table
         /\ \A i \in 1..Len(meta_list) :
              Layers[i + 1] = Pairs(TableLines(meta_list[i].file))
<1> DEFINE n == Len(meta_list)
           T == [i \in DOMAIN meta_list |-> Pairs(TableLines(meta_list[i].file))]
           W == Seq(Written)
           A == <<temp>> \o T
<1>1. n \in Nat /\ DOMAIN meta_list = 1..n
  BY LenProperties DEF BoundsInv, ListInv
<1>2. temp \in W /\ memory_table \in W
  BY DEF BoundsInv, ContentInv
<1>3. \A i \in 1..n : Pairs(TableLines(meta_list[i].file)) \in W
  BY FoundType
<1> HIDE DEF W
<1>4. T \in [1..n -> W] /\ \A i \in 1..n : T[i] = Pairs(TableLines(meta_list[i].file))
  BY <1>1, <1>3
<1> HIDE DEF T
<1>5. T \in Seq(W) /\ Len(T) = n
  BY <1>1, <1>4
<1>6. <<temp>> \in Seq(W) /\ Len(<<temp>>) = 1 /\ <<temp>>[1] = temp
      /\ <<memory_table>> \in Seq(W) /\ Len(<<memory_table>>) = 1
      /\ <<memory_table>>[1] = memory_table
  BY <1>2
<1>7. /\ A \in Seq(W) /\ Len(A) = 1 + n
      /\ \A i \in 1..Len(A) : A[i] = IF i <= 1 THEN <<temp>>[i] ELSE T[i - 1]
  BY <1>5, <1>6, ConcatProperties
<1> HIDE DEF A
<1>8. /\ Len(A \o <<memory_table>>) = Len(A) + 1
      /\ \A i \in 1..(Len(A) + 1) :
           (A \o <<memory_table>>)[i] = IF i <= Len(A) THEN A[i] ELSE <<memory_table>>[i - Len(A)]
  BY <1>6, <1>7, ConcatProperties
<1>9. Layers = A \o <<memory_table>>
  BY DEF Layers, A, T
<1>10. Len(Layers) = n + 2
  BY <1>1, <1>7, <1>8, <1>9
<1>11. Layers[1] = temp
  <2>1. 1 \in 1..Len(A) /\ 1 \in 1..(Len(A) + 1) /\ 1 <= Len(A)
    BY <1>1, <1>7
  <2>2. QED
    BY <1>6, <1>7, <1>8, <1>9, <2>1
<1>12. Layers[n + 2] = memory_table
  <2>1. n + 2 \in 1..(Len(A) + 1) /\ ~(n + 2 <= Len(A)) /\ (n + 2) - Len(A) = 1
    BY <1>1, <1>7
  <2>2. QED
    BY <1>6, <1>8, <1>9, <2>1
<1>13. ASSUME NEW i \in 1..n
       PROVE  Layers[i + 1] = Pairs(TableLines(meta_list[i].file))
  <2>1. i + 1 \in 1..Len(A) /\ i + 1 \in 1..(Len(A) + 1) /\ i + 1 <= Len(A) /\ ~(i + 1 <= 1)
        /\ (i + 1) - 1 = i
    BY <1>1, <1>7
  <2>2. Layers[i + 1] = A[i + 1]
    BY <1>8, <1>9, <2>1
  <2>3. A[i + 1] = T[i]
    BY <1>7, <2>1
  <2>4. QED
    BY <1>4, <2>2, <2>3
<1>14. QED
  BY <1>10, <1>11, <1>12, <1>13

\* What the searches in the tables tell is what the layers hold.
LEMMA HoldsHeld ==
  ASSUME BoundsInv, NEW k, NEW v,
         Holds(search(memory_table, k), Found(out, files, meta_list, k), Len(meta_list),
               search(temp, k), v)
  PROVE  Held(k) = v
<1> DEFINE n == Len(meta_list)
           mem == search(memory_table, k)
           tab == Found(out, files, meta_list, k)
           tmp == search(temp, k)
           I == {i \in 1..Len(Layers) : search(Layers[i], k) # NOT_FOUND}
           m == IF I # {} THEN Max(I) ELSE 0
<1>1. n \in Nat /\ n + 2 \in Nat
  BY LenProperties DEF BoundsInv, ListInv
<1>2. Held(k) = IF m = 0 THEN Nothing ELSE search(Layers[m], k)
  BY DEF Held, SelectLastInSeq
<1>3. /\ Len(Layers) = n + 2 /\ Layers[1] = temp /\ Layers[n + 2] = memory_table
      /\ \A i \in 1..n : Layers[i + 1] = Pairs(TableLines(meta_list[i].file))
  BY LayersAre
<1>4. I \in SUBSET (1..(n + 2))
  BY <1>3
<1>5. \A i \in 1..(n + 2) : i \in I <=> search(Layers[i], k) # NOT_FOUND
  BY <1>3
<1>6. search(Layers[1], k) = tmp /\ search(Layers[n + 2], k) = mem
  BY <1>3
<1>7. \A i \in 1..n : search(Layers[i + 1], k) = tab[i]
  BY <1>3, FoundType
<1>8. Holds(mem, tab, n, tmp, v)
  OBVIOUS
<1> HIDE DEF n, mem, tab, tmp, I
<1>9. 1 \in 1..(n + 2) /\ n + 2 \in 1..(n + 2) /\ \A i \in 1..n : i + 1 \in 1..(n + 2)
  BY <1>1
<1>10. \A i \in 1..(n + 2) : i = 1 \/ i = n + 2 \/ \E j \in 1..n : i = j + 1
  BY <1>1
<1>11. CASE mem # NOT_FOUND
  <2>1. n + 2 \in I /\ \A y \in I : y <= n + 2
    BY <1>1, <1>4, <1>5, <1>6, <1>9, <1>11
  <2>2. Max(I) = n + 2
    BY <1>1, <1>4, <2>1, Greatest
  <2>3. m = n + 2 /\ m # 0
    BY <1>1, <2>1, <2>2
  <2>4. v = mem
    BY <1>8, <1>11 DEF Holds
  <2>5. QED
    BY <1>2, <1>6, <2>3, <2>4
<1>12. CASE mem = NOT_FOUND /\ \E i \in 1..n : tab[i] # NOT_FOUND
  <2>1. PICK i \in 1..n : /\ tab[i] # NOT_FOUND /\ v = tab[i]
                          /\ \A j \in 1..n : i < j => tab[j] = NOT_FOUND
    BY <1>8, <1>12 DEF Holds
  <2>2. i + 1 \in I
    BY <1>5, <1>7, <1>9, <2>1
  <2>3. ASSUME NEW y \in I
        PROVE  y <= i + 1
    <3>1. y \in 1..(n + 2) /\ search(Layers[y], k) # NOT_FOUND
      BY <1>4, <1>5
    <3>2. y # n + 2
      BY <1>6, <1>12, <3>1
    <3>3. CASE y = 1
      BY <2>1, <3>3
    <3>4. CASE \E j \in 1..n : y = j + 1
      <4>1. PICK j \in 1..n : y = j + 1
        BY <3>4
      <4>2. tab[j] # NOT_FOUND
        BY <1>7, <3>1, <4>1
      <4>3. ~(i < j)
        BY <2>1, <4>2
      <4>4. QED
        BY <1>1, <2>1, <4>1, <4>3
    <3>5. QED
      BY <1>10, <3>1, <3>2, <3>3, <3>4
  <2>4. Max(I) = i + 1
    BY <1>1, <1>4, <2>2, <2>3, Greatest
  <2>5. m = i + 1 /\ m # 0
    BY <2>1, <2>2, <2>4
  <2>6. QED
    BY <1>2, <1>7, <2>1, <2>5
<1>13. CASE mem = NOT_FOUND /\ \A i \in 1..n : tab[i] = NOT_FOUND
  <2>1. v = IF tmp # NOT_FOUND THEN tmp ELSE Nothing
    BY <1>8, <1>13 DEF Holds
  <2>2. \A y \in I : y = 1
    BY <1>4, <1>5, <1>6, <1>7, <1>10, <1>13
  <2>3. CASE tmp # NOT_FOUND
    <3>1. 1 \in I /\ \A y \in I : y <= 1
      BY <1>5, <1>6, <1>9, <2>2, <2>3
    <3>2. Max(I) = 1
      BY <1>1, <1>4, <3>1, Greatest
    <3>3. QED
      BY <1>2, <1>6, <2>1, <2>3, <3>1, <3>2
  <2>4. CASE tmp = NOT_FOUND
    <3>1. I = {}
      BY <1>5, <1>6, <1>9, <2>2, <2>4
    <3>2. QED
      BY <1>2, <2>1, <2>4, <3>1
  <2>5. QED
    BY <2>3, <2>4
<1>14. QED
  BY <1>11, <1>12, <1>13

\* At every moment of a run the store holds the value put last.
LEMMA HeldIs ==
  ASSUME Session, SessionInv, ReadsInv, NEW k \in Keys
  PROVE  Held(k) = LastPut(k)
<1>1. Holds(search(memory_table, k), Found(out, files, meta_list, k), Len(meta_list),
            search(temp, k), LastPut(k))
  BY LastPutIs DEF ReadsInv, Reads
<1>2. QED
  BY <1>1, HoldsHeld DEF SessionInv

\* get_pair returns the value put last, and NOT_FOUND for a key that was never put,
\* once there is a table.
LEMMA GetIs ==
  ASSUME Session, SessionInv, ReadsInv, phase = "ready", NEW k \in Keys, NEW a \in get_pair(k)
  PROVE  /\ LastPut(k) # Nothing => a = LastPut(k)
         /\ LastPut(k) = Nothing /\ meta_list # <<>> => a = NOT_FOUND
         /\ LastPut(k) = Nothing => a \in {NOT_FOUND} \cup Values
<1> DEFINE n == Len(meta_list)
           mem == search(memory_table, k)
           tab == Found(out, files, meta_list, k)
           I == {i \in 1..n : StopsAt(k, meta_list[i])}
           v == LastPut(k)
<1>1. n \in Nat /\ out = NoFile /\ temp = <<>>
  BY SessionTypes, AtRequest
<1>2. LastStop(k) = IF I # {} THEN Max(I) ELSE 0
  BY DEF LastStop, SelectLastInSeq
<1>3. ASSUME NEW i \in 1..n
      PROVE  /\ tab[i] = search_storage(files[meta_list[i].file], k)
             /\ StopsAt(k, meta_list[i]) <=> tab[i] # NOT_FOUND
  <2>1. meta_list[i].file \in DOMAIN files /\ meta_list[i].file \in Nat \ {0}
    BY SessionTypes DEF SessionInv, Named
  <2>2. TableLines(meta_list[i].file) = files[meta_list[i].file]
    BY <1>1, <2>1 DEF TableLines, NoFile
  <2>3. tab[i] = search(Pairs(files[meta_list[i].file]), k)
    BY <2>2, FoundType DEF SessionInv
  <2>4. QED
    BY <2>1, <2>3 DEF StopsAt, search_storage
<1>4. search(temp, k) = NOT_FOUND
  BY <1>1, SearchEmpty
<1>5. Holds(mem, tab, n, NOT_FOUND, v)
  BY <1>4, LastPutIs DEF ReadsInv, Reads
<1>6. mem # Nothing /\ \A i \in 1..n : tab[i] # Nothing
  <2>1. Nothing \notin {NOT_FOUND} \cup 1..Len(puts)
    BY DEF Nothing, NOT_FOUND
  <2>2. QED
    BY <2>1, FoundType DEF SessionInv
<1>7. a \in get_pair(k)
  OBVIOUS
<1>8. I \in SUBSET (1..n) /\ \A i \in 1..n : i \in I <=> tab[i] # NOT_FOUND
  BY <1>3
<1> HIDE DEF tab, I, v
<1>9. CASE mem # NOT_FOUND
  <2>1. a = mem
    BY <1>7, <1>9 DEF get_pair
  <2>2. v = mem
    BY <1>5, <1>9 DEF Holds
  <2>3. QED
    BY <1>6, <2>1, <2>2 DEF v
<1>10. CASE mem = NOT_FOUND /\ \E i \in 1..n : tab[i] # NOT_FOUND
  <2>1. PICK i \in 1..n : /\ tab[i] # NOT_FOUND /\ v = tab[i]
                          /\ \A j \in 1..n : i < j => tab[j] = NOT_FOUND
    BY <1>5, <1>10 DEF Holds
  <2>2. i \in I /\ \A y \in I : y <= i
    BY <1>1, <1>8, <2>1
  <2>3. Max(I) = i
    BY <1>1, <1>8, <2>2, Greatest
  <2>4. LastStop(k) = i /\ LastStop(k) > 0
    BY <1>1, <1>2, <2>2, <2>3
  <2>5. a = search_storage(files[meta_list[i].file], k)
    BY <1>7, <1>10, <2>4 DEF get_pair
  <2>6. a = v
    BY <1>3, <2>1, <2>5
  <2>7. QED
    BY <1>6, <2>1, <2>6 DEF v
<1>11. CASE mem = NOT_FOUND /\ \A i \in 1..n : tab[i] = NOT_FOUND
  <2>1. v = Nothing
    BY <1>5, <1>11 DEF Holds
  <2>2. I = {}
    BY <1>8, <1>11
  <2>3. LastStop(k) = 0
    BY <1>2, <2>2
  <2>4. a \in IF meta_list = <<>> THEN {NOT_FOUND} \cup Values ELSE {NOT_FOUND}
    BY <1>7, <1>11, <2>3 DEF get_pair
  <2>5. QED
    BY <2>1, <2>4 DEF v
<1>12. QED
  BY <1>9, <1>10, <1>11

\* The invariants of a run.
LEMMA SessionAlways == ASSUME Session PROVE Spec => [](SessionInv /\ ReadsInv)
<1>1. Init => SessionInv /\ ReadsInv
  BY SessionInit
<1>2. SessionInv /\ ReadsInv /\ [Next]_vars => SessionInv' /\ ReadsInv'
  BY SessionStep, ReadsStep
<1>3. QED
  BY <1>1, <1>2, PTL DEF Spec

\* In one run of the program, with any number of puts, flushes and merges in any
\* order, the store holds at every step, also in the middle of a flush or of a merge,
\* the value put last for every key; and between requests the list names exactly the
\* files on disk, each once.
THEOREM StoreStaysSound == ASSUME Session PROVE Spec => []StoreSound
<1>1. SessionInv /\ ReadsInv => StoreSound
  <2> SUFFICES ASSUME SessionInv, ReadsInv
               PROVE  StoreSound
    OBVIOUS
  <2>1. HoldsLastPut
    BY HeldIs DEF HoldsLastPut
  <2>2. ListMatchesDisk
    <3>1. meta_list \in Seq(Node) /\ Len(meta_list) \in Nat /\ DOMAIN meta_list = 1..Len(meta_list)
      BY SessionTypes, LenProperties
    <3>2. DOMAIN files = Named(meta_list) /\ Sorted(meta_list, meta_index)
      BY DEF SessionInv
    <3>3. \A i, j \in 1..Len(meta_list) : i # j => i < j \/ j < i
      BY <3>1
    <3>4. \A i, j \in 1..Len(meta_list) : i # j => meta_list[i].file # meta_list[j].file
      BY <3>2, <3>3 DEF Sorted
    <3>5. Cardinality(Named(meta_list)) = Len(meta_list)
      BY <3>1, <3>4, NamedBound
    <3>6. {meta_list[i].file : i \in DOMAIN meta_list} = Named(meta_list)
      BY <3>1 DEF Named
    <3>7. QED
      BY <3>2, <3>5, <3>6 DEF ListMatchesDisk
  <2>3. QED
    BY <2>1, <2>2 DEF StoreSound
<1>2. QED
  BY <1>1, SessionAlways, PTL

\* What TablesImmutable says of a step.
ImmutableStep ==
  \A f \in DOMAIN files \cap DOMAIN files' : files'[f] # files[f] => f = out.number

\* What fopen and remove do to the other files.
LEMMA OtherFiles ==
  ASSUME Session, SessionInv
  PROVE  /\ files' = OpenFile(files, meta_index) => ImmutableStep
         /\ \A n : files' = RemoveFile(files, n) => ImmutableStep
         /\ files' = [files EXCEPT ![out.number] = out.lines] => ImmutableStep
         /\ UNCHANGED files => ImmutableStep
<1>1. ASSUME files' = OpenFile(files, meta_index)
      PROVE  ImmutableStep
  <2>1. meta_index \notin DOMAIN files
    <3>1. ASSUME NEW i \in 1..Len(meta_list)
          PROVE  meta_list[i].file # meta_index
      <4>1. meta_list[i].file \in Nat /\ meta_list[i].file < meta_index /\ meta_index \in Nat
        BY SessionTypes DEF SessionInv, Sorted
      <4>2. QED
        BY <4>1
    <3>2. QED
      BY <3>1 DEF SessionInv, Named
  <2>2. \A f \in DOMAIN files : files'[f] = files[f]
    BY <1>1, <2>1 DEF OpenFile
  <2>3. QED
    BY <2>2 DEF ImmutableStep
<1>2. ASSUME NEW n, files' = RemoveFile(files, n)
      PROVE  ImmutableStep
  BY <1>2 DEF RemoveFile, ImmutableStep
<1>3. ASSUME files' = [files EXCEPT ![out.number] = out.lines]
      PROVE  ImmutableStep
  BY <1>3 DEF ImmutableStep
<1>4. ASSUME UNCHANGED files
      PROVE  ImmutableStep
  BY <1>4 DEF ImmutableStep
<1>5. QED
  BY <1>1, <1>2, <1>3, <1>4

\* Every step works on the files in one of these ways.
LEMMA StepOnFiles ==
  ASSUME Session, SessionInv, Next
  PROVE  ImmutableStep
<1>1. CASE Start \/ ManualMerge \/ Crash
  BY <1>1, OtherFiles DEF Start, ManualMerge, Crash
<1>2. CASE Back
  BY <1>2, OtherFiles DEF Back, Flush
<1>3. CASE CloseFlush \/ CloseMerge
  BY <1>3, OtherFiles DEF CloseFlush, CloseMerge
<1>4. CASE MergeRead
  <2>1. (\E n : files' = RemoveFile(files, n)) \/ UNCHANGED files
    BY <1>4 DEF MergeRead
  <2>2. QED
    BY <2>1, OtherFiles
<1>5. CASE MergeWrite
  BY <1>5, OtherFiles DEF MergeWrite
<1>6. ASSUME NEW k \in Keys, put_pair(k)
      PROVE  ImmutableStep
  <2>1. files' = OpenFile(files, meta_index) \/ UNCHANGED files
    BY <1>6 DEF put_pair, Flush
  <2>2. QED
    BY <2>1, OtherFiles
<1>7. ASSUME NEW k \in Keys, Get(k)
      PROVE  ImmutableStep
  BY <1>7, OtherFiles DEF Get
<1>8. QED
  BY <1>1, <1>2, <1>3, <1>4, <1>5, <1>6, <1>7 DEF Next

\* In one run of the program a table is written once: flush and merge never open a
\* file that exists, and only fclose puts lines into one.
THEOREM TablesStayAsWritten == ASSUME Session PROVE Spec => TablesImmutable
<1>1. SessionInv /\ ReadsInv /\ [Next]_vars => [ImmutableStep]_vars
  BY StepOnFiles
<1>2. Spec => [][ImmutableStep]_vars
  BY <1>1, SessionAlways, PTL DEF Spec
<1>3. QED
  BY <1>2 DEF TablesImmutable, ImmutableStep

\* What a get_pair answers.
LEMMA Answers ==
  ASSUME Session, SessionInv, ReadsInv, NEW k \in Keys, Get(k)
  PROVE  \E a : /\ answer' = [key |-> k, value |-> a]
                /\ LastPut(k) # Nothing => a = LastPut(k)
                /\ LastPut(k) = Nothing /\ meta_list # <<>> => a = NOT_FOUND
                /\ LastPut(k) = Nothing => a \in {NOT_FOUND} \cup Values
<1>1. ~ReadsMissingFile(k)
  BY NoneMissing
<1>2. phase = "ready" /\ \E a \in get_pair(k) : answer' = [key |-> k, value |-> a]
  BY <1>1 DEF Get
<1>3. QED
  BY <1>2, GetIs

\* put_pair is the Put of the map, get_pair is its Get, and everything else in the
\* store is invisible.
LEMMA MapStep ==
  ASSUME Session, SessionInv, ReadsInv, [Next]_vars
  PROVE  \/ Map!Next
         \/ UNCHANGED <<puts, answer>>
<1>1. ASSUME NEW k \in Keys, put_pair(k)
      PROVE  Map!Next
  <2>1. puts' = Append(puts, k) /\ answer' = answer /\ Len(puts) < MaxPuts
    BY <1>1 DEF put_pair
  <2>2. puts \in Seq(Keys) /\ Len(puts) \in Nat /\ MaxPuts \in Nat
    BY KvStoreAssumption, LenProperties DEF SessionInv, BoundsInv, ContentInv
  <2> DEFINE v == Len(puts) + 1
  <2>3. v \in Values
    BY <2>1, <2>2 DEF Values
  <2>4. \A x \in Keys : LastPut(x) = LastOf(puts, x) /\ LastPut(x)' = LastOf(puts', x)
    BY LastPutIs DEF LastPut, LastOf, SelectLastInSeq
  <2>5. \A x \in Keys : LastOf(puts', x) = IF k = x THEN v ELSE LastOf(puts, x)
    BY <2>1, <2>2, LastAppend
  <2>6. \A x \in Keys : LastPut(x)' = IF k = x THEN v ELSE LastPut(x)
    BY <2>4, <2>5
  <2> HIDE DEF v
  <2>7. [x \in Keys |-> LastPut(x)'] = [[x \in Keys |-> LastPut(x)] EXCEPT ![k] = v]
    BY <2>6
  <2>8. Map!Put(k, v)
    BY <2>1, <2>7 DEF Map!Put
  <2>9. QED
    BY <2>3, <2>8 DEF Map!Next
<1>2. ASSUME NEW k \in Keys, Get(k)
      PROVE  Map!Next
  <2>1. puts' = puts
    BY <1>2 DEF Get
  <2>2. PICK a : /\ answer' = [key |-> k, value |-> a]
                 /\ LastPut(k) # Nothing => a = LastPut(k)
                 /\ LastPut(k) = Nothing /\ meta_list # <<>> => a = NOT_FOUND
                 /\ LastPut(k) = Nothing => a \in {NOT_FOUND} \cup Values
    BY <1>2, Answers
  <2>3. LastPut(k) # NOT_FOUND
    <3>1. Nothing # NOT_FOUND
      BY DEF Nothing, NOT_FOUND
    <3>2. Holds(search(memory_table, k), Found(out, files, meta_list, k), Len(meta_list),
                search(temp, k), LastPut(k))
      BY LastPutIs DEF ReadsInv, Reads
    <3>3. QED
      BY <3>1, <3>2 DEF Holds
  <2>4. \A x \in Keys : LastPut(x)' = LastPut(x)
    BY <2>1 DEF LastPut, SelectLastInSeq
  <2>5. [x \in Keys |-> LastPut(x)'] = [x \in Keys |-> LastPut(x)]
    BY <2>4
  <2>6. [x \in Keys |-> LastPut(x)][k] = LastPut(k)
    OBVIOUS
  <2> DEFINE seen == IF a = NOT_FOUND THEN Nothing ELSE a
  <2>7. [key |-> answer'.key, value |-> IF answer'.value = NOT_FOUND THEN Nothing ELSE answer'.value]
          = [key |-> k, value |-> seen]
    BY <2>2
  <2>8. seen = LastPut(k) \/ (LastPut(k) = Nothing /\ meta_list = <<>> /\ seen \in Values \cup {Nothing})
    BY <2>2, <2>3
  <2> HIDE DEF seen
  <2>9. CASE seen = LastPut(k)
    <3>1. Map!Get(k)
      BY <2>5, <2>6, <2>7, <2>9 DEF Map!Get
    <3>2. QED
      BY <3>1 DEF Map!Next
  <2>10. CASE LastPut(k) = Nothing /\ meta_list = <<>> /\ seen \in Values \cup {Nothing}
    <3>1. Map!GetUndefined(k)
      BY <2>5, <2>6, <2>7, <2>10 DEF Map!GetUndefined
    <3>2. QED
      BY <3>1 DEF Map!Next
  <2>11. QED
    BY <2>8, <2>9, <2>10
<1>3. CASE Start
  <2>1. starts = 0
    BY <1>3, KvStoreAssumption DEF Start, Session, SessionInv
  <2>2. QED
    BY <1>3, <2>1 DEF Start, SessionInv, LifeInv
<1>6. CASE Back \/ CloseFlush \/ ManualMerge \/ MergeRead \/ MergeWrite \/ CloseMerge
  BY <1>6 DEF Back, CloseFlush, ManualMerge, MergeRead, MergeWrite, CloseMerge, envVars
<1>7. CASE Crash
  <2>1. crashes < 0
    BY <1>7 DEF Crash, Session
  <2>2. QED
    BY <2>1 DEF SessionInv
<1>4. CASE UNCHANGED vars
  BY <1>4 DEF vars
<1>5. QED
  BY <1>1, <1>2, <1>3, <1>4, <1>6, <1>7 DEF Next

\* In one run of the program, and for any number of puts, the store implements the map
\* of KvMap: get_pair returns for the key it is asked for the value put last, and that
\* the key is not there when it was never put, whatever flushes and merges have moved
\* in between.  (Without any table the answer for a key never put is undefined.)
THEOREM StoreIsMap == ASSUME Session PROVE Spec => ImplementsMap
<1> DEFINE shown == [key |-> answer.key,
                     value |-> IF answer.value = NOT_FOUND THEN Nothing ELSE answer.value]
           values == [k \in Keys |-> LastPut(k)]
<1>1. Init => Map!Init
  <2> SUFFICES ASSUME Init
               PROVE  Map!Init
    OBVIOUS
  <2>1. puts = <<>> /\ answer = [key |-> Nothing, value |-> Nothing]
    BY DEF Init, NoAnswer
  <2>2. 1..Len(<<>>) = {}
    BY EmptySeq
  <2>3. \A k \in Keys : LastPut(k) = Nothing
    BY <2>1, <2>2, LastPutIs DEF LastOf, Nothing
  <2>4. Nothing # NOT_FOUND
    BY DEF Nothing, NOT_FOUND
  <2>5. shown = [key |-> Nothing, value |-> Nothing]
    BY <2>1, <2>4
  <2>6. QED
    BY <2>3, <2>5 DEF Map!Init
<1>2. ASSUME SessionInv, ReadsInv, [Next]_vars
      PROVE  [Map!Next]_<<values, shown>>
  <2>1. CASE UNCHANGED <<puts, answer>>
    <3>1. values' = values
      <4>1. \A k \in Keys : LastPut(k)' = LastPut(k)
        BY <2>1 DEF LastPut, SelectLastInSeq
      <4>2. QED
        BY <4>1
    <3>2. shown' = shown
      BY <2>1
    <3>3. QED
      BY <3>1, <3>2
  <2>2. QED
    BY <1>2, <2>1, MapStep
<1>3. QED
  BY <1>1, <1>2, SessionAlways, PTL DEF Spec, ImplementsMap, Map!Spec

----------------------------------------------------------------------------
(* Restarts.                                                               *)

\* After BACK nothing is left in memory, in the array of merge or in a buffer.
EndInv ==
  /\ closing => phase \in {"down", "flush", "merge", "write", "stuck"} /\ memory_table = <<>>
  /\ phase \notin {"flush", "write"} => out = NoFile
  /\ phase \in {"down", "ready", "flush", "write"} => temp = <<>>

\* Every step keeps EndInv.
LEMMA EndStep ==
  ASSUME EndInv, [Next]_vars
  PROVE  EndInv'
<1>1. \A list, quit : /\ Rest(list, quit) \in {"merge", "down", "ready", "stuck"}
                      /\ quit => Rest(list, quit) \in {"merge", "down", "stuck"}
  BY RestIs
<1>2. CASE Start
  BY <1>2 DEF EndInv, Start
<1>3. CASE Back
  <2>1. phase = "ready" /\ closing' = TRUE /\ temp' = temp
    BY <1>3 DEF Back, mergeVars
  <2>2. CASE memory_table # <<>>
    <3>1. phase' = "flush" /\ memory_table' = <<>>
      BY <1>3, <2>2 DEF Back, Flush
    <3>2. QED
      BY <2>1, <3>1 DEF EndInv
  <2>3. CASE memory_table = <<>>
    <3>1. phase' = Rest(meta_list, TRUE) /\ memory_table' = memory_table /\ out' = out
      BY <1>3, <2>3 DEF Back, GoOn
    <3>2. phase' \in {"merge", "down", "stuck"}
      BY <1>1, <3>1
    <3>3. QED
      BY <2>1, <2>3, <3>1, <3>2 DEF EndInv
  <2>4. QED
    BY <2>2, <2>3
<1>4. CASE CloseFlush
  <2>1. /\ phase = "flush" /\ out' = NoFile /\ phase' = Rest(meta_list, closing)
        /\ UNCHANGED <<closing, memory_table, temp>>
    BY <1>4 DEF CloseFlush, GoOn, ramVars, mergeVars
  <2>2. /\ phase' \in {"merge", "down", "ready", "stuck"}
        /\ closing => phase' \in {"merge", "down", "stuck"}
    BY <1>1, <2>1
  <2>3. QED
    BY <2>1, <2>2 DEF EndInv
<1>5. CASE ManualMerge
  BY <1>5 DEF EndInv, ManualMerge, ramVars, mergeVars
<1>6. CASE MergeRead
  <2>1. /\ phase = "merge" /\ UNCHANGED <<memory_table, out>>
        /\ \/ phase' = "merge" /\ closing' = closing
           \/ phase' = "crashed" /\ closing' = FALSE
           \/ /\ phase' = IF closing THEN "stuck" ELSE "ready"
              /\ temp' = <<>> /\ closing' = closing
    BY <1>6 DEF MergeRead, MergerDies
  <2>2. QED
    BY <2>1 DEF EndInv
<1>7. CASE MergeWrite
  BY <1>7 DEF EndInv, MergeWrite
<1>8. CASE CloseMerge
  BY <1>8 DEF EndInv, CloseMerge, ramVars, mergeVars
<1>9. CASE Crash
  BY <1>9 DEF EndInv, Crash
<1>10. ASSUME NEW k \in Keys, put_pair(k)
       PROVE  EndInv'
  <2>1. phase = "ready" /\ UNCHANGED <<closing, temp>>
    BY <1>10 DEF put_pair, mergeVars
  <2>2. ~closing
    BY <2>1 DEF EndInv
  <2>3. phase' = "flush" \/ (phase' = Rest(meta_list, closing) /\ out' = out)
    BY <1>10 DEF put_pair, GoOn, Flush
  <2>4. phase' = "flush" \/ (phase' \in {"merge", "down", "ready", "stuck"} /\ out' = out)
    BY <1>1, <2>3
  <2>5. QED
    BY <2>1, <2>2, <2>4 DEF EndInv
<1>11. ASSUME NEW k \in Keys, Get(k)
       PROVE  EndInv'
  <2>1. /\ phase = "ready" /\ phase' \in {"ready", "crashed"}
        /\ UNCHANGED <<closing, memory_table, temp, out>>
    BY <1>11 DEF Get, ramVars, mergeVars
  <2>2. QED
    BY <2>1 DEF EndInv
<1>12. CASE UNCHANGED vars
  BY <1>12 DEF EndInv, vars
<1>13. QED
  BY <1>2, <1>3, <1>4, <1>5, <1>6, <1>7, <1>8, <1>9, <1>10, <1>11, <1>12 DEF Next

\* The value of a key when only the files of disk are read, the one with the greatest
\* number first.
OnDisk(disk, k, v) ==
  \/ v = Nothing /\ \A f \in DOMAIN disk : search(Pairs(disk[f]), k) = NOT_FOUND
  \/ \E f \in DOMAIN disk :
       /\ search(Pairs(disk[f]), k) # NOT_FOUND /\ v = search(Pairs(disk[f]), k)
       /\ \A g \in DOMAIN disk : f < g => search(Pairs(disk[g]), k) = NOT_FOUND

\* There is nothing but the files.
OnlyFiles == memory_table = <<>> /\ temp = <<>> /\ out = NoFile

\* What is read through a list in the order of the numbers.
LEMMA FoundOnDisk ==
  ASSUME BoundsInv, OnlyFiles, NumbersInOrder, NEW k
  PROVE  /\ Len(meta_list) \in Nat
         /\ \A i, j \in 1..Len(meta_list) : i < j => meta_list[i].file < meta_list[j].file
         /\ \A i \in 1..Len(meta_list) : meta_list[i].file \in Nat
         /\ \A f \in DOMAIN files : \E i \in 1..Len(meta_list) : meta_list[i].file = f
         /\ \A i \in 1..Len(meta_list) :
              Found(out, files, meta_list, k)[i]
                = IF meta_list[i].file \in DOMAIN files
                  THEN search(Pairs(files[meta_list[i].file]), k) ELSE NOT_FOUND
<1>1. meta_list \in Seq(Node) /\ DOMAIN files \subseteq Named(meta_list)
  BY DEF BoundsInv, ListInv
<1>2. Len(meta_list) \in Nat /\ DOMAIN meta_list = 1..Len(meta_list)
  BY <1>1, LenProperties
<1>3. \A i \in 1..Len(meta_list) : meta_list[i] \in Node
  BY <1>1, ElementOfSeq
<1>4. \A i \in 1..Len(meta_list) : meta_list[i].file \in Nat \ {0}
  BY <1>3 DEF Node
<1>5. ASSUME NEW i \in 1..Len(meta_list)
      PROVE  Found(out, files, meta_list, k)[i]
               = IF meta_list[i].file \in DOMAIN files
                 THEN search(Pairs(files[meta_list[i].file]), k) ELSE NOT_FOUND
  <2>1. meta_list[i].file # out.number
    BY <1>4 DEF OnlyFiles, NoFile
  <2>2. Found(out, files, meta_list, k)[i]
          = search(Pairs(TableIn(out, files, meta_list[i].file)), k)
    BY DEF Found
  <2>3. CASE meta_list[i].file \in DOMAIN files
    BY <2>1, <2>2, <2>3 DEF TableIn
  <2>4. CASE meta_list[i].file \notin DOMAIN files
    <3>1. TableIn(out, files, meta_list[i].file) = <<>>
      BY <2>1, <2>4 DEF TableIn
    <3>2. QED
      BY <2>2, <2>4, <3>1, ReadBack, SearchEmpty
  <2>5. QED
    BY <2>3, <2>4
<1>6. QED
  BY <1>1, <1>2, <1>4, <1>5 DEF NumbersInOrder, Named

\* There is such a value.
LEMMA DiskHas ==
  ASSUME BoundsInv, OnlyFiles, NumbersInOrder, NEW k
  PROVE  \E v : OnDisk(files, k, v)
<1> DEFINE n == Len(meta_list)
           tab == Found(out, files, meta_list, k)
           F(i) == meta_list[i].file
           I == {i \in 1..n : tab[i] # NOT_FOUND}
<1>1. /\ n \in Nat
      /\ \A i, j \in 1..n : i < j => F(i) < F(j)
      /\ \A i \in 1..n : F(i) \in Nat
      /\ \A f \in DOMAIN files : \E i \in 1..n : F(i) = f
      /\ \A i \in 1..n :
           tab[i] = IF F(i) \in DOMAIN files THEN search(Pairs(files[F(i)]), k) ELSE NOT_FOUND
  BY FoundOnDisk
<1> HIDE DEF n, tab, F
<1>2. I \in SUBSET (1..n)
  OBVIOUS
<1>3. CASE I = {}
  <2>1. \A f \in DOMAIN files : search(Pairs(files[f]), k) = NOT_FOUND
    <3> TAKE f \in DOMAIN files
    <3>1. PICK i \in 1..n : F(i) = f
      BY <1>1
    <3>2. tab[i] = NOT_FOUND
      BY <1>3
    <3>3. QED
      BY <1>1, <3>1, <3>2
  <2>2. QED
    BY <2>1 DEF OnDisk
<1>4. CASE I # {}
  <2>1. Max(I) \in I /\ \A y \in I : y <= Max(I)
    BY <1>1, <1>2, <1>4, LastPosition
  <2>2. PICK m \in 1..n : m \in I /\ \A y \in I : y <= m
    BY <1>2, <2>1
  <2> HIDE DEF I
  <2>3. tab[m] # NOT_FOUND
    BY <2>2 DEF I
  <2>4. F(m) \in DOMAIN files /\ search(Pairs(files[F(m)]), k) # NOT_FOUND
    BY <1>1, <2>3
  <2>5. ASSUME NEW g \in DOMAIN files, F(m) < g
        PROVE  search(Pairs(files[g]), k) = NOT_FOUND
    <3>1. PICK j \in 1..n : F(j) = g
      BY <1>1
    <3>2. m < j
      <4>1. ~(j < m) /\ j # m
        <5>1. F(m) \in Nat /\ F(j) \in Nat
          BY <1>1
        <5>2. j < m => F(j) < F(m)
          BY <1>1
        <5>3. QED
          BY <2>5, <3>1, <5>1, <5>2
      <4>2. QED
        BY <1>1, <4>1
    <3>3. j \notin I
      BY <1>1, <2>2, <3>2
    <3>4. tab[j] = NOT_FOUND
      BY <3>3 DEF I
    <3>5. QED
      BY <1>1, <3>1, <3>4
  <2>6. OnDisk(files, k, search(Pairs(files[F(m)]), k))
    BY <2>4, <2>5 DEF OnDisk
  <2>7. QED
    BY <2>6
<1>5. QED
  BY <1>3, <1>4

\* It is what the store holds.
DiskHeld == \A k, v : OnDisk(files, k, v) => Held(k) = v

\* A list in the order of the numbers reads the files in this order.
LEMMA DiskIsHeld == BoundsInv /\ OnlyFiles /\ NumbersInOrder => DiskHeld
<1> SUFFICES ASSUME BoundsInv, OnlyFiles, NumbersInOrder, NEW k, NEW v, OnDisk(files, k, v)
             PROVE  Held(k) = v
  BY DEF DiskHeld
<1> DEFINE n == Len(meta_list)
           tab == Found(out, files, meta_list, k)
           F(i) == meta_list[i].file
<1>1. /\ n \in Nat
      /\ \A i, j \in 1..n : i < j => F(i) < F(j)
      /\ \A f \in DOMAIN files : \E i \in 1..n : F(i) = f
      /\ \A i \in 1..n :
           tab[i] = IF F(i) \in DOMAIN files THEN search(Pairs(files[F(i)]), k) ELSE NOT_FOUND
  BY FoundOnDisk
<1>2. search(memory_table, k) = NOT_FOUND /\ search(temp, k) = NOT_FOUND
  BY SearchEmpty DEF OnlyFiles
<1> HIDE DEF n, tab, F
<1>3. Holds(NOT_FOUND, tab, n, NOT_FOUND, v)
  <2>1. CASE v = Nothing /\ \A f \in DOMAIN files : search(Pairs(files[f]), k) = NOT_FOUND
    <3>1. \A i \in 1..n : tab[i] = NOT_FOUND
      BY <1>1, <2>1
    <3>2. QED
      BY <2>1, <3>1 DEF Holds
  <2>2. CASE \E f \in DOMAIN files :
               /\ search(Pairs(files[f]), k) # NOT_FOUND /\ v = search(Pairs(files[f]), k)
               /\ \A g \in DOMAIN files : f < g => search(Pairs(files[g]), k) = NOT_FOUND
    <3>1. PICK f \in DOMAIN files :
               /\ search(Pairs(files[f]), k) # NOT_FOUND /\ v = search(Pairs(files[f]), k)
               /\ \A g \in DOMAIN files : f < g => search(Pairs(files[g]), k) = NOT_FOUND
      BY <2>2
    <3>2. PICK i \in 1..n : F(i) = f
      BY <1>1
    <3>3. tab[i] # NOT_FOUND /\ v = tab[i]
      BY <1>1, <3>1, <3>2
    <3>4. \A j \in 1..n : i < j => tab[j] = NOT_FOUND
      BY <1>1, <3>1, <3>2
    <3>5. QED
      BY <3>3, <3>4 DEF Holds
  <2>3. QED
    BY <2>1, <2>2 DEF OnDisk
<1>4. QED
  BY <1>2, <1>3, HoldsHeld DEF n, tab

\* What OrderedRestartKeepsReads says of a step.
OrderedStep == Start /\ closing /\ NumbersInOrder => \A k \in Keys : Held(k)' = Held(k)

\* A start reads the files in the order of their numbers.
LEMMA OrderedStart ==
  ASSUME Sizes, BoundsInv, EndInv, [Next]_vars
  PROVE  OrderedStep
<1> SUFFICES ASSUME Start, closing, NumbersInOrder
             PROVE  \A k \in Keys : Held(k)' = Held(k)
  BY DEF OrderedStep
<1>1. BoundsInv'
  BY BoundsStep
<1>2. OnlyFiles
  <2>1. phase = "down"
    BY DEF Start, EndInv
  <2>2. QED
    BY <2>1 DEF EndInv, OnlyFiles
<1>3. OnlyFiles' /\ files' = files
  BY DEF Start, OnlyFiles
<1>4. NumbersInOrder'
  <2>1. PICK dir \in SetToSeqs(DOMAIN files) : meta_list' = load_storage(dir).list
    BY DEF Start
  <2>2. /\ meta_list \in Seq(Node) /\ DOMAIN files \subseteq Named(meta_list)
        /\ META_LIST_CNT \in Nat /\ MERGE_TRIGGER \in Nat /\ MERGE_TRIGGER <= META_LIST_CNT
        /\ Len(meta_list) \in Nat /\ Len(meta_list) <= MERGE_TRIGGER
    BY BoundsTypes DEF BoundsInv, ListInv
  <2>3. IsFiniteSet(Named(meta_list)) /\ Cardinality(Named(meta_list)) <= Len(meta_list)
        /\ Cardinality(Named(meta_list)) \in Nat
    BY <2>2, NamedBound
  <2>4. IsFiniteSet(DOMAIN files) /\ Cardinality(DOMAIN files) <= Cardinality(Named(meta_list))
    BY <2>2, <2>3, FS_Subset
  <2>5. Cardinality(DOMAIN files) \in Nat
    BY <2>4, FS_CardinalityType
  <2>6. Cardinality(DOMAIN files) <= META_LIST_CNT
    BY <2>2, <2>3, <2>4, <2>5
  <2>7. DOMAIN files \subseteq Nat \ {0}
    <3>1. \A i \in 1..Len(meta_list) : meta_list[i] \in Node
      BY <2>2, ElementOfSeq
    <3>2. \A i \in 1..Len(meta_list) : meta_list[i].file \in Nat \ {0}
      BY <3>1 DEF Node
    <3>3. QED
      BY <2>2, <3>2 DEF Named
  <2>8. InNumberOrder(meta_list', DOMAIN files)
    BY <2>1, <2>4, <2>6, <2>7, Loaded
  <2>9. meta_list' \in Seq(Node)
        /\ \A i, j \in 1..Len(meta_list') : i < j => meta_list'[i].file < meta_list'[j].file
    BY <2>8 DEF InNumberOrder
  <2>10. DOMAIN meta_list' = 1..Len(meta_list')
    BY <2>9, LenProperties
  <2>11. QED
    BY <2>9, <2>10 DEF NumbersInOrder
<1>5. DiskHeld
  BY <1>2, DiskIsHeld
<1>6. (BoundsInv /\ OnlyFiles /\ NumbersInOrder => DiskHeld)'
  BY DiskIsHeld, PTL
<1>7. DiskHeld'
  BY <1>1, <1>3, <1>4, <1>6
<1>8. ASSUME NEW k \in Keys
      PROVE  Held(k)' = Held(k)
  <2>1. PICK v : OnDisk(files, k, v)
    BY <1>2, DiskHas
  <2>2. Held(k) = v
    BY <1>5, <2>1 DEF DiskHeld
  <2>3. OnDisk(files', k, v)
    BY <1>3, <2>1
  <2>4. Held(k)' = v
    BY <1>7, <2>3 DEF DiskHeld
  <2>5. QED
    BY <2>2, <2>4
<1>9. QED
  BY <1>8

\* Over any number of starts and kills: a start after BACK finds for every key the
\* value that was found before, as long as the list was in the order of the numbers of
\* its files, also when a kill or a number used twice has left nodes without a file.
THEOREM OrderedRestartIsSafe == ASSUME Sizes PROVE Spec => OrderedRestartKeepsReads
<1>1. Init => BoundsInv /\ EndInv
  <2>1. Init => EndInv
    BY DEF Init, EndInv
  <2>2. QED
    BY <2>1, BoundsInit
<1>2. BoundsInv /\ EndInv /\ [Next]_vars => BoundsInv' /\ EndInv'
  BY BoundsStep, EndStep
<1>3. BoundsInv /\ EndInv /\ [Next]_vars => [OrderedStep]_vars
  BY OrderedStart
<1>4. Spec => [][OrderedStep]_vars
  BY <1>1, <1>2, <1>3, PTL DEF Spec
<1>5. QED
  BY <1>4 DEF OrderedRestartKeepsReads, OrderedStep

=============================================================================
