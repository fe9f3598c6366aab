------------------------------ MODULE MetaList ------------------------------
(***************************************************************************)
(* The list of tables as store.c keeps it in shared memory: LIST_CNT       *)
(* nodes, those with index 0 free, linked in both directions.  main and    *)
(* merge change it in turns (KvProcesses, StoreExclusion), so insert_node  *)
(* and popleft are single steps.                                           *)
(***************************************************************************)
EXTENDS Integers, Sequences, FiniteSets, FiniteSetsExt

CONSTANTS
  LIST_CNT,       \* number of nodes, META_LIST_CNT in the code
  Indexes,        \* the indexes tables are inserted with
  Filenames       \* the names they are inserted with

ASSUME MetaListAssumption ==
  /\ LIST_CNT \in Nat \ {0}
  /\ Indexes \subseteq Nat \ {0}

VARIABLES node, head, tail

listVars == <<node, head, tail>>

NULL == 0
NoName == "none"
Slots == 1..LIST_CNT
Free == [index |-> 0, filename |-> NoName, prev |-> NULL, next |-> NULL]

\* init_shared_memory clears the block.
ListInit ==
  /\ node = [i \in Slots |-> Free]
  /\ head = NULL
  /\ tail = NULL

\* The nodes in the order of next, from head; those of prev, from tail.
Forward == LET f[n \in 0..LIST_CNT] ==
                 IF n = 0 THEN head
                 ELSE IF f[n - 1] = NULL THEN NULL ELSE node[f[n - 1]].next
           IN  f
Backward == LET b[n \in 0..LIST_CNT] ==
                  IF n = 0 THEN tail
                  ELSE IF b[n - 1] = NULL THEN NULL ELSE node[b[n - 1]].prev
            IN  b

\* storage_cnt counts the nodes that next reaches.
StorageCnt == Cardinality({n \in 0..LIST_CNT : Forward[n] # NULL})

\* The loop of insert_node goes on while this holds for the current node
\* (mutant: it also passes nodes with the same index).
PassesEqual(i, index) == node[i].index <= index
Passes(i, index) == node[i].index < index

\* The node before which insert_node inserts, NULL for the end of the list.
CurrentNode(index) ==
  LET stops == {n \in 0..LIST_CNT :
                  Forward[n] = NULL \/ ~Passes(Forward[n], index)}
  IN  Forward[Min(stops)]

\* The three cases of linking the new node i before node cur.
LinkFirst(i, new) ==
  /\ node' = [node EXCEPT ![i] = [new EXCEPT !.next = head], ![head].prev = i]
  /\ head' = i
  /\ UNCHANGED tail

LinkLast(i, new) ==
  /\ node' = [node EXCEPT ![i] = [new EXCEPT !.prev = tail], ![tail].next = i]
  /\ tail' = i
  /\ UNCHANGED head

\* (mutant: the node after i keeps its old prev)
LinkMiddleNoPrev(i, new, cur) ==
  /\ node' = [node EXCEPT ![i] = [new EXCEPT !.next = cur, !.prev = node[cur].prev],
                          ![node[cur].prev].next = i]
  /\ UNCHANGED <<head, tail>>
LinkMiddle(i, new, cur) ==
  /\ node' = [node EXCEPT ![i] = [new EXCEPT !.next = cur, !.prev = node[cur].prev],
                          ![node[cur].prev].next = i,
                          ![cur].prev = i]
  /\ UNCHANGED <<head, tail>>

\* insert_node takes the first free node; without one it does nothing.
FreeSlots == {i \in Slots : node[i].index = 0}

insert_node(index, filename) ==
  /\ FreeSlots # {}
  /\ LET i   == Min(FreeSlots)
         new == [index |-> index, filename |-> filename, prev |-> NULL, next |-> NULL]
         cur == CurrentNode(index)
     IN  \/ /\ head = NULL
            /\ node' = [node EXCEPT ![i] = new]
            /\ head' = i
            /\ tail' = i
         \/ head # NULL /\ cur = head /\ LinkFirst(i, new)
         \/ head # NULL /\ cur = NULL /\ LinkLast(i, new)
         \/ head # NULL /\ cur \notin {head, NULL} /\ LinkMiddle(i, new, cur)

\* popleft frees the node at the head.
Released(i) == Free

popleft ==
  /\ head # NULL
  /\ LET second == node[head].next IN
     /\ head' = second
     /\ IF second = NULL
        THEN /\ tail' = NULL
             /\ node' = [node EXCEPT ![head] = Released(head)]
        ELSE /\ UNCHANGED tail
             /\ node' = [node EXCEPT ![head] = Released(head), ![second].prev = NULL]

ListNext == popleft \/ \E index \in Indexes, f \in Filenames : insert_node(index, f)

ListSpec == ListInit /\ [][ListNext]_listVars

----------------------------------------------------------------------------
(* Properties.                                                             *)

\* get_pair walks the list by prev from the tail, merge by next from the head:
\* both see the same tables, in opposite orders, and both walks end.
WalksAgree ==
  LET n == StorageCnt IN
  /\ Forward[LIST_CNT] = NULL
  /\ \A i \in 0..(n - 1) : Backward[i] = Forward[n - 1 - i]
  /\ Backward[n] = NULL

\* No node is lost: the nodes in use are the ones in the list, so the block has
\* room for LIST_CNT tables however long the program runs.
NoLeak == {i \in Slots : node[i].index # 0} = {Forward[n] : n \in 0..LIST_CNT} \ {NULL}

\* The list is the same from both ends and holds every node that is in use, after
\* every order of insert_node and popleft.
LinksSound == WalksAgree /\ NoLeak

\* insert_node and popleft on the linked nodes are the operations of TableList
\* on a sorted sequence.
Listed == [i \in 1..StorageCnt |->
             [index |-> node[Forward[i - 1]].index, filename |-> node[Forward[i - 1]].filename]]
Abstract == INSTANCE TableList WITH
              Capacity <- LIST_CNT,
              Tables <- [index : Indexes, filename : Filenames],
              list <- Listed
ImplementsTableList == Abstract!Spec

=============================================================================
