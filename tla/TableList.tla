----------------------------- MODULE TableList -----------------------------
(***************************************************************************)
(* What store.c means its list of tables to be: a sequence of tables in    *)
(* the order of their indexes, from the oldest to the most recent, that    *)
(* holds at most Capacity tables.                                          *)
(***************************************************************************)
EXTENDS Integers, Sequences, FiniteSetsExt, SequencesExt

CONSTANTS Capacity, Tables     \* a table is a record with a field index

VARIABLE list

\* Before the first table whose index is not smaller, at the end if there is none.
Place(s, t) == Min({i \in 1..Len(s) : s[i].index >= t.index} \union {Len(s) + 1})
InsertTable(s, t) == InsertAt(s, Place(s, t), t)

Init == list = <<>>

\* insert_node without a free node does nothing, which is a stutter here.
Insert(t) ==
  /\ Len(list) < Capacity
  /\ list' = InsertTable(list, t)

PopLeft ==
  /\ list # <<>>
  /\ list' = Tail(list)

Next == PopLeft \/ \E t \in Tables : Insert(t)

Spec == Init /\ [][Next]_list

=============================================================================
