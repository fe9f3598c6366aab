------------------------------- MODULE KvMap -------------------------------
(***************************************************************************)
(* What the store of hw1 promises (store.h): a map.  put_pair writes a     *)
(* pair, get_pair finds the pair written most recently for the key that it *)
(* is asked for ("search key value pair with key by recently") and nothing *)
(* for a key that was never put; flush and merge move data from the memory *)
(* table into files and between files and are not visible.                 *)
(***************************************************************************)
CONSTANTS Keys, Values, None   \* None is neither a key nor a value

VARIABLES
  db,      \* the value of each key, None before its first put
  answer,  \* the last get_pair: the key it was asked for and the value it returned
  stored   \* there is a table; the map does not say when

Init ==
  /\ db = [k \in Keys |-> None]
  /\ answer = [key |-> None, value |-> None]

Put(k, v) ==
  /\ db' = [db EXCEPT ![k] = v]
  /\ UNCHANGED answer

Get(k) ==
  /\ answer' = [key |-> k, value |-> db[k]]
  /\ UNCHANGED db

\* The one licence: as long as there is no table, what is returned for a key that was
\* never put is not determined.
GetUndefined(k) ==
  /\ ~stored /\ db[k] = None
  /\ \E v \in Values \cup {None} : answer' = [key |-> k, value |-> v]
  /\ UNCHANGED db

Next == \E k \in Keys : \/ Get(k) \/ GetUndefined(k)
                        \/ \E v \in Values : Put(k, v)

Spec == Init /\ [][Next]_<<db, answer>>

=============================================================================
