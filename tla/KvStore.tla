------------------------------ MODULE KvStore ------------------------------
(***************************************************************************)
(* The key-value store of hw1 (store.c): pairs are collected in a memory   *)
(* table, a full memory table is flushed to a numbered file, and when      *)
(* there are MERGE_TRIGGER files the two oldest are merged into one.  A    *)
(* list in memory (meta_list) keeps the files from the oldest to the most  *)
(* recent.                                                                 *)
(*                                                                         *)
(* flush and merge are cut where they call the file system, since that is  *)
(* where the program may be killed: stdio keeps what is printed to a file  *)
(* in its buffer until fclose, so a file that is being written is empty.   *)
(* Only one process works on the store at a time (KvProcesses,             *)
(* StoreExclusion), so nothing interleaves with a flush or a merge.        *)
(*                                                                         *)
(* The i-th put writes the value i: no two puts write the same value, so   *)
(* that a value tells which put it comes from.                             *)
(***************************************************************************)
EXTENDS Integers, Sequences, FiniteSets, SequencesExt

CONSTANTS
  Keys,               \* the keys that are put and read, positive integers
  MEMORY_TABLE_SIZE,  \* pairs in the memory table before it is flushed
  MERGE_TABLE_SIZE,   \* tables that one merge reads
  MERGE_TRIGGER,      \* the number of tables that makes main ask for a merge
  META_LIST_CNT,      \* nodes that fit in the list of tables
  MaxPuts,            \* bound: calls of put_pair
  MaxStarts,          \* bound: times the program is started
  MaxCrashes          \* bound: times it is killed

ASSUME KvStoreAssumption ==
  /\ Keys \subseteq Nat \ {0} /\ IsFiniteSet(Keys)
  /\ MEMORY_TABLE_SIZE \in Nat \ {0}
  /\ MERGE_TABLE_SIZE \in Nat \ {0} /\ MERGE_TABLE_SIZE <= MERGE_TRIGGER
  /\ MERGE_TRIGGER \in Nat /\ MERGE_TRIGGER <= META_LIST_CNT
  /\ META_LIST_CNT \in Nat
  /\ MaxPuts \in Nat /\ MaxStarts \in Nat /\ MaxCrashes \in Nat

VARIABLES
  phase,         \* what the store is doing
  closing,       \* the program is handling BACK
  memory_table,  \* pairs not yet flushed, oldest first
  table_index,   \* the index of the next pair
  meta_index,    \* meta_list->index, the number of the next file
  meta_list,     \* the tables, oldest first
  files,         \* the .sst files on disk, by number: the lines of each
  temp,          \* merge's array: the pairs it has read
  order,         \* the list index of the oldest table that is being merged
  popped,        \* tables that merge has taken from the list
  out,           \* the file open for writing and the lines in its buffer
  merger,        \* the merge process: it waits for a request, merges, or is dead
  answer,        \* the last get_pair: the key asked for and the value returned
  puts,          \* history: the key of each put
  starts, crashes

ramVars == <<memory_table, table_index, meta_index, meta_list>>
mergeVars == <<temp, order, popped>>
envVars == <<answer, puts, starts, crashes>>
vars == <<phase, closing, memory_table, table_index, meta_index, meta_list, files,
          temp, order, popped, out, merger, answer, puts, starts, crashes>>

NOT_FOUND == -1     \* the answer of get_pair that is not a value
Nothing == 0        \* neither a key nor a value
NoAnswer == [key |-> Nothing, value |-> Nothing]

Values == 1..MaxPuts
NoFile == [number |-> 0, lines |-> <<>>]

----------------------------------------------------------------------------
(* A line of a table file is "index key value" (fprintf in flush and       *)
(* merge); fscanf and strtok read it back.                                 *)
Line(pair) == <<pair.index, pair.key, pair.value>>

\* (mutant: the first two numbers are read into the wrong variables)
ParseSwapped(line) == [index |-> line[2], key |-> line[1], value |-> line[3]]
Parse(line) == [index |-> line[1], key |-> line[2], value |-> line[3]]

Lines(pairs) == [i \in DOMAIN pairs |-> Line(pairs[i])]
Pairs(lines) == [i \in DOMAIN lines |-> Parse(lines[i])]

----------------------------------------------------------------------------
(* The algorithms of merge.                                                *)

\* The elements of a finite set in an order: below has what comes before each.
InOrder(S, below) ==
  [i \in 1..Cardinality(S) |-> CHOOSE x \in S : Cardinality(below[x]) = i - 1]
Ascending(S) == InOrder(S, [j \in S |-> {i \in S : i < j}])
At(t, pos) == [i \in DOMAIN pos |-> t[pos[i]]]

\* qsort with compare_key.  The C library's qsort is a merge sort, which keeps
\* pairs with equal keys in the order they had.
sort_by_key(t) ==
  LET Before(i, j) == t[i].key < t[j].key \/ (t[i].key = t[j].key /\ i < j)
  IN  At(t, InOrder(DOMAIN t, [j \in DOMAIN t |-> {i \in DOMAIN t : Before(i, j)}]))

\* Of neighbours with the same key the last one stays.
remove_duplicates(t) ==
  At(t, Ascending({i \in DOMAIN t : i < Len(t) => t[i].key # t[i + 1].key}))

reindex(t) == [i \in DOMAIN t |-> [t[i] EXCEPT !.index = i]]

Merged(t) == reindex(remove_duplicates(sort_by_key(t)))

----------------------------------------------------------------------------
(* The list of tables.                                                     *)

\* insert_node puts a node before the first one whose index is not smaller, and
\* does nothing when every node is in use (mutant: it appends).
AppendNode(list, index, number) == Append(list, [index |-> index, file |-> number])
insert_node(list, index, number) ==
  IF Len(list) = META_LIST_CNT THEN list
  ELSE LET smaller == {i \in DOMAIN list : \A j \in 1..i : list[j].index < index}
       IN  InsertAt(list, Cardinality(smaller) + 1, [index |-> index, file |-> number])

storage_cnt(list) == Len(list)

\* The check that decides whether main asks for a merge (mutant: one table late).
NeedsMergeLate(list) == storage_cnt(list) = MERGE_TRIGGER + 1
NeedsMerge(list) == storage_cnt(list) = MERGE_TRIGGER

\* meta_list->index++ (mutant: without the increment).
SameNumber(n) == n
NextNumber(n) == n + 1

\* popleft removes the file of the node.
RemoveFile(disk, number) == [f \in DOMAIN disk \ {number} |-> disk[f]]

\* fopen(.., "w+") creates the file or empties it.
OpenFile(disk, number) == [f \in DOMAIN disk \cup {number} |->
                             IF f = number THEN <<>> ELSE disk[f]]

----------------------------------------------------------------------------
(* Reading.                                                                *)

\* The value of the last of some pairs that has key k.
search(pairs, k) ==
  LET i == SelectLastInSeq(pairs, LAMBDA pair : pair.key = k)
  IN  IF i = 0 THEN NOT_FOUND ELSE pairs[i].value

\* search_storage reads a table from its last line up (mutant: it returns what it
\* read last).
LeavesLast(lines, k) ==
  IF search(Pairs(lines), k) = NOT_FOUND THEN Pairs(lines)[1].value ELSE search(Pairs(lines), k)
search_storage(lines, k) == search(Pairs(lines), k)

\* get_pair goes from the tail of the list to its head; it stops at a table that
\* has the key or that cannot be opened.
StopsAt(k, node) == \/ node.file \notin DOMAIN files
                    \/ search_storage(files[node.file], k) # NOT_FOUND
LastStop(k) == SelectLastInSeq(meta_list, LAMBDA node : StopsAt(k, node))

ReadsMissingFile(k) ==
  /\ search(memory_table, k) = NOT_FOUND
  /\ LastStop(k) > 0
  /\ meta_list[LastStop(k)].file \notin DOMAIN files

\* With no table at all the result is an uninitialised variable.
get_pair(k) ==
  CASE search(memory_table, k) # NOT_FOUND -> {search(memory_table, k)}
    [] search(memory_table, k) = NOT_FOUND /\ LastStop(k) > 0
         -> {search_storage(files[meta_list[LastStop(k)].file], k)}
    [] search(memory_table, k) = NOT_FOUND /\ LastStop(k) = 0
         -> IF meta_list = <<>> THEN {NOT_FOUND} \cup Values ELSE {NOT_FOUND}

----------------------------------------------------------------------------
Init ==
  /\ phase = "down"
  /\ closing = FALSE
  /\ memory_table = <<>>
  /\ table_index = 1
  /\ meta_index = 1
  /\ meta_list = <<>>
  /\ files = [f \in {} |-> <<>>]
  /\ temp = <<>> /\ order = 0 /\ popped = 0
  /\ out = NoFile
  /\ merger = "waits"
  /\ answer = NoAnswer
  /\ puts = <<>> /\ starts = 0 /\ crashes = 0

\* load_storage reads the directory in the order dir; every file number that is
\* greater than the counter moves the counter behind it.
load_entry(loaded, n) ==
  [counter |-> IF n > loaded.counter THEN n + 1 ELSE loaded.counter,
   list    |-> insert_node(loaded.list, n, n)]
load_storage(dir) ==
  LET loaded[i \in 0..Len(dir)] ==
        IF i = 0 THEN [counter |-> 1, list |-> <<>>]
        ELSE load_entry(loaded[i - 1], dir[i])
  IN  loaded[Len(dir)]

\* init_store.
Start ==
  /\ phase \in {"down", "crashed"}
  /\ starts < MaxStarts
  /\ \E dir \in SetToSeqs(DOMAIN files) :
       /\ meta_index' = load_storage(dir).counter
       /\ meta_list' = load_storage(dir).list
  /\ memory_table' = <<>>
  /\ table_index' = 1
  /\ phase' = "ready"
  /\ closing' = FALSE
  /\ temp' = <<>> /\ order' = 0 /\ popped' = 0
  /\ out' = NoFile
  /\ merger' = "waits"
  /\ starts' = starts + 1
  /\ answer' = NoAnswer
  /\ UNCHANGED <<files, puts, crashes>>

\* What follows a flush and a put: the next request; or a command to the merge
\* process, which merges, or ends with the program.  A merge process that is dead does
\* not answer: main stays in write_shm for ever (KvFaults, MainOutlivesMerge).
Rest(list, quit) ==
  CASE ~NeedsMerge(list) /\ ~quit -> "ready"
    [] (NeedsMerge(list) \/ quit) /\ merger = "dead" -> "stuck"
    [] NeedsMerge(list) /\ merger # "dead" -> "merge"
    [] ~NeedsMerge(list) /\ quit /\ merger # "dead" -> "down"
GoOn(list, quit) ==
  /\ phase' = Rest(list, quit)
  /\ merger' = IF Rest(list, quit) = "merge" THEN "merges" ELSE merger

\* put_pair flushes a full table.
Full(t) == Len(t) = MEMORY_TABLE_SIZE

\* flush of a non-empty memory table t: fopen, the lines into the buffer,
\* insert_node; fclose is CloseFlush.
Flush(t) ==
  /\ files' = OpenFile(files, meta_index)
  /\ out' = [number |-> meta_index, lines |-> Lines(t)]
  /\ meta_list' = insert_node(meta_list, meta_index, meta_index)
  /\ meta_index' = NextNumber(meta_index)
  /\ memory_table' = <<>>
  /\ phase' = "flush"
  /\ UNCHANGED merger

\* put_pair, and the check of main_process after it.
put_pair(k) ==
  /\ phase = "ready"
  /\ Len(puts) < MaxPuts
  /\ LET pair == [index |-> table_index, key |-> k, value |-> Len(puts) + 1]
         t == Append(memory_table, pair)
     IN IF Full(t)
        THEN Flush(t)
        ELSE /\ memory_table' = t
             /\ GoOn(meta_list, closing)
             /\ UNCHANGED <<meta_index, meta_list, files, out>>
  /\ table_index' = table_index + 1
  /\ puts' = Append(puts, k)
  /\ UNCHANGED <<closing, mergeVars, answer, starts, crashes>>

\* BACK in main_process: flush, a merge if there are too many tables, the end.
Back ==
  /\ phase = "ready"
  /\ closing' = TRUE
  /\ IF memory_table # <<>>
     THEN Flush(memory_table)
     ELSE /\ GoOn(meta_list, TRUE)
          /\ UNCHANGED <<memory_table, meta_index, meta_list, files, out>>
  /\ UNCHANGED <<table_index, mergeVars, envVars>>

\* fclose at the end of flush.
CloseFlush ==
  /\ phase = "flush"
  /\ files' = [files EXCEPT ![out.number] = out.lines]
  /\ out' = NoFile
  /\ GoOn(meta_list, closing)
  /\ UNCHANGED <<closing, ramVars, mergeVars, envVars>>

\* RESET in MERGE mode: main itself merges when there are two tables.
ManualMerge ==
  /\ phase = "ready"
  /\ storage_cnt(meta_list) >= 2
  /\ phase' = "merge"
  /\ UNCHANGED <<closing, ramVars, files, mergeVars, out, merger, envVars>>

\* A table whose file is not there is a null FILE pointer, which kills the process
\* that merges.  When it is main the program has ended; main outlives the merge process
\* (SEM_UNDO wakes it from P(merge_sem)), without the pairs that were read.
MergerDies ==
  IF merger = "merges"
  THEN /\ merger' = "dead"
       /\ phase' = IF closing THEN "stuck" ELSE "ready"
       /\ temp' = <<>> /\ order' = 0 /\ popped' = 0
       /\ UNCHANGED closing
  ELSE /\ phase' = "crashed"
       /\ closing' = FALSE
       /\ UNCHANGED <<merger, mergeVars>>

\* merge: read the table at the head of the list, then popleft.
MergeRead ==
  /\ phase = "merge"
  /\ popped < MERGE_TABLE_SIZE
  /\ LET head == Head(meta_list) IN
     IF head.file \in DOMAIN files
     THEN /\ temp' = temp \o Pairs(files[head.file])
          /\ order' = IF popped = 0 THEN head.index ELSE order
          /\ popped' = popped + 1
          /\ meta_list' = Tail(meta_list)
          /\ files' = RemoveFile(files, head.file)
          /\ UNCHANGED <<phase, closing, merger>>
     ELSE MergerDies /\ UNCHANGED <<meta_list, files>>
  /\ UNCHANGED <<memory_table, table_index, meta_index, out, envVars>>

\* merge: the new table, in the place of the oldest one (mutant: as the most
\* recent one).
MergeOrderNew(head, number) == number
MergeOrder(head, number) == head

MergeWrite ==
  /\ phase = "merge"
  /\ popped = MERGE_TABLE_SIZE
  /\ files' = OpenFile(files, meta_index)
  /\ out' = [number |-> meta_index, lines |-> Lines(Merged(temp))]
  /\ meta_list' = insert_node(meta_list, MergeOrder(order, meta_index), meta_index)
  /\ meta_index' = NextNumber(meta_index)
  /\ temp' = <<>> /\ order' = 0 /\ popped' = 0
  /\ phase' = "write"
  /\ UNCHANGED <<closing, memory_table, table_index, merger, envVars>>

\* merge: fclose; then back to the next request, or the end.
CloseMerge ==
  /\ phase = "write"
  /\ files' = [files EXCEPT ![out.number] = out.lines]
  /\ out' = NoFile
  /\ phase' = IF closing THEN "down" ELSE "ready"
  /\ merger' = IF merger = "merges" THEN "waits" ELSE merger
  /\ UNCHANGED <<closing, ramVars, mergeVars, envVars>>

\* RESET in GET mode.
Get(k) ==
  /\ phase = "ready"
  /\ IF ReadsMissingFile(k)
     THEN phase' = "crashed" /\ UNCHANGED answer
     ELSE /\ \E v \in get_pair(k) : answer' = [key |-> k, value |-> v]
          /\ UNCHANGED phase
  /\ UNCHANGED <<closing, ramVars, files, mergeVars, out, merger, puts, starts, crashes>>

\* The program is killed: what is in memory and in stdio's buffers is lost.
Crash ==
  /\ phase \notin {"down", "crashed"}
  /\ crashes < MaxCrashes
  /\ crashes' = crashes + 1
  /\ phase' = "down"
  /\ merger' = "waits"
  /\ closing' = FALSE
  /\ memory_table' = <<>>
  /\ temp' = <<>> /\ order' = 0 /\ popped' = 0
  /\ out' = NoFile
  /\ answer' = NoAnswer
  /\ UNCHANGED <<table_index, meta_index, meta_list, files, puts, starts>>

Next ==
  \/ Start \/ Back \/ CloseFlush \/ ManualMerge
  \/ MergeRead \/ MergeWrite \/ CloseMerge \/ Crash
  \/ \E k \in Keys : put_pair(k) \/ Get(k)

Spec == Init /\ [][Next]_vars

----------------------------------------------------------------------------
(* Properties.                                                             *)

\* The value the store holds for k at any moment: a table that is being written
\* counts with what is in its buffer, the tables a merge has taken from the list
\* count with what merge has read, and they are the oldest.
TableLines(n) == IF n = out.number THEN out.lines
                 ELSE IF n \in DOMAIN files THEN files[n] ELSE <<>>
Layers == <<temp>> \o [i \in DOMAIN meta_list |-> Pairs(TableLines(meta_list[i].file))]
                   \o <<memory_table>>
Held(k) ==
  LET i == SelectLastInSeq(Layers, LAMBDA pairs : search(pairs, k) # NOT_FOUND)
  IN  IF i = 0 THEN Nothing ELSE search(Layers[i], k)

\* The value put last for k: the number of the put, or Nothing.
LastPut(k) == SelectLastInSeq(puts, LAMBDA key : key = k)

\* No step of flush or of a merge, in the background or on request, loses or
\* reorders data: at every moment the store holds the value put last.
HoldsLastPut == \A k \in Keys : Held(k) = LastPut(k)

\* Seen through put_pair and get_pair the store is the map of KvMap: get_pair returns,
\* for the key it is asked for, the value put last (store.h:47), and NOT_FOUND for a key
\* never put, through the memory table, the order of the list and the order of the lines
\* in each file.  As long as there is no table a key never put gets an undefined answer.
Map == INSTANCE KvMap WITH
         None <- Nothing,
         db <- [k \in Keys |-> LastPut(k)],
         answer <- [key |-> answer.key,
                    value |-> IF answer.value = NOT_FOUND THEN Nothing ELSE answer.value],
         stored <- meta_list # <<>>
ImplementsMap == Map!Spec

\* Between requests the list names exactly the files on disk, each once, so that
\* popleft and fopen find what the list says.
ListMatchesDisk ==
  phase = "ready" =>
    /\ {meta_list[i].file : i \in DOMAIN meta_list} = DOMAIN files
    /\ Cardinality(DOMAIN files) = Len(meta_list)

\* In one run of the program put_pair, flush and merge lose nothing, at any step, and
\* keep the list of tables in agreement with the directory.
StoreSound == HoldsLastPut /\ ListMatchesDisk

\* A table is written once: a file on disk never changes again after its fclose,
\* it is only removed.  (flush and merge open a file that did not exist.)
TablesImmutable ==
  [][\A f \in DOMAIN files \cap DOMAIN files' :
       files'[f] # files[f] => f = out.number]_vars

\* No pair is ever invented, by any order of restarts and kills: every pair in
\* memory or on disk has the key of the put its value comes from.
NoInvention ==
  LET Wrote(pair) == pair.value <= Len(puts) /\ puts[pair.value] = pair.key
  IN  /\ \A i \in DOMAIN memory_table : Wrote(memory_table[i])
      /\ \A f \in DOMAIN files : \A i \in DOMAIN files[f] : Wrote(Pairs(files[f])[i])

\* The number of tables stays at MERGE_TRIGGER or below also over restarts, so
\* that the check "storage_cnt() == 3" is never jumped over.  No table has more pairs
\* than there are keys, or than fit in the memory table, however often it was merged:
\* the array of MAX_SIZE 1000 pairs in merge is enough for 500 keys.
LongestTable == Max({Cardinality(Keys), MEMORY_TABLE_SIZE})
TablesBounded ==
  /\ storage_cnt(meta_list) <= MERGE_TRIGGER
  /\ Cardinality(DOMAIN files) <= MERGE_TRIGGER
  /\ Len(temp) <= MERGE_TABLE_SIZE * LongestTable

\* Over any number of starts and kills, flush and merge do to the list of tables what
\* TableList allows: a table is popped from the head, or goes to its place in the order
\* of the indexes, and always finds a free node, without which insert_node would drop
\* it in silence and its file would never be read.  A start makes a new list.
List == INSTANCE TableList WITH
          list <- meta_list,
          Capacity <- META_LIST_CNT,
          Tables <- [index : Nat, file : Nat]
ListIsKept ==
  [][\/ Start \/ List!PopLeft
     \/ \E i \in {order, meta_index} :
          List!Insert([index |-> i, file |-> meta_index])]_meta_list

\* A start after BACK finds every pair again when the list was in the order of
\* the file numbers: then load_storage rebuilds the same list.
NumbersInOrder ==
  \A i, j \in DOMAIN meta_list : i < j => meta_list[i].file < meta_list[j].file
OrderedRestartKeepsReads ==
  [][Start /\ closing /\ NumbersInOrder =>
       \A k \in Keys : Held(k)' = Held(k)]_vars

\* A start after BACK finds every pair again.
RestartKeepsReads ==
  [][Start /\ closing => \A k \in Keys : Held(k)' = Held(k)]_vars

=============================================================================
