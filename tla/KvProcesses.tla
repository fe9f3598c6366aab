---------------------------- MODULE KvProcesses ----------------------------
(***************************************************************************)
(* The three processes of hw1 (main.c) and what they share:                *)
(*                                                                         *)
(*   io     reads the devices and sends one message per input;             *)
(*   main   receives the messages and owns the key-value store;            *)
(*   merge  waits on shared memory for "M" (merge two tables) and "B"      *)
(*          (terminate).                                                   *)
(*                                                                         *)
(* main and merge synchronise through ONE System V semaphore set: both     *)
(* calls getsem(0) of main.c:46-47 use SEM_KEY, so merge_sem is sem_id and *)
(* P(merge_sem) and V(merge_sem) work on semaphore 0, the very one that    *)
(* read_shm waits on.                                                      *)
(*                                                                         *)
(* The data of the store is in module KvStore; here it is two counters,    *)
(* memory_index and storage_cnt.                                           *)
(***************************************************************************)
EXTENDS Integers, Sequences

CONSTANTS
  MEMORY_TABLE_SIZE,  \* pairs in the memory table before it is flushed
  MERGE_TRIGGER,      \* the number of tables that makes main ask for a merge
  META_LIST_CNT,      \* nodes that fit in the list of tables
  QueueMax,           \* messages a System V queue holds before msgsnd blocks
  MaxInputs,          \* bound: device inputs the io process reads, BACK excepted
  MotorOutlastsMain,  \* TRUE: while merge sleeps one second in run_motor, main
                      \* gets from one semaphore call to the next
  CleanupOutlastsMain \* TRUE: while merge closes its devices in cleanup_device,
                      \* main gets from v1 to the end of p2 in write_shm

ASSUME SizesAssumption ==
  /\ MEMORY_TABLE_SIZE \in Nat /\ MEMORY_TABLE_SIZE >= 2
  /\ MERGE_TRIGGER \in Nat /\ MERGE_TRIGGER >= 2
  /\ META_LIST_CNT \in Nat /\ MERGE_TRIGGER <= META_LIST_CNT
ASSUME BoundsAssumption == QueueMax \in Nat \ {0} /\ MaxInputs \in Nat
ASSUME TimingAssumption == {MotorOutlastsMain, CleanupOutlastsMain} \subseteq BOOLEAN

VARIABLES
  pc,            \* where each process is
  key,           \* the input the io process has read
  inputs,        \* number of inputs read so far (for the bound only)
  queue,         \* the message queue from io to main
  memory_index,  \* pairs in main's memory table
  storage_cnt,   \* length of the list of tables, in memory shared with merge
  quitting,      \* main is handling BACK
  data,          \* the command main passes to write_shm
  buf,           \* buf1: d_nread and d_buf, in shared memory
  message,       \* merge's local message[0]
  sem,           \* values of semaphores 0 and 1 of the one set
  undo,          \* SEM_UNDO adjustments of each process
  blocked,       \* processes asleep in semop
  owed           \* history: merges requested and not yet made

ioVars    == <<key, inputs, queue>>
storeVars == <<memory_index, storage_cnt>>
semVars   == <<sem, undo, blocked>>
vars == <<pc, key, inputs, queue, memory_index, storage_cnt, quitting, data,
          buf, message, sem, undo, blocked, owed>>

----------------------------------------------------------------------------
(* What an input means to main, which depends on the mode and on what has  *)
(* been typed (see the README): "Put" submits a pair, "Merge" is RESET in  *)
(* MERGE mode, "Back" terminates, "Edit" is every input that does not      *)
(* reach the store.                                                        *)
Event == {"Edit", "Put", "Merge", "Back"}

Proc     == {"io", "main", "merge"}
SemProc  == {"main", "merge"}
Semaphores == {0, 1}

IoLabel    == {"read_input", "send_message", "exited"}
MainLabel  == {"receive", "merge", "write", "v1", "p2", "acked", "P", "merged",
               "close", "exited"}
MergeLabel == {"p1", "v2", "copy", "run", "V", "cleanup", "exited", "crashed"}

Goto(p, label) == pc' = [pc EXCEPT ![p] = label]

----------------------------------------------------------------------------
(* System V semaphores.  A P on a zero semaphore sleeps; a V, or the       *)
(* SEM_UNDO adjustment of an exiting process, completes the P of a sleeper *)
(* in the same step (the kernel does it on the sleeper's behalf), so a     *)
(* process that calls P later cannot overtake one that already sleeps.     *)

\* The semaphore a process waits on at each P (mutant: P(merge_sem) names
\* semaphore 1), and where it goes on from.
SemOfWrongP(label) == IF label = "p1" THEN 0 ELSE 1
SemOf(label) == IF label = "p2" THEN 1 ELSE 0
AfterP(label) == IF label = "p1" THEN "v2"
                 ELSE IF label = "p2" THEN "acked" ELSE "merged"

\* semop with sem_op = -1 and SEM_UNDO.
SemP(p) ==
  LET s == SemOf(pc[p]) IN
  /\ p \notin blocked
  /\ \/ /\ sem[s] > 0
        /\ sem' = [sem EXCEPT ![s] = @ - 1]
        /\ undo' = [undo EXCEPT ![p][s] = @ + 1]
        /\ Goto(p, AfterP(pc[p]))
        /\ UNCHANGED blocked
     \/ /\ sem[s] = 0
        /\ blocked' = blocked \cup {p}
        /\ UNCHANGED <<sem, undo, pc>>

\* p leaves the semaphores with values val and undo adjustments adj and goes to
\* label; a sleeper that can now finish its P finishes it.
Settle(p, val, adj, label) ==
  LET Ready == {w \in blocked : val[SemOf(pc[w])] > 0} IN
  /\ sem' = [s \in Semaphores |->
               IF \E w \in Ready : SemOf(pc[w]) = s THEN val[s] - 1 ELSE val[s]]
  /\ undo' = [q \in SemProc |-> [s \in Semaphores |->
                IF q \in Ready /\ SemOf(pc[q]) = s THEN adj[q][s] + 1
                                                   ELSE adj[q][s]]]
  /\ pc' = [q \in Proc |-> IF q = p THEN label
                           ELSE IF q \in Ready THEN AfterP(pc[q]) ELSE pc[q]]
  /\ blocked' = blocked \ Ready

\* semop with sem_op = 1 and SEM_UNDO (mutant: without SEM_UNDO).
SemVNoUndo(p, s, label) == Settle(p, [sem EXCEPT ![s] = @ + 1], undo, label)
SemV(p, s, label) ==
  Settle(p, [sem EXCEPT ![s] = @ + 1], [undo EXCEPT ![p][s] = @ - 1], label)

\* The end of a process: its adjustments are applied, never below zero (mutant:
\* they are not applied).
SemExitNoUndo(p, label) ==
  Settle(p, sem, [undo EXCEPT ![p] = [s \in Semaphores |-> 0]], label)
SemExit(p, label) ==
  Settle(p,
         [s \in Semaphores |-> IF sem[s] + undo[p][s] > 0
                               THEN sem[s] + undo[p][s] ELSE 0],
         [undo EXCEPT ![p] = [s \in Semaphores |-> 0]],
         label)

----------------------------------------------------------------------------
(* main(): the tables a previous run left, an empty queue, both            *)
(* semaphores zero, the command buffer cleared, and three processes.       *)
Init ==
  /\ pc = [p \in Proc |-> IF p = "io" THEN "read_input"
                          ELSE IF p = "main" THEN "receive" ELSE "p1"]
  /\ key = "Edit"
  /\ inputs = 0
  /\ queue = <<>>
  /\ memory_index = 0
  /\ storage_cnt \in 0..MERGE_TRIGGER
  /\ quitting = FALSE
  /\ data = "M"
  /\ buf = [d_nread |-> 0, d_buf |-> ""]
  /\ message = ""
  /\ sem = [s \in Semaphores |-> 0]
  /\ undo = [p \in SemProc |-> [s \in Semaphores |-> 0]]
  /\ blocked = {}
  /\ owed = 0

----------------------------------------------------------------------------
(* The io process.                                                         *)

\* read_input and preprocess_io: the user does something.
IoRead(e) ==
  /\ pc["io"] = "read_input"
  /\ e = "Back" \/ inputs < MaxInputs
  /\ key' = e
  /\ inputs' = IF e = "Back" THEN inputs ELSE inputs + 1
  /\ Goto("io", "send_message")
  /\ UNCHANGED <<queue, storeVars, quitting, data, buf, message, semVars, owed>>

\* After BACK the loop ends and the process exits (mutant: it reads on).
AfterSendReadsOn(k) == "read_input"
AfterSend(k) == IF k = "Back" THEN "exited" ELSE "read_input"

\* send_message blocks while the queue is full.
IoSend ==
  /\ pc["io"] = "send_message"
  /\ Len(queue) < QueueMax
  /\ queue' = Append(queue, key)
  /\ Goto("io", AfterSend(key))
  /\ UNCHANGED <<key, inputs, storeVars, quitting, data, buf, message, semVars, owed>>

----------------------------------------------------------------------------
(* The main process.                                                       *)

\* insert_node drops the table when the list has no free node.
Inserted(cnt) == IF cnt < META_LIST_CNT THEN cnt + 1 ELSE cnt

\* flush: nothing to do for an empty memory table.
Flushed(n, cnt) == IF n = 0 THEN cnt ELSE Inserted(cnt)

\* put_pair flushes a full memory table (mutant: one pair too late).
FullLate(n) == n > MEMORY_TABLE_SIZE
Full(n) == n = MEMORY_TABLE_SIZE

\* The check "storage_cnt() == 3" that decides whether main asks for a merge
\* (mutant: one table too late).
NeedsMergeLate(cnt) == cnt = MERGE_TRIGGER + 1
NeedsMerge(cnt) == cnt = MERGE_TRIGGER

\* receive_message takes the oldest message.
Receive(e) ==
  /\ pc["main"] = "receive"
  /\ queue # <<>>
  /\ Head(queue) = e
  /\ queue' = Tail(queue)

\* An input that does not reach the store: mode changes, digits, characters, GET.
MainEdit ==
  /\ Receive("Edit")
  /\ UNCHANGED <<pc, key, inputs, storeVars, quitting, data, buf, message,
                 semVars, owed>>

\* FOUR_SIX in PUT mode: put_pair, its flush, and the request for a merge.
MainPut ==
  /\ Receive("Put")
  /\ LET n == memory_index + 1
     IN /\ memory_index' = IF Full(n) THEN 0 ELSE n
        /\ storage_cnt' = IF Full(n) THEN Flushed(n, storage_cnt) ELSE storage_cnt
  /\ IF NeedsMerge(storage_cnt')
     THEN data' = "M" /\ Goto("main", "write")
     ELSE UNCHANGED <<data, pc>>
  /\ UNCHANGED <<key, inputs, quitting, buf, message, semVars, owed>>

\* RESET in MERGE mode: main itself runs the motor and merges, given two tables.
MainMerge ==
  /\ Receive("Merge")
  /\ IF storage_cnt >= 2 THEN Goto("main", "merge") ELSE UNCHANGED pc
  /\ UNCHANGED <<key, inputs, storeVars, quitting, data, buf, message, semVars, owed>>

MainMergeDone ==
  /\ pc["main"] = "merge"
  /\ storage_cnt' = Inserted(storage_cnt - 2)
  /\ Goto("main", "receive")
  /\ UNCHANGED <<ioVars, memory_index, quitting, data, buf, message, semVars, owed>>

\* BACK: flush, then a last merge when there are too many tables, then "B".
MainBack ==
  /\ Receive("Back")
  /\ memory_index' = 0
  /\ storage_cnt' = Flushed(memory_index, storage_cnt)
  /\ quitting' = TRUE
  /\ data' = IF NeedsMerge(storage_cnt') THEN "M" ELSE "B"
  /\ Goto("main", "write")
  /\ UNCHANGED <<key, inputs, buf, message, semVars, owed>>

\* write_shm: the command goes into shared memory ...
MainWrite ==
  /\ pc["main"] = "write"
  /\ buf' = [d_nread |-> 1, d_buf |-> data]
  /\ owed' = IF data = "M" THEN owed + 1 ELSE owed
  /\ Goto("main", "v1")
  /\ UNCHANGED <<ioVars, storeVars, quitting, data, message, semVars>>

\* ... semaphore 0 tells the reader ...
MainV1 ==
  /\ pc["main"] = "v1"
  /\ SemV("main", 0, "p2")
  /\ UNCHANGED <<ioVars, storeVars, quitting, data, buf, message, owed>>

\* ... and semaphore 1 says that the reader has woken up.
MainP2 ==
  /\ pc["main"] = "p2"
  /\ SemP("main")
  /\ UNCHANGED <<ioVars, storeVars, quitting, data, buf, message, owed>>

\* What follows write_shm: P(merge_sem) after "M", the end after "B" (mutant: no
\* P(merge_sem)).
AfterWriteNoP(cmd) == IF cmd = "M" THEN "merged" ELSE "close"
AfterWrite(cmd) == IF cmd = "M" THEN "P" ELSE "close"

\* write_shm returns.
MainAcked ==
  /\ pc["main"] = "acked"
  /\ Goto("main", AfterWrite(data))
  /\ UNCHANGED <<ioVars, storeVars, quitting, data, buf, message, semVars, owed>>

\* P(merge_sem): semaphore 0 of the same set.
MainP ==
  /\ pc["main"] = "P"
  /\ SemP("main")
  /\ UNCHANGED <<ioVars, storeVars, quitting, data, buf, message, owed>>

\* The merge is over: on to "B" when terminating, else the next message.
MainMerged ==
  /\ pc["main"] = "merged"
  /\ IF quitting
     THEN data' = "B" /\ Goto("main", "write")
     ELSE UNCHANGED data /\ Goto("main", "receive")
  /\ UNCHANGED <<ioVars, storeVars, quitting, buf, message, semVars, owed>>

\* kill_led, cleanup_device and the end of the process.
MainClose ==
  /\ pc["main"] = "close"
  /\ SemExit("main", "exited")
  /\ UNCHANGED <<ioVars, storeVars, quitting, data, buf, message, owed>>

----------------------------------------------------------------------------
(* The merge process.                                                      *)

\* read_shm: wait for a command ...
MergeP1 ==
  /\ pc["merge"] = "p1"
  /\ SemP("merge")
  /\ UNCHANGED <<ioVars, storeVars, quitting, data, buf, message, owed>>

\* ... let the writer go on ...
MergeV2 ==
  /\ pc["merge"] = "v2"
  /\ SemV("merge", 1, "copy")
  /\ UNCHANGED <<ioVars, storeVars, quitting, data, buf, message, owed>>

\* The two tests of merge_process (mutant: the one for "B" is missing).
MergeJobNoExit(m) == IF m = "M" THEN "run" ELSE "p1"
MergeJob(m) == IF m = "M" THEN "run" ELSE IF m = "B" THEN "cleanup" ELSE "p1"

\* ... and copy the command, if there is one; otherwise message keeps its old
\* content.
MergeCopy ==
  /\ pc["merge"] = "copy"
  /\ message' = IF buf.d_nread > 0 THEN buf.d_buf ELSE message
  /\ buf' = [buf EXCEPT !.d_nread = 0]
  /\ Goto("merge", MergeJob(message'))
  /\ UNCHANGED <<ioVars, storeVars, quitting, data, semVars, owed>>

\* run_motor and merge: two tables become one.  With fewer than two the list
\* runs out and merge dereferences a null pointer.
MergeRun ==
  /\ pc["merge"] = "run"
  /\ MotorOutlastsMain => "main" \in blocked
  /\ owed' = owed - 1
  /\ IF storage_cnt >= 2
     THEN /\ storage_cnt' = Inserted(storage_cnt - 2)
          /\ Goto("merge", "V")
          /\ UNCHANGED semVars
     ELSE /\ storage_cnt' = 0
          /\ SemExit("merge", "crashed")
  /\ UNCHANGED <<ioVars, memory_index, quitting, data, buf, message>>

\* V(merge_sem): semaphore 0 again.
MergeV ==
  /\ pc["merge"] = "V"
  /\ SemV("merge", 0, "p1")
  /\ UNCHANGED <<ioVars, storeVars, quitting, data, buf, message, owed>>

\* "B": cleanup_device and exit.  The exit takes back the V on semaphore 1, if
\* main has not consumed it.
MergeExit ==
  /\ pc["merge"] = "cleanup"
  /\ CleanupOutlastsMain => pc["main"] # "p2"
  /\ SemExit("merge", "exited")
  /\ UNCHANGED <<ioVars, storeVars, quitting, data, buf, message, owed>>

----------------------------------------------------------------------------
Io    == (\E e \in Event : IoRead(e)) \/ IoSend
Main  == \/ MainEdit \/ MainPut \/ MainMerge \/ MainMergeDone \/ MainBack
         \/ MainWrite \/ MainV1 \/ MainP2 \/ MainAcked \/ MainP \/ MainMerged
         \/ MainClose
Merge == MergeP1 \/ MergeV2 \/ MergeCopy \/ MergeRun \/ MergeV \/ MergeExit

\* Everything has exited.
Terminated ==
  /\ \A p \in Proc : pc[p] = "exited"
  /\ UNCHANGED vars

Next == Io \/ Main \/ Merge \/ Terminated

Spec == Init /\ [][Next]_vars

\* The scheduler runs every process that can run; nothing makes the user act.
Fairness == WF_vars(IoSend) /\ WF_vars(Main) /\ WF_vars(Merge)

FairSpec == Spec /\ Fairness

----------------------------------------------------------------------------
(* Properties.                                                             *)

PcOK ==
  /\ pc \in [Proc -> IoLabel \cup MainLabel \cup MergeLabel]
  /\ pc["io"] \in IoLabel /\ pc["main"] \in MainLabel /\ pc["merge"] \in MergeLabel
InputOK ==
  /\ key \in Event
  /\ inputs \in 0..MaxInputs
  /\ queue \in Seq(Event)
StoreOK ==
  /\ memory_index \in 0..(MEMORY_TABLE_SIZE - 1)
  /\ storage_cnt \in Nat
CommandOK ==
  /\ quitting \in BOOLEAN
  /\ data \in {"M", "B"}
  /\ buf \in [d_nread : {0, 1}, d_buf : {"", "M", "B"}]
  /\ message \in {"", "M", "B"}
  /\ owed \in Int
SemOK ==
  /\ sem \in [Semaphores -> Nat]
  /\ undo \in [SemProc -> [Semaphores -> Int]]
  /\ blocked \in SUBSET SemProc
TypeOK == PcOK /\ InputOK /\ StoreOK /\ CommandOK /\ SemOK

\* While the merge process works on the list of tables (merge(), main.c:301-306),
\* main is between its request and the end of P(merge_sem): it does not touch
\* the store, and in particular does not merge on its own.
StoreExclusion ==
  pc["merge"] \in {"run", "V"} => pc["main"] \in {"p2", "acked", "P"}

\* The merge process merges once for each "M" that main wrote (main.c:172), and
\* main takes no further input before that merge is made (P(merge_sem)).
MergeOnRequest ==
  /\ owed \in {0, 1}
  /\ pc["main"] \in {"receive", "merge", "merged", "close", "exited"} => owed = 0

\* The check "storage_cnt() == 3" after every put and at BACK keeps the number of
\* tables at three or fewer, so that insert_node always finds a free node, and
\* a background merge always finds its two tables.
TablesBounded ==
  /\ storage_cnt <= MERGE_TRIGGER
  /\ pc["merge"] = "run" => storage_cnt >= 2
  /\ pc["merge"] # "crashed"

\* BACK is the last message (main.c:284): when main stops, every input that was
\* sent has been handled and the io process sends no more.
NothingAfterBack ==
  pc["main"] = "exited" => queue = <<>> /\ pc["io"] = "exited"

\* The adjustments that SEM_UNDO keeps: those of semaphore 0 cancel out, because
\* P(merge_sem) and V(merge_sem) work on it too, but p2 and v2 have no counterpart in
\* their process, so that those of semaphore 1 grow with every command.  A merge
\* needs a full memory table (one may be due at the start and two commands at BACK),
\* so that the limit of 32767, where semop fails with ERANGE and write_shm does not
\* look, is 32764 tables away.
UndoBounded ==
  /\ \A p \in SemProc : undo[p][0] \in -1..1
  /\ undo["main"][1] \in 0..((inputs \div MEMORY_TABLE_SIZE) + 3)
  /\ pc["merge"] # "exited" /\ pc["main"] # "exited" =>
       undo["main"][1] + undo["merge"][1] \in {-1, 0}

\* Once BACK has been read from the device, all three processes exit.
BackTerminates ==
  (pc["io"] = "send_message" /\ key = "Back") ~> (\A p \in Proc : pc[p] = "exited")

=============================================================================
