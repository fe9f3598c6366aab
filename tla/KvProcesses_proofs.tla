------------------------- MODULE KvProcesses_proofs -------------------------
(***************************************************************************)
(* Proofs about KvProcesses: under the assumption that main reaches        *)
(* P(merge_sem) while the merge process sleeps in run_motor, the one       *)
(* semaphore set is enough for main and merge to exclude each other, for   *)
(* every size of the tables and every length of the run.                   *)
(***************************************************************************)
EXTENDS KvFaults, TLAPS

----------------------------------------------------------------------------
(* The inductive invariant.  The properties themselves are not inductive:  *)
(* that main is asleep in P when merge calls V(merge_sem) depends on where *)
(* the tokens of both semaphores are at every point of write_shm and       *)
(* read_shm.                                                               *)

Zero(s) == sem[s] = 0

\* Where merge is, who sleeps and which tokens exist, for each place of main.
Handshake ==
  /\ pc["main"] \in {"receive", "merge", "merged", "write", "v1"} =>
       pc["merge"] = "p1" /\ blocked \subseteq {"merge"} /\ Zero(0) /\ Zero(1)
  /\ pc["main"] = "p2" =>
       \/ pc["merge"] = "p1" /\ blocked \subseteq {"main"} /\ sem[0] = 1 /\ Zero(1)
       \/ pc["merge"] = "v2" /\ blocked \subseteq {"main"} /\ Zero(0) /\ Zero(1)
       \/ pc["merge"] \in {"copy", "run", "cleanup"} /\ blocked = {}
            /\ Zero(0) /\ sem[1] = 1
       \/ pc["merge"] = "exited" /\ blocked \subseteq {"main"}
  /\ pc["main"] = "acked" =>
       /\ pc["merge"] \in {"copy", "run", "cleanup", "exited"}
       /\ blocked = {}
       /\ data = "M" => Zero(0) /\ Zero(1)
  /\ pc["main"] = "P" =>
       /\ Zero(0) /\ Zero(1)
       /\ \/ pc["merge"] \in {"copy", "run"} /\ blocked \subseteq {"main"}
          \/ pc["merge"] = "V" /\ blocked = {"main"}
  /\ pc["main"] \in {"close", "exited"} =>
       pc["merge"] \in {"copy", "cleanup", "exited"} /\ blocked = {}

\* Which command is under way.
Command ==
  /\ data = "B" => quitting
  /\ pc["main"] \in {"receive", "merge"} => ~quitting
  /\ pc["main"] \in {"P", "merged"} => data = "M"
  /\ pc["main"] \in {"close", "exited"} => data = "B"
  /\ pc["merge"] \in {"run", "V"} => data = "M"
  /\ pc["merge"] \in {"cleanup", "exited"} => data = "B"
  /\ (\/ pc["main"] = "v1"
      \/ pc["main"] = "p2" /\ pc["merge"] = "p1"
      \/ pc["merge"] \in {"v2", "copy"}) => buf.d_nread = 1 /\ buf.d_buf = data

\* A merge is owed from the write of "M" to the merge.
Requested ==
  /\ data = "M"
  /\ \/ pc["main"] = "v1"
     \/ pc["main"] \in {"p2", "acked", "P"} /\ pc["merge"] # "V"
Owed == owed = IF Requested THEN 1 ELSE 0

\* How many tables there are: MERGE_TRIGGER only before a merge, or when the
\* previous run left that many.
Tables ==
  /\ storage_cnt <= MERGE_TRIGGER
  /\ pc["main"] \in {"receive", "merge"} /\ storage_cnt = MERGE_TRIGGER =>
       memory_index = 0
  /\ pc["main"] = "merge" => storage_cnt >= 2
  /\ Requested \/ (pc["main"] = "write" /\ data = "M") => storage_cnt = MERGE_TRIGGER
  /\ pc["main"] = "merged" \/ pc["merge"] = "V" => storage_cnt < MERGE_TRIGGER

\* BACK is the last message.
Stream ==
  /\ \A i \in 1..Len(queue) :
       queue[i] = "Back" => i = Len(queue) /\ pc["io"] = "exited"
  /\ quitting => queue = <<>> /\ pc["io"] = "exited"

IInv ==
  /\ TypeOK
  /\ pc["merge"] # "crashed"
  /\ Handshake
  /\ Command
  /\ Owed
  /\ Tables
  /\ Stream

----------------------------------------------------------------------------
(* Facts about the semaphores.                                             *)

Label == IoLabel \cup MainLabel \cup MergeLabel

\* Only a process at a P can be asleep in semop (the SemP of main and merge).
LEMMA SleepersAtP ==
  ASSUME IInv
  PROVE  /\ "main" \in blocked => pc["main"] \in {"p2", "P"}
         /\ "merge" \in blocked => pc["merge"] = "p1" /\ pc["main"] # "p2"
         /\ blocked = {} \/ blocked = {"main"} \/ blocked = {"merge"}
  BY DEF IInv, TypeOK, PcOK, SemOK, Handshake, SemProc, MainLabel

\* What a V or an exit of process p does to the other process q (Settle): q
\* finishes its P if it sleeps on a semaphore that now has a token, and is left
\* alone otherwise.
LEMMA SettleOther ==
  ASSUME TypeOK,
         NEW p \in SemProc, NEW q \in SemProc, p # q,
         blocked \subseteq {q},
         NEW val \in [Semaphores -> Nat],
         NEW adj \in [SemProc -> [Semaphores -> Int]],
         NEW label \in Label,
         Settle(p, val, adj, label)
  PROVE  /\ sem' \in [Semaphores -> Nat]
         /\ undo' \in [SemProc -> [Semaphores -> Int]]
         /\ pc' \in [Proc -> Label \cup {"v2", "acked", "merged"}]
         /\ pc'[p] = label /\ pc'["io"] = pc["io"]
         /\ \/ /\ q \in blocked /\ val[SemOf(pc[q])] > 0
               /\ pc'[q] = AfterP(pc[q])
               /\ blocked' = {}
               /\ sem' = [val EXCEPT ![SemOf(pc[q])] = @ - 1]
            \/ /\ q \notin blocked \/ val[SemOf(pc[q])] = 0
               /\ pc'[q] = pc[q]
               /\ blocked' = blocked
               /\ sem' = val
<1> DEFINE Ready == {w \in blocked : val[SemOf(pc[w])] > 0}
<1>1. SemOf(pc[q]) \in Semaphores
  BY DEF SemOf, Semaphores
<1>2. Ready = {} \/ Ready = {q}
  OBVIOUS
<1>3. sem' = [s \in Semaphores |->
                IF \E w \in Ready : SemOf(pc[w]) = s THEN val[s] - 1 ELSE val[s]]
  BY DEF Settle
<1>4. undo' = [r \in SemProc |-> [s \in Semaphores |->
                 IF r \in Ready /\ SemOf(pc[r]) = s THEN adj[r][s] + 1
                                                    ELSE adj[r][s]]]
  BY DEF Settle
<1>5. pc' = [r \in Proc |-> IF r = p THEN label
                            ELSE IF r \in Ready THEN AfterP(pc[r]) ELSE pc[r]]
  BY DEF Settle
<1>6. blocked' = blocked \ Ready
  BY DEF Settle
<1>7. undo' \in [SemProc -> [Semaphores -> Int]]
  BY <1>4
<1>8. AfterP(pc[q]) \in {"v2", "acked", "merged"}
  BY DEF AfterP
<1>9. pc \in [Proc -> Label] /\ {p, q} = SemProc /\ "io" \notin SemProc
  BY DEF TypeOK, PcOK, Label, SemProc
<1>10. pc' \in [Proc -> Label \cup {"v2", "acked", "merged"}]
       /\ pc'[p] = label /\ pc'["io"] = pc["io"]
  BY <1>2, <1>5, <1>8, <1>9 DEF Proc, SemProc
<1>11. CASE Ready = {q}
  <2>1. q \in blocked /\ val[SemOf(pc[q])] > 0
    BY <1>11
  <2>2. sem' = [val EXCEPT ![SemOf(pc[q])] = @ - 1]
    BY <1>3, <1>11, <1>1
  <2>3. sem' \in [Semaphores -> Nat]
    BY <2>1, <2>2, <1>1
  <2>4. pc'[q] = AfterP(pc[q])
    BY <1>5, <1>11 DEF Proc, SemProc
  <2>5. blocked' = {}
    BY <1>6, <1>11
  <2> QED
    BY <2>1, <2>2, <2>3, <2>4, <2>5, <1>7, <1>10
<1>12. CASE Ready = {}
  <2>1. q \notin blocked \/ val[SemOf(pc[q])] = 0
    BY <1>12, <1>1
  <2>2. sem' = val
    BY <1>3, <1>12
  <2>3. pc'[q] = pc[q]
    BY <1>5, <1>12 DEF Proc, SemProc
  <2>4. blocked' = blocked
    BY <1>6, <1>12
  <2> QED
    BY <2>1, <2>2, <2>3, <2>4, <1>7, <1>10
<1> QED
  BY <1>2, <1>11, <1>12

\* semop with -1: p takes a token and goes on, or falls asleep (SemP).
LEMMA SemPFacts ==
  ASSUME TypeOK, NEW p \in SemProc, SemP(p)
  PROVE  /\ p \notin blocked
         /\ sem' \in [Semaphores -> Nat]
         /\ undo' \in [SemProc -> [Semaphores -> Int]]
         /\ pc' \in [Proc -> Label \cup {"v2", "acked", "merged"}]
         /\ \A r \in Proc \ {p} : pc'[r] = pc[r]
         /\ \/ /\ sem[SemOf(pc[p])] > 0
               /\ pc'[p] = AfterP(pc[p])
               /\ blocked' = blocked
               /\ sem' = [sem EXCEPT ![SemOf(pc[p])] = @ - 1]
            \/ /\ sem[SemOf(pc[p])] = 0
               /\ pc' = pc
               /\ blocked' = blocked \cup {p}
               /\ sem' = sem
<1>1. SemOf(pc[p]) \in Semaphores /\ AfterP(pc[p]) \in {"v2", "acked", "merged"}
  BY DEF SemOf, Semaphores, AfterP
<1>2. pc \in [Proc -> Label] /\ sem \in [Semaphores -> Nat]
      /\ undo \in [SemProc -> [Semaphores -> Int]] /\ p \in Proc
  BY DEF TypeOK, PcOK, SemOK, Label, SemProc, Proc
<1>3. CASE sem[SemOf(pc[p])] > 0
  <2>1. /\ sem' = [sem EXCEPT ![SemOf(pc[p])] = @ - 1]
        /\ undo' = [undo EXCEPT ![p][SemOf(pc[p])] = @ + 1]
        /\ pc' = [pc EXCEPT ![p] = AfterP(pc[p])]
        /\ blocked' = blocked /\ p \notin blocked
    BY <1>3 DEF SemP, Goto
  <2>2. undo' \in [SemProc -> [Semaphores -> Int]]
    BY <1>1, <1>2, <2>1
  <2> QED
    BY <1>1, <1>2, <1>3, <2>1, <2>2
<1>4. CASE sem[SemOf(pc[p])] = 0
  BY <1>1, <1>2, <1>4 DEF SemP
<1> QED
  BY <1>1, <1>2, <1>3, <1>4

----------------------------------------------------------------------------
(* Every action keeps the invariant.                                       *)

\* IoRead only changes what the io process holds.
LEMMA IoReadStep ==
  ASSUME IInv, NEW e \in Event, IoRead(e)
  PROVE  IInv'
<1> USE DEF IInv, TypeOK, IoRead, Goto, ioVars, storeVars, semVars
<1>1. PcOK' /\ pc'["merge"] # "crashed"
  BY DEF PcOK, CommandOK, Proc, IoLabel, MainLabel, MergeLabel
<1>2. InputOK'
  BY BoundsAssumption DEF InputOK, Event
<1>3. StoreOK'
  BY SizesAssumption DEF StoreOK, Tables
<1>4. CommandOK'
  BY DEF CommandOK
<1>5. SemOK'
  BY DEF SemOK
<1>6. Handshake'
  BY DEF PcOK, CommandOK, Proc, Handshake, Command, Zero, MainLabel
<1>7. Command'
  BY DEF PcOK, CommandOK, Proc, Handshake, Command, MainLabel
<1>8. Owed'
  BY DEF PcOK, Proc, Handshake, Command, Owed, Requested, MainLabel
<1>9. Tables'
  BY SizesAssumption DEF PcOK, StoreOK, Proc, Handshake, Command, Tables,
                         Requested, MainLabel
<1>10. Stream'
  BY DEF PcOK, InputOK, Proc, Stream, Command
<1> QED
  BY <1>1, <1>2, <1>3, <1>4, <1>5, <1>6, <1>7, <1>8, <1>9, <1>10

\* IoSend: BACK is appended last, and with it the io process ends.
LEMMA IoSendStep ==
  ASSUME IInv, IoSend
  PROVE  IInv'
<1> USE DEF IInv, TypeOK, IoSend, AfterSend, Goto, ioVars, storeVars, semVars
<1>1. PcOK' /\ pc'["merge"] # "crashed"
  BY DEF PcOK, CommandOK, Proc, IoLabel, MainLabel, MergeLabel
<1>2. InputOK'
  BY BoundsAssumption DEF InputOK, Event
<1>3. StoreOK'
  BY SizesAssumption DEF StoreOK, Tables
<1>4. CommandOK'
  BY DEF CommandOK
<1>5. SemOK'
  BY DEF SemOK
<1>6. Handshake'
  BY DEF PcOK, CommandOK, Proc, Handshake, Command, Zero, MainLabel
<1>7. Command'
  BY DEF PcOK, CommandOK, Proc, Handshake, Command, MainLabel
<1>8. Owed'
  BY DEF PcOK, Proc, Handshake, Command, Owed, Requested, MainLabel
<1>9. Tables'
  BY SizesAssumption DEF PcOK, StoreOK, Proc, Handshake, Command, Tables,
                         Requested, MainLabel
<1>10. Stream'
  BY DEF PcOK, InputOK, Proc, Stream, Command
<1> QED
  BY <1>1, <1>2, <1>3, <1>4, <1>5, <1>6, <1>7, <1>8, <1>9, <1>10

\* MainEdit takes a message that is not the last one.
LEMMA MainEditStep ==
  ASSUME IInv, MainEdit
  PROVE  IInv'
<1> USE DEF IInv, TypeOK, MainEdit, Receive, Goto, ioVars, storeVars, semVars
<1>1. PcOK' /\ pc'["merge"] # "crashed"
  BY DEF PcOK, CommandOK, Proc, IoLabel, MainLabel, MergeLabel
<1>2. InputOK'
  BY BoundsAssumption DEF InputOK, Event
<1>3. StoreOK'
  BY SizesAssumption DEF StoreOK, Tables
<1>4. CommandOK'
  BY DEF CommandOK
<1>5. SemOK'
  BY DEF SemOK
<1>6. Handshake'
  BY DEF PcOK, CommandOK, Proc, Handshake, Command, Zero, MainLabel
<1>7. Command'
  BY DEF PcOK, CommandOK, Proc, Handshake, Command, MainLabel
<1>8. Owed'
  BY DEF PcOK, Proc, Handshake, Command, Owed, Requested, MainLabel
<1>9. Tables'
  BY SizesAssumption DEF PcOK, StoreOK, Proc, Handshake, Command, Tables,
                         Requested, MainLabel
<1>10. Stream'
  BY DEF PcOK, InputOK, Proc, Stream, Command
<1> QED
  BY <1>1, <1>2, <1>3, <1>4, <1>5, <1>6, <1>7, <1>8, <1>9, <1>10

\* MainPut: a flush that reaches MERGE_TRIGGER leads to the request.
LEMMA MainPutStep ==
  ASSUME IInv, MainPut
  PROVE  IInv'
<1> USE DEF IInv, TypeOK, MainPut, Receive, Full, Flushed, Inserted, NeedsMerge,
            Goto, ioVars, storeVars, semVars
<1>1. PcOK' /\ pc'["merge"] # "crashed"
  BY DEF PcOK, CommandOK, Proc, IoLabel, MainLabel, MergeLabel
<1>2. InputOK'
  BY BoundsAssumption DEF InputOK, Event
<1>3. StoreOK'
  BY SizesAssumption DEF StoreOK, Tables
<1>4. CommandOK'
  BY DEF CommandOK
<1>5. SemOK'
  BY DEF SemOK
<1>6. Handshake'
  BY DEF PcOK, CommandOK, Proc, Handshake, Command, Zero, MainLabel
<1>7. Command'
  BY DEF PcOK, CommandOK, Proc, Handshake, Command, MainLabel
<1>8. Owed'
  BY DEF PcOK, Proc, Handshake, Command, Owed, Requested, MainLabel
<1>9. Tables'
  BY SizesAssumption DEF PcOK, StoreOK, Proc, Handshake, Command, Tables,
                         Requested, MainLabel
<1>10. Stream'
  BY DEF PcOK, InputOK, Proc, Stream, Command
<1> QED
  BY <1>1, <1>2, <1>3, <1>4, <1>5, <1>6, <1>7, <1>8, <1>9, <1>10

\* MainMerge starts a merge in main while merge waits in p1.
LEMMA MainMergeStep ==
  ASSUME IInv, MainMerge
  PROVE  IInv'
<1> USE DEF IInv, TypeOK, MainMerge, Receive, Goto, ioVars, storeVars, semVars
<1>1. PcOK' /\ pc'["merge"] # "crashed"
  BY DEF PcOK, CommandOK, Proc, IoLabel, MainLabel, MergeLabel
<1>2. InputOK'
  BY BoundsAssumption DEF InputOK, Event
<1>3. StoreOK'
  BY SizesAssumption DEF StoreOK, Tables
<1>4. CommandOK'
  BY DEF CommandOK
<1>5. SemOK'
  BY DEF SemOK
<1>6. Handshake'
  BY DEF PcOK, CommandOK, Proc, Handshake, Command, Zero, MainLabel
<1>7. Command'
  BY DEF PcOK, CommandOK, Proc, Handshake, Command, MainLabel
<1>8. Owed'
  BY DEF PcOK, Proc, Handshake, Command, Owed, Requested, MainLabel
<1>9. Tables'
  BY SizesAssumption DEF PcOK, StoreOK, Proc, Handshake, Command, Tables,
                         Requested, MainLabel
<1>10. Stream'
  BY DEF PcOK, InputOK, Proc, Stream, Command
<1> QED
  BY <1>1, <1>2, <1>3, <1>4, <1>5, <1>6, <1>7, <1>8, <1>9, <1>10

\* MainMergeDone leaves fewer than MERGE_TRIGGER tables.
LEMMA MainMergeDoneStep ==
  ASSUME IInv, MainMergeDone
  PROVE  IInv'
<1> USE DEF IInv, TypeOK, MainMergeDone, Inserted, Goto, ioVars, storeVars, semVars
<1>1. PcOK' /\ pc'["merge"] # "crashed"
  BY DEF PcOK, CommandOK, Proc, IoLabel, MainLabel, MergeLabel
<1>2. InputOK'
  BY BoundsAssumption DEF InputOK, Event
<1>3. StoreOK'
  BY SizesAssumption DEF StoreOK, Tables
<1>4. CommandOK'
  BY DEF CommandOK
<1>5. SemOK'
  BY DEF SemOK
<1>6. Handshake'
  BY DEF PcOK, CommandOK, Proc, Handshake, Command, Zero, MainLabel
<1>7. Command'
  BY DEF PcOK, CommandOK, Proc, Handshake, Command, MainLabel
<1>8. Owed'
  BY DEF PcOK, Proc, Handshake, Command, Owed, Requested, MainLabel
<1>9. Tables'
  BY SizesAssumption DEF PcOK, StoreOK, Proc, Handshake, Command, Tables,
                         Requested, MainLabel
<1>10. Stream'
  BY DEF PcOK, InputOK, Proc, Stream, Command
<1> QED
  BY <1>1, <1>2, <1>3, <1>4, <1>5, <1>6, <1>7, <1>8, <1>9, <1>10

\* MainBack: BACK was the last message, so the queue is empty now.
LEMMA MainBackStep ==
  ASSUME IInv, MainBack
  PROVE  IInv'
<1> USE DEF IInv, TypeOK, MainBack, Receive, Flushed, Inserted, NeedsMerge, Goto,
            ioVars, storeVars, semVars
<1>1. PcOK' /\ pc'["merge"] # "crashed"
  BY DEF PcOK, CommandOK, Proc, IoLabel, MainLabel, MergeLabel
<1>2. InputOK'
  BY BoundsAssumption DEF InputOK, Event
<1>3. StoreOK'
  BY SizesAssumption DEF StoreOK, Tables
<1>4. CommandOK'
  BY DEF CommandOK
<1>5. SemOK'
  BY DEF SemOK
<1>6. Handshake'
  BY DEF PcOK, CommandOK, Proc, Handshake, Command, Zero, MainLabel
<1>7. Command'
  BY DEF PcOK, CommandOK, Proc, Handshake, Command, MainLabel
<1>8. Owed'
  BY DEF PcOK, Proc, Handshake, Command, Owed, Requested, MainLabel
<1>9. Tables'
  BY SizesAssumption DEF PcOK, StoreOK, Proc, Handshake, Command, Tables,
                         Requested, MainLabel
<1>10. Stream'
  BY DEF PcOK, InputOK, Proc, Stream, Command
<1> QED
  BY <1>1, <1>2, <1>3, <1>4, <1>5, <1>6, <1>7, <1>8, <1>9, <1>10

\* MainWrite: from here on the merge is owed.
LEMMA MainWriteStep ==
  ASSUME IInv, MainWrite
  PROVE  IInv'
<1> USE DEF IInv, TypeOK, MainWrite, Goto, ioVars, storeVars, semVars
<1>1. PcOK' /\ pc'["merge"] # "crashed"
  BY DEF PcOK, CommandOK, Proc, IoLabel, MainLabel, MergeLabel
<1>2. InputOK'
  BY BoundsAssumption DEF InputOK, Event
<1>3. StoreOK'
  BY SizesAssumption DEF StoreOK, Tables
<1>4. CommandOK'
  <2>1. buf' \in [d_nread : {0, 1}, d_buf : {"", "M", "B"}]
    BY DEF CommandOK
  <2>2. owed \in Int /\ owed' = IF data = "M" THEN owed + 1 ELSE owed
    BY DEF CommandOK
  <2>3. owed' \in Int
    BY <2>2
  <2>4. quitting' = quitting /\ data' = data /\ message' = message
    OBVIOUS
  <2> QED
    BY <2>1, <2>3, <2>4 DEF CommandOK
<1>5. SemOK'
  BY DEF SemOK
<1>6. Handshake'
  BY DEF PcOK, CommandOK, Proc, Handshake, Command, Zero, MainLabel
<1>7. Command'
  BY DEF PcOK, CommandOK, Proc, Handshake, Command, MainLabel
<1>8. Owed'
  BY DEF PcOK, Proc, Handshake, Command, Owed, Requested, MainLabel
<1>9. Tables'
  BY SizesAssumption DEF PcOK, StoreOK, Proc, Handshake, Command, Tables,
                         Requested, MainLabel
<1>10. Stream'
  BY DEF PcOK, InputOK, Proc, Stream, Command
<1> QED
  BY <1>1, <1>2, <1>3, <1>4, <1>5, <1>6, <1>7, <1>8, <1>9, <1>10

\* MainAcked: main goes to P(merge_sem) only after "M".
LEMMA MainAckedStep ==
  ASSUME IInv, MainAcked
  PROVE  IInv'
<1> USE DEF IInv, TypeOK, MainAcked, AfterWrite, Goto, ioVars, storeVars, semVars
<1>1. PcOK' /\ pc'["merge"] # "crashed"
  BY DEF PcOK, CommandOK, Proc, IoLabel, MainLabel, MergeLabel
<1>2. InputOK'
  BY BoundsAssumption DEF InputOK, Event
<1>3. StoreOK'
  BY SizesAssumption DEF StoreOK, Tables
<1>4. CommandOK'
  BY DEF CommandOK
<1>5. SemOK'
  BY DEF SemOK
<1>6. Handshake'
  BY DEF PcOK, CommandOK, Proc, Handshake, Command, Zero, MainLabel
<1>7. Command'
  BY DEF PcOK, CommandOK, Proc, Handshake, Command, MainLabel
<1>8. Owed'
  BY DEF PcOK, Proc, Handshake, Command, Owed, Requested, MainLabel
<1>9. Tables'
  BY SizesAssumption DEF PcOK, StoreOK, Proc, Handshake, Command, Tables,
                         Requested, MainLabel
<1>10. Stream'
  BY DEF PcOK, InputOK, Proc, Stream, Command
<1> QED
  BY <1>1, <1>2, <1>3, <1>4, <1>5, <1>6, <1>7, <1>8, <1>9, <1>10

\* Only main moves when main goes on.
LEMMA MainMoves ==
  ASSUME PcOK, NEW l \in MainLabel, pc' = [pc EXCEPT !["main"] = l]
  PROVE  PcOK' /\ pc'["merge"] = pc["merge"]
<1>1. "main" \in Proc /\ "merge" \in Proc /\ "io" \in Proc
  BY DEF Proc
<1>2. pc'["main"] = l /\ pc'["io"] = pc["io"] /\ pc'["merge"] = pc["merge"]
  BY <1>1 DEF PcOK
<1>3. pc' \in [Proc -> IoLabel \cup MainLabel \cup MergeLabel]
  BY DEF PcOK
<1> QED
  BY <1>2, <1>3 DEF PcOK

\* MainMerged: back to the messages, or on to "B".
LEMMA MainMergedStep ==
  ASSUME IInv, MainMerged
  PROVE  IInv'
<1> USE DEF IInv, TypeOK, MainMerged, Goto, ioVars, storeVars, semVars
<1>1. PcOK' /\ pc'["merge"] # "crashed"
  <2>1. PICK l \in MainLabel : pc' = [pc EXCEPT !["main"] = l]
    BY DEF MainLabel
  <2>2. PcOK' /\ pc'["merge"] = pc["merge"]
    BY <2>1, MainMoves
  <2>3. pc["merge"] # "crashed"
    OBVIOUS
  <2> QED
    BY <2>2, <2>3
<1>2. InputOK'
  BY BoundsAssumption DEF InputOK, Event
<1>3. StoreOK'
  BY SizesAssumption DEF StoreOK, Tables
<1>4. CommandOK'
  BY DEF CommandOK
<1>5. SemOK'
  BY DEF SemOK
<1>6. Handshake'
  BY DEF PcOK, CommandOK, Proc, Handshake, Command, Zero, MainLabel
<1>7. Command'
  BY DEF PcOK, CommandOK, Proc, Handshake, Command, MainLabel
<1>8. Owed'
  BY DEF PcOK, Proc, Handshake, Command, Owed, Requested, MainLabel
<1>9. Tables'
  BY SizesAssumption DEF PcOK, StoreOK, Proc, Handshake, Command, Tables,
                         Requested, MainLabel
<1>10. Stream'
  BY DEF PcOK, InputOK, Proc, Stream, Command
<1> QED
  BY <1>1, <1>2, <1>3, <1>4, <1>5, <1>6, <1>7, <1>8, <1>9, <1>10

\* MergeCopy: the command merge reads is the one main has written.
LEMMA MergeCopyStep ==
  ASSUME IInv, MergeCopy
  PROVE  IInv'
<1> USE DEF IInv, TypeOK, MergeCopy, MergeJob, Goto, ioVars, storeVars, semVars
<1>1. PcOK' /\ pc'["merge"] # "crashed"
  BY DEF PcOK, CommandOK, Proc, IoLabel, MainLabel, MergeLabel
<1>2. InputOK'
  BY BoundsAssumption DEF InputOK, Event
<1>3. StoreOK'
  BY SizesAssumption DEF StoreOK, Tables
<1>4. CommandOK'
  BY DEF CommandOK
<1>5. SemOK'
  BY DEF SemOK
<1>6. message' = data
  BY DEF Command
<1>7. pc' = [pc EXCEPT !["merge"] = IF data = "M" THEN "run" ELSE "cleanup"]
  BY <1>6 DEF CommandOK
<1>8. /\ pc'["main"] = pc["main"]
      /\ pc'["merge"] = IF data = "M" THEN "run" ELSE "cleanup"
  BY <1>7 DEF PcOK, Proc
<1>9. Handshake'
  BY <1>8 DEF PcOK, CommandOK, Handshake, Command, Zero, MainLabel
<1>10. data' = data /\ quitting' = quitting /\ data \in {"M", "B"}
      /\ pc["main"] \notin {"receive", "merge", "merged", "write", "v1"}
  BY DEF CommandOK, Handshake
<1>11. Command'
  <2> USE DEF Command
  <2> HIDE DEF MergeCopy
  <2> QED
    BY <1>8, <1>10
<1>12. Owed'
  BY DEF PcOK, Proc, Handshake, Command, Owed, Requested, MainLabel
<1>13. Tables'
  BY SizesAssumption DEF PcOK, StoreOK, Proc, Handshake, Command, Tables,
                         Requested, MainLabel
<1>14. Stream'
  BY DEF PcOK, InputOK, Proc, Stream, Command
<1> QED
  BY <1>1, <1>2, <1>3, <1>4, <1>5, <1>9, <1>11, <1>12, <1>13, <1>14

\* semop with 1 when no semaphore has a token: the token goes to q if q sleeps
\* on that semaphore, and to the semaphore otherwise.
LEMMA SemVOther ==
  ASSUME TypeOK,
         NEW p \in SemProc, NEW q \in SemProc, p # q,
         blocked \subseteq {q}, sem[0] = 0, sem[1] = 0,
         NEW s \in Semaphores, NEW label \in Label,
         SemV(p, s, label)
  PROVE  /\ sem' \in [Semaphores -> Nat]
         /\ undo' \in [SemProc -> [Semaphores -> Int]]
         /\ pc' \in [Proc -> Label \cup {"v2", "acked", "merged"}]
         /\ pc'[p] = label /\ pc'["io"] = pc["io"]
         /\ \/ /\ blocked = {q} /\ SemOf(pc[q]) = s
               /\ pc'[q] = AfterP(pc[q]) /\ blocked' = {} /\ sem' = sem
            \/ /\ blocked = {} \/ SemOf(pc[q]) # s
               /\ pc'[q] = pc[q] /\ blocked' = blocked
               /\ sem' = [sem EXCEPT ![s] = 1]
<1> DEFINE val == [sem EXCEPT ![s] = @ + 1]
           adj == [undo EXCEPT ![p][s] = @ - 1]
<1>1. sem \in [Semaphores -> Nat] /\ undo \in [SemProc -> [Semaphores -> Int]]
  BY DEF TypeOK, SemOK
<1>2. \A t \in Semaphores : sem[t] = 0
  BY DEF Semaphores
<1>3. val \in [Semaphores -> Nat]
  BY <1>1
<1>4. adj \in [SemProc -> [Semaphores -> Int]]
  BY <1>1
<1>5. sem[s] = 0
  BY <1>2
<1>6. sem[s] + 1 = 1
  BY <1>5
<1>7. val = [sem EXCEPT ![s] = 1]
  BY <1>1, <1>6
<1>8. /\ val = [sem EXCEPT ![s] = 1]
      /\ \A t \in Semaphores : val[t] = IF t = s THEN 1 ELSE 0
  BY <1>1, <1>2, <1>7
<1>9. Settle(p, val, adj, label)
  BY DEF SemV
<1>10. SemOf(pc[q]) \in Semaphores
  BY DEF SemOf, Semaphores
<1>11. blocked = {} \/ blocked = {q}
  OBVIOUS
<1> HIDE DEF val, adj
<1>12. /\ sem' \in [Semaphores -> Nat]
       /\ undo' \in [SemProc -> [Semaphores -> Int]]
       /\ pc' \in [Proc -> Label \cup {"v2", "acked", "merged"}]
       /\ pc'[p] = label /\ pc'["io"] = pc["io"]
       /\ \/ /\ q \in blocked /\ val[SemOf(pc[q])] > 0
             /\ pc'[q] = AfterP(pc[q])
             /\ blocked' = {}
             /\ sem' = [val EXCEPT ![SemOf(pc[q])] = @ - 1]
          \/ /\ q \notin blocked \/ val[SemOf(pc[q])] = 0
             /\ pc'[q] = pc[q]
             /\ blocked' = blocked
             /\ sem' = val
  BY <1>3, <1>4, <1>9, SettleOther
<1>13. CASE q \in blocked /\ SemOf(pc[q]) = s
  <2>1. pc'[q] = AfterP(pc[q]) /\ blocked' = {} /\ sem' = [val EXCEPT ![s] = @ - 1]
    BY <1>8, <1>10, <1>12, <1>13
  <2>2. sem' = sem
    BY <1>1, <1>2, <1>8, <2>1
  <2> QED
    BY <1>11, <1>12, <1>13, <2>1, <2>2
<1>14. CASE ~(q \in blocked /\ SemOf(pc[q]) = s)
  <2>1. pc'[q] = pc[q] /\ blocked' = blocked /\ sem' = val
    BY <1>8, <1>10, <1>12, <1>14
  <2> QED
    BY <1>8, <1>11, <1>12, <1>14, <2>1
<1> QED
  BY <1>13, <1>14

\* MainV1: the token wakes merge, or waits for it on semaphore 0.
LEMMA MainV1Step ==
  ASSUME IInv, MainV1
  PROVE  IInv'
<1>1. /\ sem' \in [Semaphores -> Nat]
      /\ undo' \in [SemProc -> [Semaphores -> Int]]
      /\ pc' \in [Proc -> Label \cup {"v2", "acked", "merged"}]
      /\ pc'["io"] = pc["io"]
      /\ pc["main"] = "v1" /\ pc'["main"] = "p2" /\ pc["merge"] = "p1"
      /\ \/ blocked = {"merge"} /\ blocked' = {} /\ pc'["merge"] = "v2"
            /\ sem'[0] = 0 /\ sem'[1] = 0
         \/ blocked = {} /\ blocked' = {} /\ pc'["merge"] = "p1"
            /\ sem'[0] = 1 /\ sem'[1] = 0
  <2>1. blocked \subseteq {"merge"} /\ pc["main"] = "v1" /\ pc["merge"] = "p1"
        /\ sem[0] = 0 /\ sem[1] = 0
    BY DEF IInv, Handshake, MainV1, Zero, TypeOK, PcOK, MainLabel
  <2>2. TypeOK /\ SemV("main", 0, "p2")
    BY DEF MainV1, Zero, IInv
  <2>3. "main" \in SemProc /\ "merge" \in SemProc /\ 0 \in Semaphores
        /\ "p2" \in Label /\ "main" # "merge"
    BY DEF SemProc, Semaphores, Label, MainLabel, MergeLabel
  <2>4. sem \in [Semaphores -> Nat]
    BY <2>2 DEF TypeOK, SemOK
  <2> QED
    BY <2>1, <2>2, <2>3, <2>4, SemVOther DEF SemOf, AfterP, Semaphores
<1>2. InputOK' /\ StoreOK' /\ CommandOK'
  BY DEF MainV1, InputOK, StoreOK, CommandOK, ioVars, storeVars, IInv, TypeOK
<1>3. PcOK' /\ pc'["merge"] # "crashed"
  BY <1>1 DEF PcOK, Proc, Label, IoLabel, MainLabel, MergeLabel, IInv, TypeOK
<1>4. SemOK'
  BY <1>1 DEF SemOK, SemProc
<1>5. Handshake'
  BY <1>1 DEF MainV1, Handshake, Command, Zero, IInv, TypeOK, PcOK, MainLabel
<1>6. Command'
  BY <1>1 DEF MainV1, Handshake, Command, Zero, IInv, TypeOK, PcOK, MainLabel
<1>7. Owed'
  BY <1>1 DEF MainV1, Handshake, Command, Owed, Requested, Zero, IInv
<1>8. Tables'
  BY <1>1 DEF MainV1, Handshake, Command, Tables, Requested, Zero, storeVars, IInv
<1>9. Stream'
  BY <1>1 DEF MainV1, Stream, ioVars, IInv
<1> QED
  BY <1>2, <1>3, <1>4, <1>5, <1>6, <1>7, <1>8, <1>9 DEF IInv, TypeOK

\* MergeV2: the token wakes main in p2, or waits for it on semaphore 1.
LEMMA MergeV2Step ==
  ASSUME IInv, MergeV2
  PROVE  IInv'
<1>1. /\ sem' \in [Semaphores -> Nat]
      /\ undo' \in [SemProc -> [Semaphores -> Int]]
      /\ pc' \in [Proc -> Label \cup {"v2", "acked", "merged"}]
      /\ pc'["io"] = pc["io"]
      /\ pc["merge"] = "v2" /\ pc'["merge"] = "copy" /\ pc["main"] = "p2"
      /\ \/ blocked = {"main"} /\ blocked' = {} /\ pc'["main"] = "acked"
            /\ sem'[0] = 0 /\ sem'[1] = 0
         \/ blocked = {} /\ blocked' = {} /\ pc'["main"] = "p2"
            /\ sem'[0] = 0 /\ sem'[1] = 1
  <2>1. blocked \subseteq {"main"} /\ pc["merge"] = "v2" /\ pc["main"] = "p2"
        /\ sem[0] = 0 /\ sem[1] = 0
    BY DEF IInv, Handshake, MergeV2, Zero, TypeOK, PcOK, MainLabel
  <2>2. TypeOK /\ SemV("merge", 1, "copy")
    BY DEF MergeV2, Zero, IInv
  <2>3. "merge" \in SemProc /\ "main" \in SemProc /\ 1 \in Semaphores
        /\ "copy" \in Label /\ "merge" # "main"
    BY DEF SemProc, Semaphores, Label, MainLabel, MergeLabel
  <2>4. sem \in [Semaphores -> Nat]
    BY <2>2 DEF TypeOK, SemOK
  <2> QED
    BY <2>1, <2>2, <2>3, <2>4, SemVOther DEF SemOf, AfterP, Semaphores
<1>2. InputOK' /\ StoreOK' /\ CommandOK'
  BY DEF MergeV2, InputOK, StoreOK, CommandOK, ioVars, storeVars, IInv, TypeOK
<1>3. PcOK' /\ pc'["merge"] # "crashed"
  BY <1>1 DEF PcOK, Proc, Label, IoLabel, MainLabel, MergeLabel, IInv, TypeOK
<1>4. SemOK'
  BY <1>1 DEF SemOK, SemProc
<1>5. Handshake'
  BY <1>1 DEF MergeV2, Handshake, Command, Zero, IInv, TypeOK, PcOK, MainLabel
<1>6. Command'
  BY <1>1 DEF MergeV2, Handshake, Command, Zero, IInv, TypeOK, PcOK, MainLabel
<1>7. Owed'
  BY <1>1 DEF MergeV2, Handshake, Command, Owed, Requested, Zero, IInv
<1>8. Tables'
  BY <1>1 DEF MergeV2, Handshake, Command, Tables, Requested, Zero, storeVars, IInv
<1>9. Stream'
  BY <1>1 DEF MergeV2, Stream, ioVars, IInv
<1> QED
  BY <1>2, <1>3, <1>4, <1>5, <1>6, <1>7, <1>8, <1>9 DEF IInv, TypeOK

\* MergeV: main sleeps in P(merge_sem), so the token cannot go to read_shm.
LEMMA MergeVStep ==
  ASSUME IInv, MergeV
  PROVE  IInv'
<1>1. /\ sem' \in [Semaphores -> Nat]
      /\ undo' \in [SemProc -> [Semaphores -> Int]]
      /\ pc' \in [Proc -> Label \cup {"v2", "acked", "merged"}]
      /\ pc'["io"] = pc["io"]
      /\ pc["merge"] = "V" /\ pc'["merge"] = "p1"
      /\ pc["main"] = "P" /\ pc'["main"] = "merged"
      /\ blocked' = {} /\ sem'[0] = 0 /\ sem'[1] = 0
  <2>1. blocked \subseteq {"main"} /\ pc["merge"] = "V"
        /\ pc["main"] = "P" /\ "main" \in blocked
        /\ sem[0] = 0 /\ sem[1] = 0
    BY DEF IInv, Handshake, MergeV, Zero, TypeOK, PcOK, MainLabel
  <2>2. TypeOK /\ SemV("merge", 0, "p1")
    BY DEF MergeV, Zero, IInv
  <2>3. "merge" \in SemProc /\ "main" \in SemProc /\ 0 \in Semaphores
        /\ "p1" \in Label /\ "merge" # "main"
    BY DEF SemProc, Semaphores, Label, MainLabel, MergeLabel
  <2>4. sem \in [Semaphores -> Nat]
    BY <2>2 DEF TypeOK, SemOK
  <2> QED
    BY <2>1, <2>2, <2>3, <2>4, SemVOther DEF SemOf, AfterP, Semaphores
<1>2. InputOK' /\ StoreOK' /\ CommandOK'
  BY DEF MergeV, InputOK, StoreOK, CommandOK, ioVars, storeVars, IInv, TypeOK
<1>3. PcOK' /\ pc'["merge"] # "crashed"
  BY <1>1 DEF PcOK, Proc, Label, IoLabel, MainLabel, MergeLabel, IInv, TypeOK
<1>4. SemOK'
  BY <1>1 DEF SemOK, SemProc
<1>5. Handshake'
  BY <1>1 DEF MergeV, Handshake, Command, Zero, IInv, TypeOK, PcOK, MainLabel
<1>6. Command'
  BY <1>1 DEF MergeV, Handshake, Command, Zero, IInv, TypeOK, PcOK, MainLabel
<1>7. Owed'
  BY <1>1 DEF MergeV, Handshake, Command, Owed, Requested, Zero, IInv
<1>8. Tables'
  BY <1>1 DEF MergeV, Handshake, Command, Tables, Requested, Zero, storeVars, IInv
<1>9. Stream'
  BY <1>1 DEF MergeV, Stream, ioVars, IInv
<1> QED
  BY <1>2, <1>3, <1>4, <1>5, <1>6, <1>7, <1>8, <1>9 DEF IInv, TypeOK

\* MainP2: there is a token only after MergeV2.
LEMMA MainP2Step ==
  ASSUME IInv, MainP2
  PROVE  IInv'
<1>1. /\ sem' \in [Semaphores -> Nat]
      /\ undo' \in [SemProc -> [Semaphores -> Int]]
      /\ pc' \in [Proc -> Label \cup {"v2", "acked", "merged"}]
      /\ pc'["io"] = pc["io"]
      /\ pc["main"] = "p2" /\ pc'["merge"] = pc["merge"] /\ "main" \notin blocked
      /\ blocked = {} \/ blocked = {"merge"}
      /\ \/ sem[1] > 0 /\ blocked' = blocked /\ pc'["main"] = "acked"
            /\ sem'[1] = sem[1] - 1 /\ sem'[0] = sem[0]
         \/ sem[1] = 0 /\ blocked' = blocked \cup {"main"} /\ pc'["main"] = "p2"
            /\ sem' = sem
  <2>1. SemP("main") /\ pc["main"] = "p2" /\ TypeOK
    BY DEF MainP2, IInv
  <2>2. blocked \in SUBSET SemProc /\ sem \in [Semaphores -> Nat]
    BY <2>1 DEF TypeOK, SemOK
  <2>3. "main" \in SemProc
    BY DEF SemProc
  <2> QED
    BY <2>1, <2>2, <2>3, SemPFacts, SleepersAtP DEF SemOf, AfterP, Semaphores,
                                                    Proc, SemProc
<1>2. InputOK' /\ StoreOK' /\ CommandOK'
  BY DEF MainP2, InputOK, StoreOK, CommandOK, ioVars, storeVars, IInv, TypeOK
<1>3. PcOK' /\ pc'["merge"] # "crashed"
  BY <1>1 DEF PcOK, Proc, Label, IoLabel, MainLabel, MergeLabel, IInv, TypeOK
<1>4. SemOK'
  BY <1>1 DEF SemOK, SemProc
<1>5. Handshake'
  BY <1>1 DEF MainP2, Handshake, Command, Zero, IInv, TypeOK, PcOK, MainLabel
<1>6. Command'
  BY <1>1 DEF MainP2, Handshake, Command, Zero, IInv, TypeOK, PcOK, MainLabel
<1>7. Owed'
  BY <1>1 DEF MainP2, Handshake, Command, Owed, Requested, Zero, IInv
<1>8. Tables'
  BY <1>1 DEF MainP2, Handshake, Command, Tables, Requested, Zero, storeVars, IInv
<1>9. Stream'
  BY <1>1 DEF MainP2, Stream, ioVars, IInv
<1> QED
  BY <1>2, <1>3, <1>4, <1>5, <1>6, <1>7, <1>8, <1>9 DEF IInv, TypeOK

\* MainP: there is no token yet, so main falls asleep.
LEMMA MainPStep ==
  ASSUME IInv, MainP
  PROVE  IInv'
<1>1. /\ sem' \in [Semaphores -> Nat]
      /\ undo' \in [SemProc -> [Semaphores -> Int]]
      /\ pc' \in [Proc -> Label \cup {"v2", "acked", "merged"}]
      /\ pc'["io"] = pc["io"]
      /\ pc["main"] = "P" /\ pc'["merge"] = pc["merge"] /\ "main" \notin blocked
      /\ blocked = {} \/ blocked = {"merge"}
      /\ \/ sem[0] > 0 /\ blocked' = blocked /\ pc'["main"] = "merged"
            /\ sem'[0] = sem[0] - 1 /\ sem'[1] = sem[1]
         \/ sem[0] = 0 /\ blocked' = blocked \cup {"main"} /\ pc'["main"] = "P"
            /\ sem' = sem
  <2>1. SemP("main") /\ pc["main"] = "P" /\ TypeOK
    BY DEF MainP, IInv
  <2>2. blocked \in SUBSET SemProc /\ sem \in [Semaphores -> Nat]
    BY <2>1 DEF TypeOK, SemOK
  <2>3. "main" \in SemProc
    BY DEF SemProc
  <2> QED
    BY <2>1, <2>2, <2>3, SemPFacts, SleepersAtP DEF SemOf, AfterP, Semaphores,
                                                    Proc, SemProc
<1>2. InputOK' /\ StoreOK' /\ CommandOK'
  BY DEF MainP, InputOK, StoreOK, CommandOK, ioVars, storeVars, IInv, TypeOK
<1>3. PcOK' /\ pc'["merge"] # "crashed"
  BY <1>1 DEF PcOK, Proc, Label, IoLabel, MainLabel, MergeLabel, IInv, TypeOK
<1>4. SemOK'
  BY <1>1 DEF SemOK, SemProc
<1>5. Handshake'
  BY <1>1 DEF MainP, Handshake, Command, Zero, IInv, TypeOK, PcOK, MainLabel
<1>6. Command'
  BY <1>1 DEF MainP, Handshake, Command, Zero, IInv, TypeOK, PcOK, MainLabel
<1>7. Owed'
  BY <1>1 DEF MainP, Handshake, Command, Owed, Requested, Zero, IInv
<1>8. Tables'
  BY <1>1 DEF MainP, Handshake, Command, Tables, Requested, Zero, storeVars, IInv
<1>9. Stream'
  BY <1>1 DEF MainP, Stream, ioVars, IInv
<1> QED
  BY <1>2, <1>3, <1>4, <1>5, <1>6, <1>7, <1>8, <1>9 DEF IInv, TypeOK

\* MergeP1: there is a token only after MainV1.
LEMMA MergeP1Step ==
  ASSUME IInv, MergeP1
  PROVE  IInv'
<1>1. /\ sem' \in [Semaphores -> Nat]
      /\ undo' \in [SemProc -> [Semaphores -> Int]]
      /\ pc' \in [Proc -> Label \cup {"v2", "acked", "merged"}]
      /\ pc'["io"] = pc["io"]
      /\ pc["merge"] = "p1" /\ pc'["main"] = pc["main"] /\ "merge" \notin blocked
      /\ blocked = {} \/ blocked = {"main"}
      /\ \/ sem[0] > 0 /\ blocked' = blocked /\ pc'["merge"] = "v2"
            /\ sem'[0] = sem[0] - 1 /\ sem'[1] = sem[1]
         \/ sem[0] = 0 /\ blocked' = blocked \cup {"merge"} /\ pc'["merge"] = "p1"
            /\ sem' = sem
  <2>1. SemP("merge") /\ pc["merge"] = "p1" /\ TypeOK
    BY DEF MergeP1, IInv
  <2>2. blocked \in SUBSET SemProc /\ sem \in [Semaphores -> Nat]
    BY <2>1 DEF TypeOK, SemOK
  <2>3. "merge" \in SemProc
    BY DEF SemProc
  <2> QED
    BY <2>1, <2>2, <2>3, SemPFacts, SleepersAtP DEF SemOf, AfterP, Semaphores,
                                                    Proc, SemProc
<1>2. InputOK' /\ StoreOK' /\ CommandOK'
  BY DEF MergeP1, InputOK, StoreOK, CommandOK, ioVars, storeVars, IInv, TypeOK
<1>3. PcOK' /\ pc'["merge"] # "crashed"
  BY <1>1 DEF PcOK, Proc, Label, IoLabel, MainLabel, MergeLabel, IInv, TypeOK
<1>4. SemOK'
  BY <1>1 DEF SemOK, SemProc
<1>5. Handshake'
  BY <1>1 DEF MergeP1, Handshake, Command, Zero, IInv, TypeOK, PcOK, MainLabel
<1>6. Command'
  BY <1>1 DEF MergeP1, Handshake, Command, Zero, IInv, TypeOK, PcOK, MainLabel
<1>7. Owed'
  BY <1>1 DEF MergeP1, Handshake, Command, Owed, Requested, Zero, IInv
<1>8. Tables'
  BY <1>1 DEF MergeP1, Handshake, Command, Tables, Requested, Zero, storeVars, IInv
<1>9. Stream'
  BY <1>1 DEF MergeP1, Stream, ioVars, IInv
<1> QED
  BY <1>2, <1>3, <1>4, <1>5, <1>6, <1>7, <1>8, <1>9 DEF IInv, TypeOK

\* MainClose: nobody sleeps when main ends.
LEMMA MainCloseStep ==
  ASSUME IInv, MainClose
  PROVE  IInv'
<1>1. /\ sem' \in [Semaphores -> Nat]
      /\ undo' \in [SemProc -> [Semaphores -> Int]]
      /\ pc' \in [Proc -> Label \cup {"v2", "acked", "merged"}]
      /\ pc'["io"] = pc["io"]
      /\ pc["main"] = "close" /\ pc'["main"] = "exited" /\ pc'["merge"] = pc["merge"]
      /\ blocked = {} /\ blocked' = {}
  <2> DEFINE val == [s \in Semaphores |-> IF sem[s] + undo["main"][s] > 0
                                         THEN sem[s] + undo["main"][s] ELSE 0]
             adj == [undo EXCEPT !["main"] = [s \in Semaphores |-> 0]]
  <2>1. val \in [Semaphores -> Nat] /\ adj \in [SemProc -> [Semaphores -> Int]]
    BY DEF IInv, TypeOK, SemOK, SemProc
  <2>2. blocked = {} /\ pc["main"] = "close" 
    BY DEF IInv, Handshake, Command, MainClose, TypeOK, PcOK, MainLabel
  <2>3. Settle("main", val, adj, "exited")
    BY DEF MainClose, SemExit
  <2>4. "main" \in SemProc /\ "merge" \in SemProc /\ "exited" \in Label
    BY DEF SemProc, Label, MainLabel
  <2> HIDE DEF val, adj
  <2> QED
    BY <2>1, <2>2, <2>3, <2>4, SettleOther DEF IInv
<1>2. InputOK' /\ StoreOK' /\ CommandOK'
  BY DEF MainClose, InputOK, StoreOK, CommandOK, ioVars, storeVars, IInv, TypeOK
<1>3. PcOK' /\ pc'["merge"] # "crashed"
  BY <1>1 DEF PcOK, Proc, Label, IoLabel, MainLabel, MergeLabel, IInv, TypeOK
<1>4. SemOK'
  BY <1>1 DEF SemOK, SemProc
<1>5. Handshake'
  BY <1>1 DEF MainClose, Handshake, Command, Zero, IInv, TypeOK, PcOK, MainLabel
<1>6. Command'
  BY <1>1 DEF MainClose, Handshake, Command, Zero, IInv, TypeOK, PcOK, MainLabel
<1>7. Owed'
  BY <1>1 DEF MainClose, Handshake, Command, Owed, Requested, Zero, IInv
<1>8. Tables'
  BY <1>1 DEF MainClose, Handshake, Command, Tables, Requested, Zero, storeVars,
              IInv
<1>9. Stream'
  BY <1>1 DEF MainClose, Stream, ioVars, IInv
<1> QED
  BY <1>2, <1>3, <1>4, <1>5, <1>6, <1>7, <1>8, <1>9 DEF IInv, TypeOK

\* MergeExit: nobody sleeps when merge ends; main waits at most in p2, after "B".
LEMMA MergeExitStep ==
  ASSUME IInv, MergeExit
  PROVE  IInv'
<1>1. /\ sem' \in [Semaphores -> Nat]
      /\ undo' \in [SemProc -> [Semaphores -> Int]]
      /\ pc' \in [Proc -> Label \cup {"v2", "acked", "merged"}]
      /\ pc'["io"] = pc["io"]
      /\ pc["merge"] = "cleanup" /\ pc'["merge"] = "exited" /\ pc'["main"] = pc["main"]
      /\ pc["main"] \in {"p2", "acked", "close", "exited"}
      /\ blocked = {} /\ blocked' = {}
  <2> DEFINE val == [s \in Semaphores |-> IF sem[s] + undo["merge"][s] > 0
                                         THEN sem[s] + undo["merge"][s] ELSE 0]
             adj == [undo EXCEPT !["merge"] = [s \in Semaphores |-> 0]]
  <2>1. val \in [Semaphores -> Nat] /\ adj \in [SemProc -> [Semaphores -> Int]]
    BY DEF IInv, TypeOK, SemOK, SemProc
  <2>2. blocked = {} /\ pc["merge"] = "cleanup"
        /\ pc["main"] \in {"p2", "acked", "close", "exited"}
    BY DEF IInv, Handshake, Command, MergeExit, TypeOK, PcOK, MainLabel
  <2>3. Settle("merge", val, adj, "exited")
    BY DEF MergeExit, SemExit
  <2>4. "merge" \in SemProc /\ "main" \in SemProc /\ "exited" \in Label
    BY DEF SemProc, Label, MainLabel
  <2> HIDE DEF val, adj
  <2> QED
    BY <2>1, <2>2, <2>3, <2>4, SettleOther DEF IInv
<1>2. InputOK' /\ StoreOK' /\ CommandOK'
  BY DEF MergeExit, InputOK, StoreOK, CommandOK, ioVars, storeVars, IInv, TypeOK
<1>3. PcOK' /\ pc'["merge"] # "crashed"
  BY <1>1 DEF PcOK, Proc, Label, IoLabel, MainLabel, MergeLabel, IInv, TypeOK
<1>4. SemOK'
  BY <1>1 DEF SemOK, SemProc
<1>5. Handshake'
  BY <1>1 DEF MergeExit, Handshake, Command, Zero, IInv, TypeOK, PcOK, MainLabel
<1>6. Command'
  BY <1>1 DEF MergeExit, Handshake, Command, Zero, IInv, TypeOK, PcOK, MainLabel
<1>7. Owed'
  BY <1>1 DEF MergeExit, Handshake, Command, Owed, Requested, Zero, IInv
<1>8. Tables'
  BY <1>1 DEF MergeExit, Handshake, Command, Tables, Requested, Zero, storeVars,
              IInv
<1>9. Stream'
  BY <1>1 DEF MergeExit, Stream, ioVars, IInv
<1> QED
  BY <1>2, <1>3, <1>4, <1>5, <1>6, <1>7, <1>8, <1>9 DEF IInv, TypeOK

\* MergeRun: main sleeps in P(merge_sem) and there are MERGE_TRIGGER tables.
LEMMA MergeRunStep ==
  ASSUME IInv, MergeRun, MotorOutlastsMain
  PROVE  IInv'
<1>1. pc["merge"] = "run" /\ "main" \in blocked /\ pc["main"] = "P"
  BY SleepersAtP DEF MergeRun, IInv, Handshake
<1>2. data = "M" /\ Requested /\ storage_cnt = MERGE_TRIGGER /\ owed = 1
  BY <1>1 DEF IInv, Command, Requested, Tables, Owed
<1>3. /\ storage_cnt' = Inserted(storage_cnt - 2)
      /\ Goto("merge", "V")
      /\ UNCHANGED semVars
      /\ owed' = 0
  BY <1>2, SizesAssumption DEF MergeRun
<1>4. storage_cnt' = MERGE_TRIGGER - 1
  BY <1>2, <1>3, SizesAssumption DEF Inserted
<1>5. pc'["io"] = pc["io"] /\ pc'["main"] = "P" /\ pc'["merge"] = "V"
      /\ pc' \in [Proc -> IoLabel \cup MainLabel \cup MergeLabel]
  BY <1>1, <1>3 DEF Goto, IInv, TypeOK, PcOK, Proc, MergeLabel
<1>6. PcOK' /\ pc'["merge"] # "crashed"
  BY <1>5 DEF PcOK, IInv, TypeOK, MainLabel, MergeLabel
<1>7. InputOK' /\ StoreOK' /\ CommandOK' /\ SemOK'
  <2>1. InputOK' /\ SemOK'
    BY <1>3 DEF MergeRun, InputOK, SemOK, ioVars, semVars, IInv, TypeOK
  <2>2. StoreOK'
    BY <1>4, SizesAssumption DEF MergeRun, StoreOK, IInv, TypeOK
  <2>3. CommandOK /\ UNCHANGED <<quitting, data, buf, message>> /\ owed' \in Int
    BY <1>3 DEF MergeRun, IInv, TypeOK
  <2>4. CommandOK'
    BY <2>3 DEF CommandOK
  <2> QED
    BY <2>1, <2>2, <2>4
<1>8. Handshake'
  BY <1>1, <1>3, <1>5, SleepersAtP DEF Handshake, Zero, semVars, IInv
<1>9. Command' /\ Owed'
  BY <1>1, <1>2, <1>3, <1>5 DEF MergeRun, Command, Owed, Requested, IInv
<1>10. Tables'
  BY <1>2, <1>4, <1>5, SizesAssumption DEF MergeRun, Tables, Requested, IInv
<1>11. Stream'
  BY <1>5 DEF MergeRun, Stream, ioVars, IInv
<1> QED
  BY <1>6, <1>7, <1>8, <1>9, <1>10, <1>11 DEF IInv, TypeOK

----------------------------------------------------------------------------
(* The theorems.                                                           *)

\* The initial states (main() before the forks) satisfy the invariant.
LEMMA InitIInv == Init => IInv
<1> SUFFICES ASSUME Init PROVE IInv
  OBVIOUS
<1>1. PcOK /\ pc["io"] = "read_input" /\ pc["main"] = "receive" /\ pc["merge"] = "p1"
  BY DEF Init, PcOK, Proc, IoLabel, MainLabel, MergeLabel
<1>2. InputOK /\ StoreOK
  <2>1. key = "Edit" /\ inputs = 0 /\ queue = <<>>
        /\ memory_index = 0 /\ storage_cnt \in 0..MERGE_TRIGGER
    BY DEF Init
  <2> QED
    BY <2>1, BoundsAssumption, SizesAssumption DEF InputOK, StoreOK, Event
<1>3. CommandOK
  <2>1. data = "M" /\ message = ""
    BY DEF Init
  <2>2. quitting = FALSE
    BY DEF Init
  <2>3. buf = [d_nread |-> 0, d_buf |-> ""]
    BY DEF Init
  <2>4. buf \in [d_nread : {0, 1}, d_buf : {"", "M", "B"}]
    BY <2>3
  <2>5. owed = 0
    BY DEF Init
  <2>6. owed \in Int
    BY <2>5
  <2> QED
    BY <2>1, <2>2, <2>4, <2>6 DEF CommandOK
<1>4. SemOK /\ Zero(0) /\ Zero(1)
  <2>1. /\ sem = [s \in Semaphores |-> 0] /\ blocked = {}
        /\ undo = [p \in SemProc |-> [s \in Semaphores |-> 0]]
    BY DEF Init
  <2> QED
    BY <2>1 DEF SemOK, Zero, Semaphores
<1>5. Handshake /\ Command /\ Owed
  BY <1>1, <1>4 DEF Init, Handshake, Command, Owed, Requested
<1>6. Tables /\ Stream
  <2>1. memory_index = 0 /\ storage_cnt \in 0..MERGE_TRIGGER /\ queue = <<>> /\ ~quitting
    BY DEF Init
  <2> QED
    BY <1>1, <2>1, SizesAssumption DEF Tables, Requested, Stream
<1> QED
  BY <1>1, <1>2, <1>3, <1>4, <1>5, <1>6 DEF IInv, TypeOK

\* A step that changes nothing keeps the invariant.
LEMMA StutterStep ==
  ASSUME IInv, UNCHANGED vars
  PROVE  IInv'
<1> USE DEF vars
<1>1. TypeOK'
  BY DEF IInv, TypeOK, PcOK, InputOK, StoreOK, CommandOK, SemOK
<1>2. Handshake' /\ Command' /\ pc'["merge"] # "crashed"
  BY DEF IInv, Handshake, Zero, Command
<1>3. Owed' /\ Tables' /\ Stream'
  BY DEF IInv, Owed, Requested, Tables, Stream
<1> QED
  BY <1>1, <1>2, <1>3 DEF IInv

\* Every step of the three processes keeps the invariant.
LEMMA NextIInv ==
  ASSUME MotorOutlastsMain, IInv, [Next]_vars
  PROVE  IInv'
<1>1. CASE Io
  BY <1>1, IoReadStep, IoSendStep DEF Io
<1>2. CASE Main
  BY <1>2, MainEditStep, MainPutStep, MainMergeStep, MainMergeDoneStep,
     MainBackStep, MainWriteStep, MainV1Step, MainP2Step, MainAckedStep,
     MainPStep, MainMergedStep, MainCloseStep DEF Main
<1>3. CASE Merge
  BY <1>3, MergeP1Step, MergeV2Step, MergeCopyStep, MergeRunStep, MergeVStep,
     MergeExitStep DEF Merge
<1>4. CASE Terminated \/ UNCHANGED vars
  BY <1>4, StutterStep DEF Terminated
<1> QED
  BY <1>1, <1>2, <1>3, <1>4 DEF Next

\* The invariant holds in every state of every run.
LEMMA AlwaysIInv ==
  ASSUME MotorOutlastsMain
  PROVE  Spec => []IInv
<1>1. IInv /\ [Next]_vars => IInv'
  BY NextIInv
<1> QED
  BY <1>1, InitIInv, PTL DEF Spec

\* Every variable of main.c and shmem.c the model keeps stays in its type.
THEOREM TypeCorrect ==
  ASSUME MotorOutlastsMain
  PROVE  Spec => []TypeOK
<1>1. IInv => TypeOK
  BY DEF IInv
<1> QED
  BY <1>1, AlwaysIInv, PTL

\* main leaves the list of tables alone while the merge process works on it
\* (merge() in merge_process).
THEOREM StoreExcluded ==
  ASSUME MotorOutlastsMain
  PROVE  Spec => []StoreExclusion
<1>1. IInv => StoreExclusion
  BY DEF IInv, TypeOK, PcOK, MainLabel, Handshake, StoreExclusion
<1> QED
  BY <1>1, AlwaysIInv, PTL

\* One merge for each "M", made before main takes its next input (write_shm and
\* P(merge_sem) in main_process).
THEOREM MergedOnRequest ==
  ASSUME MotorOutlastsMain
  PROVE  Spec => []MergeOnRequest
<1>1. IInv => MergeOnRequest
  BY DEF IInv, Owed, Requested, MergeOnRequest
<1> QED
  BY <1>1, AlwaysIInv, PTL

\* The check "storage_cnt() == 3" is never jumped over, and a background merge
\* always finds two tables.
THEOREM TablesStayBounded ==
  ASSUME MotorOutlastsMain
  PROVE  Spec => []TablesBounded
<1>1. ASSUME IInv, pc["merge"] = "run"
      PROVE  storage_cnt >= 2
  <2>1. data = "M" /\ pc["main"] \in {"p2", "acked", "P"}
    BY <1>1 DEF IInv, TypeOK, PcOK, MainLabel, Handshake, Command
  <2>2. storage_cnt = MERGE_TRIGGER
    BY <1>1, <2>1 DEF IInv, Tables, Requested
  <2> QED
    BY <2>2, SizesAssumption
<1>2. IInv => TablesBounded
  BY <1>1 DEF IInv, Tables, TablesBounded
<1> QED
  BY <1>2, AlwaysIInv, PTL

\* BACK is the last message: when main has stopped, every message was handled.
THEOREM BackIsLast ==
  ASSUME MotorOutlastsMain
  PROVE  Spec => []NothingAfterBack
<1>1. IInv => NothingAfterBack
  BY DEF IInv, Command, Stream, NothingAfterBack
<1> QED
  BY <1>1, AlwaysIInv, PTL

----------------------------------------------------------------------------
(* The adjustments of SEM_UNDO.                                            *)

\* What a V or an exit of process p does to the adjustments of both processes.
LEMMA SettleUndo ==
  ASSUME TypeOK,
         NEW p \in SemProc, NEW q \in SemProc, p # q,
         blocked \subseteq {q},
         NEW val \in [Semaphores -> Nat],
         NEW adj \in [SemProc -> [Semaphores -> Int]],
         NEW label \in Label,
         Settle(p, val, adj, label)
  PROVE  /\ undo'[p][0] = adj[p][0] /\ undo'[p][1] = adj[p][1]
         /\ \/ /\ q \in blocked /\ val[SemOf(pc[q])] > 0
               /\ pc'[q] = AfterP(pc[q])
               /\ undo'[q][SemOf(pc[q])] = adj[q][SemOf(pc[q])] + 1
               /\ undo'[q][1 - SemOf(pc[q])] = adj[q][1 - SemOf(pc[q])]
               /\ sem' = [val EXCEPT ![SemOf(pc[q])] = @ - 1]
            \/ /\ q \notin blocked \/ val[SemOf(pc[q])] = 0
               /\ pc'[q] = pc[q]
               /\ undo'[q][0] = adj[q][0] /\ undo'[q][1] = adj[q][1]
               /\ sem' = val
<1> DEFINE Ready == {w \in blocked : val[SemOf(pc[w])] > 0}
<1>1. undo' = [r \in SemProc |-> [s \in Semaphores |->
                 IF r \in Ready /\ SemOf(pc[r]) = s THEN adj[r][s] + 1
                                                    ELSE adj[r][s]]]
  BY DEF Settle
<1>2. \A r \in SemProc : \A s \in Semaphores :
        undo'[r][s] = IF r \in Ready /\ SemOf(pc[r]) = s THEN adj[r][s] + 1
                                                         ELSE adj[r][s]
  BY <1>1
<1>3. SemOf(pc[q]) \in Semaphores /\ 1 - SemOf(pc[q]) \in Semaphores
      /\ 0 \in Semaphores /\ 1 \in Semaphores /\ SemOf(pc[q]) # 1 - SemOf(pc[q])
  BY DEF SemOf, Semaphores
<1>4. p \notin Ready /\ (q \in Ready <=> q \in blocked /\ val[SemOf(pc[q])] > 0)
  OBVIOUS
<1>5. undo'[p][0] = adj[p][0] /\ undo'[p][1] = adj[p][1]
  BY <1>2, <1>3, <1>4
<1>6. \/ /\ q \in Ready
         /\ undo'[q][SemOf(pc[q])] = adj[q][SemOf(pc[q])] + 1
         /\ undo'[q][1 - SemOf(pc[q])] = adj[q][1 - SemOf(pc[q])]
      \/ /\ q \notin Ready
         /\ undo'[q][0] = adj[q][0] /\ undo'[q][1] = adj[q][1]
  BY <1>2, <1>3, <1>4
<1> HIDE DEF Ready
<1> QED
  BY <1>4, <1>5, <1>6, SettleOther

\* What a P of process p does to them.
LEMMA SemPUndo ==
  ASSUME TypeOK, NEW p \in SemProc, NEW q \in SemProc, p # q, SemP(p)
  PROVE  /\ undo'[q][0] = undo[q][0] /\ undo'[q][1] = undo[q][1]
         /\ \/ /\ sem[SemOf(pc[p])] > 0
               /\ undo'[p][SemOf(pc[p])] = undo[p][SemOf(pc[p])] + 1
               /\ undo'[p][1 - SemOf(pc[p])] = undo[p][1 - SemOf(pc[p])]
            \/ /\ sem[SemOf(pc[p])] = 0
               /\ undo' = undo
<1>1. SemOf(pc[p]) \in Semaphores /\ 1 - SemOf(pc[p]) \in Semaphores
      /\ SemOf(pc[p]) # 1 - SemOf(pc[p])
  BY DEF SemOf, Semaphores
<1>2. undo \in [SemProc -> [Semaphores -> Int]] /\ sem \in [Semaphores -> Nat]
  BY DEF TypeOK, SemOK
<1>3. CASE sem[SemOf(pc[p])] > 0
  <2>1. undo' = [undo EXCEPT ![p][SemOf(pc[p])] = @ + 1]
    BY <1>3 DEF SemP
  <2> QED
    BY <1>1, <1>2, <1>3, <2>1
<1>4. CASE sem[SemOf(pc[p])] = 0
  BY <1>1, <1>2, <1>4 DEF SemP
<1> QED
  BY <1>1, <1>2, <1>3, <1>4

\* semop with 1, while neither semaphore has a token: the sleeper on s, if there is
\* one, has its P counted.
LEMMA SemVUndo ==
  ASSUME TypeOK,
         NEW p \in SemProc, NEW q \in SemProc, p # q,
         blocked \subseteq {q}, sem[0] = 0, sem[1] = 0,
         NEW s \in Semaphores, NEW label \in Label,
         SemV(p, s, label)
  PROVE  /\ undo'[p][s] = undo[p][s] - 1 /\ undo'[p][1 - s] = undo[p][1 - s]
         /\ \/ /\ blocked = {q} /\ SemOf(pc[q]) = s
               /\ undo'[q][s] = undo[q][s] + 1 /\ undo'[q][1 - s] = undo[q][1 - s]
            \/ /\ blocked = {} \/ SemOf(pc[q]) # s
               /\ undo'[q][s] = undo[q][s] /\ undo'[q][1 - s] = undo[q][1 - s]
<1> DEFINE val == [sem EXCEPT ![s] = @ + 1]
           adj == [undo EXCEPT ![p][s] = @ - 1]
<1>1. sem \in [Semaphores -> Nat] /\ undo \in [SemProc -> [Semaphores -> Int]]
  BY DEF TypeOK, SemOK
<1>2. val \in [Semaphores -> Nat]
  BY <1>1
<1>3. adj \in [SemProc -> [Semaphores -> Int]]
  BY <1>1
<1>4. \A t \in Semaphores : val[t] = IF t = s THEN 1 ELSE 0
  <2>1. \A t \in Semaphores : sem[t] = 0
    BY DEF Semaphores
  <2> QED
    BY <1>1, <2>1
<1>5. s # 1 - s /\ 1 - s \in Semaphores /\ {s, 1 - s} = {0, 1} 
  BY DEF Semaphores
<1>6. adj[p][s] = undo[p][s] - 1 /\ adj[p][1 - s] = undo[p][1 - s] /\ adj[q] = undo[q]
  BY <1>1, <1>5
<1>7. Settle(p, val, adj, label)
  BY DEF SemV
<1>8. SemOf(pc[q]) \in Semaphores
  BY DEF SemOf, Semaphores
<1>9. blocked = {} \/ blocked = {q}
  OBVIOUS
<1> HIDE DEF val, adj
<1>10. /\ undo'[p][0] = adj[p][0] /\ undo'[p][1] = adj[p][1]
       /\ \/ /\ q \in blocked /\ val[SemOf(pc[q])] > 0
             /\ undo'[q][SemOf(pc[q])] = adj[q][SemOf(pc[q])] + 1
             /\ undo'[q][1 - SemOf(pc[q])] = adj[q][1 - SemOf(pc[q])]
          \/ /\ q \notin blocked \/ val[SemOf(pc[q])] = 0
             /\ undo'[q][0] = adj[q][0] /\ undo'[q][1] = adj[q][1]
  BY <1>2, <1>3, <1>7, SettleUndo
<1>11. undo'[p][s] = adj[p][s] /\ undo'[p][1 - s] = adj[p][1 - s]
  BY <1>5, <1>10
<1>12. CASE q \in blocked /\ val[SemOf(pc[q])] > 0
  BY <1>4, <1>6, <1>8, <1>9, <1>10, <1>11, <1>12
<1>13. CASE q \notin blocked \/ val[SemOf(pc[q])] = 0
  BY <1>4, <1>5, <1>6, <1>8, <1>9, <1>10, <1>11, <1>13
<1> QED
  BY <1>10, <1>12, <1>13

(* Where the adjustments stand: main owes semaphore 0 a token from v1 to   *)
(* P(merge_sem), merge has one of main's from p1 to V(merge_sem), and what *)
(* main has taken of semaphore 1 and what merge has given it differ by the *)
(* token that is still there.                                              *)
Signalled == {"p2", "acked", "P", "close"}
Reading == {"v2", "copy", "run", "V", "cleanup"}
Tokens ==
  /\ undo["main"][0] = IF pc["main"] \in Signalled THEN -1 ELSE 0
  /\ undo["merge"][0] = IF pc["merge"] \in Reading THEN 1 ELSE 0
  /\ pc["main"] # "exited" /\ pc["merge"] # "exited" =>
       undo["main"][1] + undo["merge"][1] = 0 - sem[1]
  /\ pc["main"] \in {"acked", "close"} /\ pc["merge"] # "exited" => sem[1] = 0

\* The commands that main has given with write_shm, the one under way included.
Commands == undo["main"][1] + (IF pc["main"] \in {"write", "v1", "p2"} THEN 1 ELSE 0)

\* What a semop does to Commands: nothing.
KeepsCount == Commands' = Commands /\ undo'["main"][1] >= undo["main"][1]

\* Nor does it bring main back to receive, or the io process anywhere.
KeepsPlace ==
  /\ pc'["io"] = pc["io"]
  /\ pc'["main"] \in {"receive", "merge"} => pc'["main"] = pc["main"]

\* The adjustments are integers (SEM_UNDO of both processes).
LEMMA UndoTypes ==
  ASSUME TypeOK
  PROVE  \A p \in {"main", "merge"} : undo[p][0] \in Int /\ undo[p][1] \in Int
  BY DEF TypeOK, SemOK, SemProc, Semaphores

\* v1 of write_shm: main now owes semaphore 0 its token.
LEMMA MainV1Undo ==
  ASSUME IInv, Tokens, MainV1
  PROVE  Tokens' /\ KeepsCount /\ KeepsPlace
<1>1. blocked \subseteq {"merge"} /\ pc["main"] = "v1" /\ pc["merge"] = "p1"
      /\ sem[0] = 0 /\ sem[1] = 0
  BY DEF IInv, Handshake, MainV1, Zero
<1>2. TypeOK /\ SemV("main", 0, "p2")
  BY DEF MainV1, IInv
<1>3. "main" \in SemProc /\ "merge" \in SemProc /\ 0 \in Semaphores
      /\ "p2" \in Label /\ "main" # "merge"
  BY DEF SemProc, Semaphores, Label, MainLabel
<1>4. /\ undo'["main"][0] = undo["main"][0] - 1 /\ undo'["main"][1] = undo["main"][1]
      /\ \/ /\ blocked = {"merge"}
            /\ undo'["merge"][0] = undo["merge"][0] + 1
            /\ undo'["merge"][1] = undo["merge"][1]
         \/ /\ blocked = {}
            /\ undo'["merge"][0] = undo["merge"][0]
            /\ undo'["merge"][1] = undo["merge"][1]
  BY <1>1, <1>2, <1>3, SemVUndo DEF SemOf
<1>5. /\ pc'["main"] = "p2" /\ sem'[1] = 0 /\ pc'["io"] = pc["io"]
      /\ \/ blocked = {"merge"} /\ pc'["merge"] = "v2"
         \/ blocked = {} /\ pc'["merge"] = "p1"
  <2>1. sem \in [Semaphores -> Nat]
    BY <1>2 DEF TypeOK, SemOK
  <2> QED
    BY <1>1, <1>2, <1>3, <2>1, SemVOther DEF SemOf, AfterP, Semaphores
<1> QED
  BY <1>1, <1>2, <1>4, <1>5, UndoTypes DEF Tokens, Commands, KeepsCount, KeepsPlace,
                                               Signalled, Reading

\* v2 of read_shm: a token for main, taken at once if main sleeps.
LEMMA MergeV2Undo ==
  ASSUME IInv, Tokens, MergeV2
  PROVE  Tokens' /\ KeepsCount /\ KeepsPlace
<1>1. blocked \subseteq {"main"} /\ pc["merge"] = "v2" /\ pc["main"] = "p2"
      /\ sem[0] = 0 /\ sem[1] = 0
  BY DEF IInv, Handshake, MergeV2, Zero, TypeOK, PcOK, MainLabel
<1>2. TypeOK /\ SemV("merge", 1, "copy")
  BY DEF MergeV2, IInv
<1>3. "main" \in SemProc /\ "merge" \in SemProc /\ 1 \in Semaphores
      /\ "copy" \in Label /\ "main" # "merge" /\ 1 - 1 = 0
  BY DEF SemProc, Semaphores, Label, MergeLabel
<1>4. /\ undo'["merge"][1] = undo["merge"][1] - 1 /\ undo'["merge"][0] = undo["merge"][0]
      /\ \/ /\ blocked = {"main"}
            /\ undo'["main"][1] = undo["main"][1] + 1
            /\ undo'["main"][0] = undo["main"][0]
         \/ /\ blocked = {}
            /\ undo'["main"][1] = undo["main"][1]
            /\ undo'["main"][0] = undo["main"][0]
  BY <1>1, <1>2, <1>3, SemVUndo DEF SemOf
<1>5. /\ pc'["merge"] = "copy" /\ pc'["io"] = pc["io"]
      /\ \/ blocked = {"main"} /\ pc'["main"] = "acked" /\ sem'[1] = 0
         \/ blocked = {} /\ pc'["main"] = "p2" /\ sem'[1] = 1
  <2>1. sem \in [Semaphores -> Nat]
    BY <1>2 DEF TypeOK, SemOK
  <2> QED
    BY <1>1, <1>2, <1>3, <2>1, SemVOther DEF SemOf, AfterP, Semaphores
<1>6. /\ undo["main"][0] = -1 /\ undo["merge"][0] = 1
      /\ undo["main"][1] \in Int /\ undo["merge"][1] \in Int
      /\ undo["main"][1] + undo["merge"][1] = 0
  BY <1>1, <1>2, UndoTypes DEF Tokens, Signalled, Reading
<1>7. undo'["main"][0] = -1 /\ undo'["merge"][0] = 1
  BY <1>4, <1>6
<1>8. /\ undo'["main"][1] + undo'["merge"][1] = 0 - sem'[1]
      /\ pc'["main"] = "acked" => sem'[1] = 0
      /\ pc'["main"] \in {"p2", "acked"}
  <2>1. \/ /\ undo'["main"][1] = undo["main"][1] + 1
           /\ pc'["main"] = "acked" /\ sem'[1] = 0
        \/ /\ undo'["main"][1] = undo["main"][1]
           /\ pc'["main"] = "p2" /\ sem'[1] = 1
    <3>1. {"main"} # {}
      OBVIOUS
    <3> QED
      BY <1>4, <1>5, <3>1, Zenon
  <2>2. undo'["merge"][1] = undo["merge"][1] - 1
    BY <1>4
  <2> QED
    BY <1>6, <2>1, <2>2
<1>9. Tokens'
  BY <1>5, <1>7, <1>8 DEF Tokens, Signalled, Reading
<1>10. KeepsCount
  BY <1>1, <1>4, <1>5, <1>6 DEF KeepsCount, Commands
<1>11. KeepsPlace
  BY <1>5 DEF KeepsPlace
<1> QED
  BY <1>9, <1>10, <1>11

\* V(merge_sem): it ends what p1 and v1 began on semaphore 0.
LEMMA MergeVUndo ==
  ASSUME IInv, Tokens, MergeV
  PROVE  Tokens' /\ KeepsCount /\ KeepsPlace
<1>1. blocked = {"main"} /\ pc["merge"] = "V" /\ pc["main"] = "P"
      /\ sem[0] = 0 /\ sem[1] = 0
  BY DEF IInv, Handshake, MergeV, Zero, TypeOK, PcOK, MainLabel
<1>2. TypeOK /\ SemV("merge", 0, "p1")
  BY DEF MergeV, IInv
<1>3. "main" \in SemProc /\ "merge" \in SemProc /\ 0 \in Semaphores
      /\ "p1" \in Label /\ "main" # "merge"
  BY DEF SemProc, Semaphores, Label, MergeLabel
<1>4. /\ undo'["merge"][0] = undo["merge"][0] - 1 /\ undo'["merge"][1] = undo["merge"][1]
      /\ undo'["main"][0] = undo["main"][0] + 1 /\ undo'["main"][1] = undo["main"][1]
  BY <1>1, <1>2, <1>3, SemVUndo DEF SemOf
<1>5. pc'["merge"] = "p1" /\ pc'["main"] = "merged" /\ sem' = sem /\ pc'["io"] = pc["io"]
  BY <1>1, <1>2, <1>3, SemVOther DEF SemOf, AfterP
<1> QED
  BY <1>1, <1>2, <1>4, <1>5, UndoTypes DEF Tokens, Commands, KeepsCount, KeepsPlace,
                                               Signalled, Reading

\* p2 of write_shm takes the token of semaphore 1.
LEMMA MainP2Undo ==
  ASSUME IInv, Tokens, MainP2
  PROVE  Tokens' /\ KeepsCount /\ KeepsPlace
<1>1. TypeOK /\ SemP("main") /\ pc["main"] = "p2"
  BY DEF MainP2, IInv
<1>2. "main" \in SemProc /\ "merge" \in SemProc /\ "main" # "merge" /\ 1 - 1 = 0
      /\ {"main", "merge", "io"} \subseteq Proc
  BY DEF SemProc, Proc
<1>3. /\ undo'["merge"][0] = undo["merge"][0] /\ undo'["merge"][1] = undo["merge"][1]
      /\ \/ /\ sem[1] > 0
            /\ undo'["main"][1] = undo["main"][1] + 1
            /\ undo'["main"][0] = undo["main"][0]
         \/ sem[1] = 0 /\ undo' = undo
  BY <1>1, <1>2, SemPUndo DEF SemOf
<1>4. /\ pc'["merge"] = pc["merge"] /\ pc'["io"] = pc["io"]
      /\ \/ sem[1] > 0 /\ pc'["main"] = "acked" /\ sem' = [sem EXCEPT ![1] = @ - 1]
         \/ sem[1] = 0 /\ pc' = pc /\ sem' = sem
  BY <1>1, <1>2, SemPFacts DEF SemOf, AfterP
<1>5. sem \in [Semaphores -> Nat] /\ {0, 1} = Semaphores
  BY <1>1 DEF TypeOK, SemOK, Semaphores
<1>6. pc["merge"] # "exited" => sem[1] \in {0, 1}
  BY <1>1 DEF IInv, Handshake, Zero, TypeOK, PcOK
<1> QED
  BY <1>1, <1>3, <1>4, <1>5, <1>6, UndoTypes DEF Tokens, Commands, KeepsCount, KeepsPlace,
                                               Signalled, Reading

\* P(merge_sem) finds no token and sleeps.
LEMMA MainPUndo ==
  ASSUME IInv, Tokens, MainP
  PROVE  Tokens' /\ KeepsCount /\ KeepsPlace
<1>1. TypeOK /\ SemP("main") /\ pc["main"] = "P"
  BY DEF MainP, IInv
<1>2. "main" \in SemProc /\ "merge" \in SemProc /\ "main" # "merge" /\ 1 - 1 = 0
      /\ {"main", "merge", "io"} \subseteq Proc
  BY DEF SemProc, Proc
<1>3. /\ undo'["merge"][0] = undo["merge"][0] /\ undo'["merge"][1] = undo["merge"][1]
      /\ \/ /\ sem[0] > 0
            /\ undo'["main"][0] = undo["main"][0] + 1
            /\ undo'["main"][1] = undo["main"][1]
         \/ sem[0] = 0 /\ undo' = undo
  BY <1>1, <1>2, SemPUndo DEF SemOf
<1>4. /\ pc'["merge"] = pc["merge"] /\ pc'["io"] = pc["io"]
      /\ \/ sem[0] > 0 /\ pc'["main"] = "merged" /\ sem' = [sem EXCEPT ![0] = @ - 1]
         \/ sem[0] = 0 /\ pc' = pc /\ sem' = sem
  BY <1>1, <1>2, SemPFacts DEF SemOf, AfterP
<1>5. sem \in [Semaphores -> Nat] /\ {0, 1} = Semaphores
  BY <1>1 DEF TypeOK, SemOK, Semaphores
<1>6. sem[0] = 0
  BY <1>1 DEF IInv, Handshake, Zero
<1> QED
  BY <1>1, <1>3, <1>4, <1>5, <1>6, UndoTypes DEF Tokens, Commands, KeepsCount, KeepsPlace,
                                               Signalled, Reading

\* p1 of read_shm takes the token of v1.
LEMMA MergeP1Undo ==
  ASSUME IInv, Tokens, MergeP1
  PROVE  Tokens' /\ KeepsCount /\ KeepsPlace
<1>1. TypeOK /\ SemP("merge") /\ pc["merge"] = "p1"
  BY DEF MergeP1, IInv
<1>2. "main" \in SemProc /\ "merge" \in SemProc /\ "main" # "merge" /\ 1 - 1 = 0
      /\ {"main", "merge", "io"} \subseteq Proc
  BY DEF SemProc, Proc
<1>3. /\ undo'["main"][0] = undo["main"][0] /\ undo'["main"][1] = undo["main"][1]
      /\ \/ /\ sem[0] > 0
            /\ undo'["merge"][0] = undo["merge"][0] + 1
            /\ undo'["merge"][1] = undo["merge"][1]
         \/ sem[0] = 0 /\ undo' = undo
  BY <1>1, <1>2, SemPUndo DEF SemOf
<1>4. /\ pc'["main"] = pc["main"] /\ pc'["io"] = pc["io"]
      /\ \/ sem[0] > 0 /\ pc'["merge"] = "v2" /\ sem' = [sem EXCEPT ![0] = @ - 1]
         \/ sem[0] = 0 /\ pc' = pc /\ sem' = sem
  BY <1>1, <1>2, SemPFacts DEF SemOf, AfterP
<1>5. sem \in [Semaphores -> Nat] /\ {0, 1} = Semaphores
  BY <1>1 DEF TypeOK, SemOK, Semaphores
<1>6. sem[0] > 0 => pc["main"] = "p2"
  BY <1>1 DEF IInv, Handshake, Zero, TypeOK, PcOK, MainLabel
<1>7. CASE sem[0] > 0
  <2>1. /\ undo'["main"][0] = undo["main"][0] /\ undo'["main"][1] = undo["main"][1]
        /\ undo'["merge"][0] = undo["merge"][0] + 1 /\ undo'["merge"][1] = undo["merge"][1]
        /\ pc'["merge"] = "v2" /\ sem'[1] = sem[1]
    BY <1>3, <1>4, <1>5, <1>7
  <2>2. undo["main"][1] \in Int /\ undo["merge"][0] = 0 /\ undo'["merge"][0] = 1
    BY <1>1, <2>1, UndoTypes DEF Tokens, Reading
  <2>3. Tokens'
    BY <1>1, <1>4, <2>1, <2>2 DEF Tokens, Reading
  <2>4. KeepsCount /\ KeepsPlace
    BY <1>4, <2>1, <2>2 DEF KeepsCount, KeepsPlace, Commands
  <2> QED
    BY <2>3, <2>4
<1>8. CASE sem[0] = 0
  <2>1. undo' = undo /\ pc' = pc /\ sem' = sem
    BY <1>3, <1>4, <1>8
  <2>2. undo["main"][1] \in Int
    BY <1>1, UndoTypes
  <2>3. Tokens'
    BY <2>1 DEF Tokens
  <2>4. KeepsCount /\ KeepsPlace
    BY <2>1, <2>2 DEF KeepsCount, KeepsPlace, Commands
  <2> QED
    BY <2>3, <2>4
<1>9. sem[0] > 0 \/ sem[0] = 0
  BY <1>5
<1> QED
  BY <1>7, <1>8, <1>9

\* The end of main clears its adjustments.
LEMMA MainCloseUndo ==
  ASSUME IInv, Tokens, MainClose
  PROVE  Tokens' /\ Commands' = 0 /\ undo'["main"][1] = 0
<1> DEFINE val == [s \in Semaphores |-> IF sem[s] + undo["main"][s] > 0
                                       THEN sem[s] + undo["main"][s] ELSE 0]
           adj == [undo EXCEPT !["main"] = [s \in Semaphores |-> 0]]
<1>1. TypeOK /\ blocked = {} /\ pc["main"] = "close"
  BY DEF IInv, Handshake, Command, MainClose, TypeOK, PcOK, MainLabel
<1>2. "main" \in SemProc /\ "merge" \in SemProc /\ "exited" \in Label
      /\ 0 \in Semaphores /\ 1 \in Semaphores
  BY DEF SemProc, Label, MainLabel, Semaphores
<1>3. val \in [Semaphores -> Nat] /\ adj \in [SemProc -> [Semaphores -> Int]]
  BY DEF IInv, TypeOK, SemOK, SemProc
<1>4. adj["main"][0] = 0 /\ adj["main"][1] = 0 /\ adj["merge"] = undo["merge"]
  BY <1>1, <1>2 DEF TypeOK, SemOK
<1>5. Settle("main", val, adj, "exited")
  BY DEF MainClose, SemExit
<1> HIDE DEF val, adj
<1>6. /\ undo'["main"][0] = 0 /\ undo'["main"][1] = 0
      /\ undo'["merge"][0] = undo["merge"][0]
      /\ undo'["merge"][1] = undo["merge"][1]
      /\ pc'["merge"] = pc["merge"]
  BY <1>1, <1>2, <1>3, <1>4, <1>5, SettleUndo
<1>7. pc'["main"] = "exited" /\ pc'["io"] = pc["io"]
  BY <1>1, <1>2, <1>3, <1>5, SettleOther
<1> QED
  BY <1>1, <1>6, <1>7, UndoTypes DEF Tokens, Commands, KeepsCount, KeepsPlace,
                                               Signalled, Reading

\* The end of merge clears its adjustments.
LEMMA MergeExitUndo ==
  ASSUME IInv, Tokens, MergeExit
  PROVE  Tokens' /\ KeepsCount /\ KeepsPlace
<1> DEFINE val == [s \in Semaphores |-> IF sem[s] + undo["merge"][s] > 0
                                       THEN sem[s] + undo["merge"][s] ELSE 0]
           adj == [undo EXCEPT !["merge"] = [s \in Semaphores |-> 0]]
<1>1. TypeOK /\ blocked = {} /\ pc["merge"] = "cleanup"
      /\ pc["main"] \in {"p2", "acked", "close", "exited"}
  BY DEF IInv, Handshake, Command, MergeExit, TypeOK, PcOK, MainLabel
<1>2. "main" \in SemProc /\ "merge" \in SemProc /\ "exited" \in Label
      /\ 0 \in Semaphores /\ 1 \in Semaphores
  BY DEF SemProc, Label, MainLabel, Semaphores
<1>3. val \in [Semaphores -> Nat] /\ adj \in [SemProc -> [Semaphores -> Int]]
  BY DEF IInv, TypeOK, SemOK, SemProc
<1>4. adj["merge"][0] = 0 /\ adj["merge"][1] = 0 /\ adj["main"] = undo["main"]
  BY <1>1, <1>2 DEF TypeOK, SemOK
<1>5. Settle("merge", val, adj, "exited")
  BY DEF MergeExit, SemExit
<1> HIDE DEF val, adj
<1>6. /\ undo'["merge"][0] = 0 /\ undo'["merge"][1] = 0
      /\ undo'["main"][0] = undo["main"][0]
      /\ undo'["main"][1] = undo["main"][1]
      /\ pc'["main"] = pc["main"]
  BY <1>1, <1>2, <1>3, <1>4, <1>5, SettleUndo
<1>7. pc'["merge"] = "exited" /\ pc'["io"] = pc["io"]
  BY <1>1, <1>2, <1>3, <1>5, SettleOther
<1> QED
  BY <1>1, <1>6, <1>7, UndoTypes DEF Tokens, Commands, KeepsCount, KeepsPlace,
                                               Signalled, Reading

\* A step without semop keeps the tokens: no process leaves or enters the places
\* where it owes one.
LEMMA LocalTokens ==
  ASSUME TypeOK, Tokens, UNCHANGED <<sem, undo>>,
         pc'["main"] \in Signalled <=> pc["main"] \in Signalled,
         pc'["merge"] \in Reading <=> pc["merge"] \in Reading,
         pc["main"] = "exited" => pc'["main"] = "exited",
         pc["merge"] = "exited" => pc'["merge"] = "exited",
         pc'["main"] \in {"acked", "close"} => pc["main"] \in {"acked", "close"}
  PROVE  Tokens'
  BY UndoTypes DEF Tokens

\* A merge that finds its tables calls no semop.
LEMMA MergeRunQuiet ==
  ASSUME MotorOutlastsMain, IInv, MergeRun
  PROVE  /\ UNCHANGED <<sem, undo>> /\ pc["main"] = "P" /\ pc["merge"] = "run"
         /\ pc'["main"] = "P" /\ pc'["merge"] = "V" /\ pc'["io"] = pc["io"]
<1>1. pc["main"] = "P" /\ storage_cnt = MERGE_TRIGGER
  BY SleepersAtP DEF MergeRun, IInv, Handshake, Command, Requested, Tables
<1> QED
  BY <1>1, SizesAssumption DEF MergeRun, Goto, semVars, IInv, TypeOK, PcOK, Proc

\* Every step of the three processes keeps the tokens.
LEMMA NextTokens ==
  ASSUME MotorOutlastsMain, IInv, Tokens, [Next]_vars
  PROVE  Tokens'
<1> TypeOK
  BY DEF IInv
<1> USE DEF Goto, semVars, Proc, PcOK
<1>1. ASSUME NEW e \in Event, IoRead(e) PROVE Tokens'
  BY <1>1, LocalTokens DEF IoRead, TypeOK
<1>2. CASE IoSend
  BY <1>2, LocalTokens DEF IoSend, TypeOK
<1>3. CASE MainEdit
  BY <1>3, LocalTokens DEF MainEdit
<1>4. CASE MainPut
  BY <1>4, LocalTokens DEF MainPut, Receive, TypeOK, Signalled
<1>5. CASE MainMerge
  BY <1>5, LocalTokens DEF MainMerge, Receive, TypeOK, Signalled
<1>6. CASE MainMergeDone
  BY <1>6, LocalTokens DEF MainMergeDone, TypeOK, Signalled
<1>7. CASE MainBack
  BY <1>7, LocalTokens DEF MainBack, Receive, TypeOK, Signalled
<1>8. CASE MainWrite
  BY <1>8, LocalTokens DEF MainWrite, TypeOK, Signalled
<1>9. CASE MainAcked
  BY <1>9, LocalTokens DEF MainAcked, AfterWrite, TypeOK, Signalled
<1>10. CASE MainMerged
  BY <1>10, LocalTokens DEF MainMerged, TypeOK, Signalled
<1>11. CASE MergeCopy
  <2>1. buf.d_nread = 1 /\ buf.d_buf = data /\ data \in {"M", "B"}
    BY <1>11 DEF MergeCopy, IInv, Command, CommandOK, TypeOK
  <2>2. pc'["merge"] \in {"run", "cleanup"} /\ pc'["main"] = pc["main"]
        /\ UNCHANGED <<sem, undo>> /\ pc["merge"] = "copy"
    BY <1>11, <2>1 DEF MergeCopy, MergeJob, TypeOK
  <2> QED
    BY <2>2, LocalTokens DEF Reading
<1>12. CASE MergeRun
  BY <1>12, MergeRunQuiet, LocalTokens DEF Reading
<1>13. CASE MainV1 \/ MainP2 \/ MainP \/ MainClose
  BY <1>13, MainV1Undo, MainP2Undo, MainPUndo, MainCloseUndo
<1>14. CASE MergeP1 \/ MergeV2 \/ MergeV \/ MergeExit
  BY <1>14, MergeP1Undo, MergeV2Undo, MergeVUndo, MergeExitUndo
<1>15. CASE Terminated \/ UNCHANGED vars
  BY <1>15 DEF Terminated, vars, Tokens
<1> QED
  BY <1>1, <1>2, <1>3, <1>4, <1>5, <1>6, <1>7, <1>8, <1>9, <1>10, <1>11, <1>12,
     <1>13, <1>14, <1>15 DEF Next, Io, Main, Merge

\* The inputs that main has not received yet; BACK is not counted in inputs.
Waiting ==
  Len(queue) + (IF pc["io"] = "send_message" /\ key # "Back" THEN 1 ELSE 0)
             - (IF pc["io"] = "exited" /\ ~quitting THEN 1 ELSE 0)
BackSent ==
  pc["io"] = "exited" /\ ~quitting => queue # <<>> /\ queue[Len(queue)] = "Back"

\* The pairs that the commands given so far stand for.
Spent == MEMORY_TABLE_SIZE * Commands
Counted ==
  /\ undo["main"][1] >= 0
  /\ ~quitting =>
       /\ Spent + memory_index + Waiting <= inputs + MEMORY_TABLE_SIZE
       /\ Commands = 0 => memory_index + Waiting <= inputs
       /\ pc["main"] \in {"receive", "merge"} /\ storage_cnt = MERGE_TRIGGER =>
            Commands = 0
  /\ quitting =>
       Spent <= inputs + (IF data = "M" THEN 2 ELSE 3) * MEMORY_TABLE_SIZE

\* One command more.
LEMMA TimesNext ==
  ASSUME NEW t \in Nat, NEW n \in Int
  PROVE  t * (n + 1) = t * n + t /\ t * n \in Int /\ t * 0 = 0
  OBVIOUS

\* Commands and Spent are integers.
LEMMA SpentTypes ==
  ASSUME TypeOK
  PROVE  Commands \in Int /\ Spent \in Int /\ (Commands = 0 => Spent = 0)
  BY UndoTypes, SizesAssumption DEF Commands, Spent

\* A command more is a memory table more.
LEMMA SpentStep ==
  ASSUME TypeOK, TypeOK'
  PROVE  /\ Commands' = Commands => Spent' = Spent
         /\ Commands' = Commands + 1 => Spent' = Spent + MEMORY_TABLE_SIZE
         /\ Commands' = 0 => Spent' = 0
<1>1. Commands \in Int /\ Commands' \in Int
  BY SpentTypes, UndoTypes DEF Commands, TypeOK, SemOK, SemProc, Semaphores
<1>2. Spent = MEMORY_TABLE_SIZE * Commands /\ Spent' = MEMORY_TABLE_SIZE * Commands'
  BY DEF Spent
<1> HIDE DEF Commands, Spent
<1>3. MEMORY_TABLE_SIZE \in Nat
  BY SizesAssumption
<1>4. Commands' = Commands + 1 => Spent' = Spent + MEMORY_TABLE_SIZE
  <2>1. MEMORY_TABLE_SIZE * (Commands + 1) = MEMORY_TABLE_SIZE * Commands + MEMORY_TABLE_SIZE
    BY <1>1, <1>3, TimesNext
  <2> QED
    BY <1>2, <2>1
<1>5. Commands' = 0 => Spent' = 0
  BY <1>2, <1>3, TimesNext
<1> QED
  BY <1>2, <1>4, <1>5

\* Nothing that is counted changes.
LEMMA CountStays ==
  ASSUME TypeOK, TypeOK', BackSent, Counted, KeepsCount,
         UNCHANGED <<inputs, memory_index, quitting, data>>,
         queue' = queue, key' = key, pc'["io"] = pc["io"],
         pc'["main"] \in {"receive", "merge"} =>
            \/ storage_cnt' # MERGE_TRIGGER
            \/ pc'["main"] = pc["main"] /\ storage_cnt' = storage_cnt
  PROVE  BackSent' /\ Counted'
<1>1. Waiting' = Waiting /\ BackSent'
  BY DEF Waiting, BackSent
<1>2. Commands' = Commands /\ Spent' = Spent /\ Commands \in Int /\ Spent \in Int
      /\ undo'["main"][1] >= 0
  <2>1. undo["main"][1] \in Int /\ undo'["main"][1] \in Int
    BY DEF TypeOK, SemOK, SemProc, Semaphores
  <2> QED
    BY <2>1, SpentTypes, SpentStep DEF KeepsCount, Counted
<1> HIDE DEF Waiting, Commands, Spent
<1> QED
  BY <1>1, <1>2 DEF Counted

\* The io process: an input is counted when it is read, and waits from then on.
LEMMA IoCount ==
  ASSUME IInv, IInv', BackSent, Counted, IoSend \/ \E e \in Event : IoRead(e)
  PROVE  BackSent' /\ Counted'
<1>1. TypeOK /\ TypeOK' /\ ~quitting /\ inputs \in Nat /\ Len(queue) \in Nat
      /\ memory_index \in Nat
  <2>1. pc["io"] # "exited"
    BY DEF IoSend, IoRead
  <2>2. ~quitting
    BY <2>1 DEF IInv, Stream
  <2>3. inputs \in Nat /\ Len(queue) \in Nat /\ memory_index \in Nat
    BY SizesAssumption, BoundsAssumption DEF IInv, TypeOK, InputOK, StoreOK
  <2> QED
    BY <2>2, <2>3 DEF IInv
<1>2. UNCHANGED <<memory_index, storage_cnt, quitting, data, undo>>
      /\ pc'["main"] = pc["main"]
  BY DEF IoSend, IoRead, Goto, storeVars, semVars, IInv, TypeOK, PcOK, Proc
<1>3. Commands' = Commands /\ Spent' = Spent /\ Commands \in Int /\ Spent \in Int
      /\ undo'["main"][1] = undo["main"][1]
  BY <1>1, <1>2, SpentTypes DEF Commands, Spent
<1>4. CASE \E e \in Event : IoRead(e)
  <2>1. PICK e \in Event : IoRead(e)
    BY <1>4
  <2>2. /\ pc["io"] = "read_input" /\ pc'["io"] = "send_message" /\ key' = e
        /\ queue' = queue /\ inputs' = IF e = "Back" THEN inputs ELSE inputs + 1
    BY <2>1 DEF IoRead, Goto, IInv, TypeOK, PcOK, Proc
  <2>3. /\ BackSent' /\ Waiting \in Int
        /\ \/ inputs' = inputs /\ Waiting' = Waiting
           \/ inputs' = inputs + 1 /\ Waiting' = Waiting + 1
    BY <1>1, <2>2 DEF BackSent, Waiting
  <2> HIDE DEF Waiting, Commands, Spent
  <2> QED
    BY <1>1, <1>2, <1>3, <2>3, SizesAssumption DEF Counted
<1>5. CASE IoSend
  <2>1. /\ pc["io"] = "send_message" /\ pc'["io"] = AfterSend(key)
        /\ queue' = Append(queue, key) /\ key' = key /\ inputs' = inputs
    BY <1>5 DEF IoSend, Goto, IInv, TypeOK, PcOK, Proc
  <2>2. Len(queue') = Len(queue) + 1 /\ queue'[Len(queue')] = key /\ queue' # <<>>
    BY <2>1 DEF IInv, TypeOK, InputOK
  <2>3. BackSent'
    BY <2>1, <2>2 DEF BackSent, AfterSend
  <2>4. Waiting' = Waiting /\ Waiting \in Int
    <3>1. ~quitting /\ ~quitting'
      BY <1>1, <1>2
    <3>2. CASE key = "Back"
      BY <1>1, <2>1, <2>2, <3>1, <3>2 DEF Waiting, AfterSend
    <3>3. CASE key # "Back"
      BY <1>1, <2>1, <2>2, <3>1, <3>3 DEF Waiting, AfterSend
    <3> QED
      BY <3>2, <3>3
  <2> HIDE DEF Waiting, Commands, Spent
  <2> QED
    BY <1>1, <1>2, <1>3, <2>1, <2>3, <2>4, SizesAssumption DEF Counted
<1> QED
  BY <1>4, <1>5

\* Receiving an input other than BACK leaves one less to wait for.
LEMMA ReceiveCount ==
  ASSUME IInv, BackSent, NEW e \in {"Edit", "Put", "Merge"}, Receive(e),
         UNCHANGED <<key, quitting>>, pc'["io"] = pc["io"]
  PROVE  BackSent' /\ Waiting' = Waiting - 1 /\ Waiting \in Int
<1>1. queue \in Seq(Event) /\ queue # <<>> /\ Head(queue) = e /\ queue' = Tail(queue)
  BY DEF IInv, TypeOK, InputOK, Receive
<1>2. Len(queue') = Len(queue) - 1 /\ Len(queue) \in Nat /\ queue[1] = e
  BY <1>1
<1>3. queue # <<>> /\ queue[Len(queue)] = "Back" =>
        queue' # <<>> /\ queue'[Len(queue')] = "Back"
  <2>1. SUFFICES ASSUME queue[Len(queue)] = "Back"
                 PROVE  queue' # <<>> /\ queue'[Len(queue')] = "Back"
    OBVIOUS
  <2>2. Len(queue) > 1
    BY <1>1, <1>2, <2>1
  <2>3. queue'[Len(queue) - 1] = queue[Len(queue)]
    BY <1>1, <1>2, <2>2
  <2>4. queue'[Len(queue')] = "Back"
    BY <1>2, <2>1, <2>3
  <2>5. queue' # <<>>
    BY <1>2, <2>2
  <2> QED
    BY <2>4, <2>5
<1> QED
  BY <1>2, <1>3 DEF BackSent, Waiting

\* An input that reaches the store only adds to what was received.
LEMMA MainEditCount ==
  ASSUME IInv, IInv', BackSent, Counted, MainEdit \/ MainMerge
  PROVE  BackSent' /\ Counted'
<1>1. TypeOK /\ TypeOK'
  BY DEF IInv
<1>2. /\ UNCHANGED <<key, inputs, memory_index, storage_cnt, quitting, data, undo>>
      /\ pc'["io"] = pc["io"]
      /\ pc["main"] = "receive" /\ pc'["main"] \in {"receive", "merge"}
      /\ \E e \in {"Edit", "Put", "Merge"} : Receive(e)
  BY DEF MainEdit, MainMerge, Receive, Goto, storeVars, semVars, IInv, TypeOK, PcOK, Proc
<1>3. BackSent' /\ Waiting' = Waiting - 1 /\ Waiting \in Int
  BY <1>2, ReceiveCount
<1>4. Commands' = Commands /\ Spent' = Spent /\ Commands \in Int /\ Spent \in Int
      /\ undo'["main"][1] = undo["main"][1]
  BY <1>1, <1>2, SpentTypes DEF Commands, Spent
<1>5. inputs \in Nat /\ memory_index \in Nat
  BY SizesAssumption, BoundsAssumption DEF IInv, TypeOK, InputOK, StoreOK
<1> HIDE DEF Waiting, Commands, Spent
<1> QED
  BY <1>2, <1>3, <1>4, <1>5, SizesAssumption DEF Counted

\* put_pair: a command is due for a full memory table, or once at the start, when no
\* command was given yet.
LEMMA MainPutCount ==
  ASSUME IInv, IInv', BackSent, Counted, MainPut
  PROVE  BackSent' /\ Counted'
<1>1. TypeOK /\ TypeOK'
  BY DEF IInv
<1>2. /\ UNCHANGED <<key, inputs, quitting, undo>>
      /\ pc'["io"] = pc["io"] /\ Receive("Put") /\ pc["main"] = "receive"
  BY DEF MainPut, Receive, Goto, semVars, IInv, TypeOK, PcOK, Proc
<1>3. ~quitting /\ ~quitting'
  BY <1>2 DEF IInv, Command
<1>4. BackSent' /\ Waiting' = Waiting - 1 /\ Waiting \in Int
  BY <1>2, ReceiveCount
<1>5. inputs \in Nat /\ memory_index \in Nat /\ memory_index < MEMORY_TABLE_SIZE
      /\ storage_cnt \in Nat /\ storage_cnt <= MERGE_TRIGGER
      /\ (storage_cnt = MERGE_TRIGGER => memory_index = 0)
  BY <1>2, SizesAssumption, BoundsAssumption DEF IInv, TypeOK, InputOK, StoreOK, Tables
<1>6. \/ memory_index' = 0 /\ memory_index + 1 = MEMORY_TABLE_SIZE
      \/ /\ memory_index' = memory_index + 1 /\ memory_index + 1 # MEMORY_TABLE_SIZE
         /\ storage_cnt' = storage_cnt
  BY DEF MainPut, Full
<1>7. \/ storage_cnt' = MERGE_TRIGGER /\ pc'["main"] = "write"
      \/ storage_cnt' # MERGE_TRIGGER /\ pc'["main"] = "receive"
  BY <1>2 DEF MainPut, NeedsMerge, Goto, IInv, TypeOK, PcOK, Proc
<1>8. Commands \in Int /\ Spent \in Int /\ (Commands = 0 => Spent = 0)
      /\ undo'["main"][1] = undo["main"][1] /\ Commands >= 0
  BY <1>1, <1>2, SpentTypes, UndoTypes DEF Counted, Commands
<1>9. CASE pc'["main"] = "receive" /\ storage_cnt' # MERGE_TRIGGER
  <2>1. Commands' = Commands
    BY <1>2, <1>9 DEF Commands
  <2>2. Spent' = Spent
    BY <1>1, <2>1, SpentStep
  <2> HIDE DEF Waiting, Commands, Spent
  <2> QED
    BY <1>2, <1>3, <1>4, <1>5, <1>6, <1>8, <1>9, <2>1, <2>2, SizesAssumption DEF Counted
<1>10. CASE pc'["main"] = "write" /\ storage_cnt' = MERGE_TRIGGER
  <2>1. Commands' = Commands + 1
    BY <1>1, <1>2, <1>10, UndoTypes DEF Commands
  <2>2. Spent' = Spent + MEMORY_TABLE_SIZE
    BY <1>1, <2>1, SpentStep
  <2> HIDE DEF Waiting, Commands, Spent
  <2>3. Commands' # 0 /\ pc'["main"] \notin {"receive", "merge"}
    BY <1>8, <1>10, <2>1
  <2>4. Spent' + memory_index' + Waiting' <= inputs' + MEMORY_TABLE_SIZE
    BY <1>2, <1>3, <1>4, <1>5, <1>6, <1>8, <1>10, <2>2, SizesAssumption DEF Counted
  <2>5. undo'["main"][1] >= 0
    BY <1>8 DEF Counted
  <2> QED
    BY <1>3, <1>4, <2>3, <2>4, <2>5 DEF Counted
<1> QED
  BY <1>7, <1>9, <1>10

\* BACK: one command, or two when a merge is due.
LEMMA MainBackCount ==
  ASSUME IInv, IInv', BackSent, Counted, MainBack
  PROVE  BackSent' /\ Counted'
<1>1. TypeOK /\ TypeOK'
  BY DEF IInv
<1>2. quitting' /\ inputs' = inputs /\ undo' = undo
      /\ pc["main"] = "receive" /\ pc'["main"] = "write" /\ ~quitting
  BY DEF MainBack, Receive, Goto, semVars, IInv, Command, TypeOK, PcOK, Proc
<1>3. Commands' = Commands + 1 /\ undo'["main"][1] >= 0
  BY <1>1, <1>2, UndoTypes DEF Commands, Counted
<1>4. Spent' = Spent + MEMORY_TABLE_SIZE /\ Spent \in Int
  BY <1>1, <1>3, SpentStep, SpentTypes
<1>5. inputs \in Nat /\ memory_index \in Nat /\ Waiting \in Int /\ Waiting >= 0
  <2>1. inputs \in Nat /\ memory_index \in Nat /\ Len(queue) \in Nat /\ Len(queue) > 0
    BY SizesAssumption, BoundsAssumption
       DEF IInv, TypeOK, InputOK, StoreOK, MainBack, Receive
  <2> QED
    BY <2>1 DEF Waiting
<1>6. BackSent'
  BY <1>2 DEF BackSent
<1> HIDE DEF Waiting, Commands, Spent
<1>7. Spent <= inputs + MEMORY_TABLE_SIZE
  <2>1. Spent + memory_index + Waiting <= inputs + MEMORY_TABLE_SIZE
    BY <1>2 DEF Counted
  <2> QED
    BY <1>4, <1>5, <2>1, SizesAssumption
<1>8. Spent' <= inputs' + (IF data' = "M" THEN 2 ELSE 3) * MEMORY_TABLE_SIZE
  BY <1>2, <1>4, <1>5, <1>7, SizesAssumption
<1> QED
  BY <1>2, <1>3, <1>6, <1>8 DEF Counted

\* After the merge that was due at BACK comes "B".
LEMMA MainMergedCount ==
  ASSUME IInv, IInv', BackSent, Counted, MainMerged
  PROVE  BackSent' /\ Counted'
<1>1. TypeOK /\ TypeOK' /\ pc["main"] = "merged" /\ data = "M"
      /\ storage_cnt # MERGE_TRIGGER
  BY SizesAssumption DEF IInv, MainMerged, Command, Tables, TypeOK, StoreOK
<1>2. /\ UNCHANGED <<inputs, memory_index, storage_cnt, quitting, undo>>
      /\ queue' = queue /\ key' = key /\ pc'["io"] = pc["io"]
  BY DEF MainMerged, Goto, ioVars, storeVars, semVars, IInv, TypeOK, PcOK, Proc
<1>3. CASE quitting
  <2>1. pc'["main"] = "write" /\ data' = "B"
    BY <1>3 DEF MainMerged, Goto, IInv, TypeOK, PcOK, Proc
  <2>2. Commands' = Commands + 1 /\ undo'["main"][1] >= 0
    BY <1>1, <1>2, <2>1, UndoTypes DEF Commands, Counted
  <2>3. Spent' = Spent + MEMORY_TABLE_SIZE /\ Spent \in Int
    BY <1>1, <2>2, SpentStep, SpentTypes
  <2>4. BackSent' /\ quitting' /\ inputs \in Nat
    BY <1>2, <1>3, BoundsAssumption DEF BackSent, IInv, TypeOK, InputOK
  <2> HIDE DEF Waiting, Commands, Spent
  <2>5. Spent <= inputs + 2 * MEMORY_TABLE_SIZE
    BY <1>1, <1>3 DEF Counted
  <2>6. Spent' <= inputs' + (IF data' = "M" THEN 2 ELSE 3) * MEMORY_TABLE_SIZE
    BY <1>2, <2>1, <2>3, <2>4, <2>5, SizesAssumption
  <2> QED
    BY <2>2, <2>4, <2>6 DEF Counted
<1>4. CASE ~quitting
  <2>1. pc'["main"] = "receive" /\ data' = data
    BY <1>4 DEF MainMerged, Goto, IInv, TypeOK, PcOK, Proc
  <2>2. KeepsCount
    BY <1>1, <1>2, <2>1, UndoTypes DEF KeepsCount, Commands
  <2> QED
    BY <1>1, <1>2, <2>1, <2>2, CountStays
<1> QED
  BY <1>3, <1>4

\* main's own merge leaves fewer than MERGE_TRIGGER tables.
LEMMA MainMergeDoneCount ==
  ASSUME IInv, IInv', BackSent, Counted, MainMergeDone
  PROVE  BackSent' /\ Counted'
<1>1. TypeOK /\ TypeOK' /\ pc["main"] = "merge"
  BY DEF IInv, MainMergeDone
<1>2. /\ UNCHANGED <<inputs, memory_index, quitting, data, undo>>
      /\ queue' = queue /\ key' = key /\ pc'["io"] = pc["io"] /\ pc'["main"] = "receive"
  BY DEF MainMergeDone, Goto, ioVars, semVars, IInv, TypeOK, PcOK, Proc
<1>3. storage_cnt' # MERGE_TRIGGER
  BY <1>1, SizesAssumption DEF MainMergeDone, Inserted, IInv, Tables, TypeOK, StoreOK
<1>4. KeepsCount
  BY <1>1, <1>2, UndoTypes DEF KeepsCount, Commands
<1> QED
  BY <1>1, <1>2, <1>3, <1>4, CountStays

\* main ends: its adjustments are gone.
LEMMA MainCloseCount ==
  ASSUME IInv, IInv', Tokens, BackSent, Counted, MainClose
  PROVE  BackSent' /\ Counted'
<1>1. /\ TypeOK /\ TypeOK' /\ quitting /\ quitting' /\ inputs' \in Nat
      /\ Commands' = 0 /\ undo'["main"][1] = 0 /\ data' # "M"
  BY MainCloseUndo, BoundsAssumption DEF IInv, TypeOK, InputOK, Command, MainClose
<1>2. Spent' \in Int /\ Spent' <= 0
  <2>1. Spent' = 0
    BY <1>1, SpentStep
  <2> QED
    BY <2>1
<1>3. BackSent'
  BY <1>1 DEF BackSent
<1> HIDE DEF Waiting, Commands, Spent
<1>4. Spent' <= inputs' + (IF data' = "M" THEN 2 ELSE 3) * MEMORY_TABLE_SIZE
  <2>1. \A i, t \in Nat, n \in Int : n <= 0 => n <= i + 3 * t
    OBVIOUS
  <2>2. MEMORY_TABLE_SIZE \in Nat
    BY SizesAssumption
  <2>3. Spent' <= inputs' + 3 * MEMORY_TABLE_SIZE
    BY <1>1, <1>2, <2>1, <2>2
  <2> QED
    BY <1>1, <2>3
<1> QED
  BY <1>1, <1>3, <1>4 DEF Counted

\* Every step keeps the count of the commands.
LEMMA NextCounted ==
  ASSUME MotorOutlastsMain, IInv, IInv', Tokens, BackSent, Counted, [Next]_vars
  PROVE  BackSent' /\ Counted'
<1>1. TypeOK /\ TypeOK'
  BY DEF IInv
<1>2. CASE MainWrite \/ MainAcked \/ MergeCopy \/ MergeRun
  <2>1. /\ UNCHANGED <<inputs, memory_index, quitting, data>>
        /\ queue' = queue /\ key' = key /\ pc'["io"] = pc["io"]
    <3>1. UNCHANGED <<inputs, memory_index, quitting, data>> /\ queue' = queue /\ key' = key
      BY <1>2 DEF MainWrite, MainAcked, MergeCopy, MergeRun, ioVars, storeVars
    <3>2. CASE MainWrite \/ MainAcked \/ MergeCopy
      BY <1>1, <3>1, <3>2 DEF MainWrite, MainAcked, MergeCopy, Goto, TypeOK, PcOK, Proc
    <3>3. CASE MergeRun
      BY <1>1, <3>1, <3>3, MergeRunQuiet DEF TypeOK, PcOK, Proc
    <3> QED
      BY <1>2, <3>1, <3>2, <3>3
  <2>2. undo' = undo /\ \/ pc["main"] = "write" /\ pc'["main"] = "v1"
                        \/ pc["main"] = "acked" /\ pc'["main"] \in {"P", "close"}
                        \/ pc'["main"] = pc["main"] /\ pc["main"] \notin {"receive", "merge"}
    <3>1. CASE MainWrite \/ MainAcked
      BY <1>1, <3>1 DEF MainWrite, MainAcked, AfterWrite, Goto, semVars, TypeOK, PcOK, Proc
    <3>2. CASE MergeCopy
      BY <1>1, <3>2 DEF MergeCopy, Goto, semVars, TypeOK, PcOK, Proc, IInv, Handshake
    <3>3. CASE MergeRun
      BY <3>3, MergeRunQuiet
    <3> QED
      BY <1>2, <3>1, <3>2, <3>3
  <2>3. KeepsCount
    BY <1>1, <2>2, UndoTypes DEF KeepsCount, Commands
  <2> QED
    BY <1>1, <2>1, <2>2, <2>3, CountStays
<1>3. CASE MainV1 \/ MainP2 \/ MainP \/ MergeP1 \/ MergeV2 \/ MergeV \/ MergeExit
  <2>1. KeepsCount /\ KeepsPlace
    BY <1>3, MainV1Undo, MainP2Undo, MainPUndo, MergeP1Undo, MergeV2Undo, MergeVUndo,
       MergeExitUndo
  <2>2. UNCHANGED <<inputs, memory_index, storage_cnt, quitting, data>>
        /\ queue' = queue /\ key' = key
    BY <1>3 DEF MainV1, MainP2, MainP, MergeP1, MergeV2, MergeV, MergeExit, ioVars, storeVars
  <2> QED
    BY <1>1, <2>1, <2>2, CountStays DEF KeepsPlace
<1>4. CASE UNCHANGED vars
  BY <1>1, <1>4, CountStays, UndoTypes DEF vars, KeepsCount, Commands
<1> QED
  BY <1>2, <1>3, <1>4, IoCount, MainEditCount, MainPutCount, MainBackCount, MainMergedCount,
     MainMergeDoneCount, MainCloseCount DEF Next, Io, Main, Merge, Terminated

\* What the bound on Spent says about the number of commands.
LEMMA CommandsBounded ==
  ASSUME NEW c \in Nat, NEW i \in Nat, NEW t \in Nat, t > 0, t * c <= i + 3 * t
  PROVE  c <= (i \div t) + 3
<1> DEFINE q == i \div t
<1>1. q \in Nat /\ i < t * q + t
  OBVIOUS
<1> HIDE DEF q
<1>2. ASSUME c >= q + 4 PROVE FALSE
  <2>1. c - (q + 4) \in Nat /\ t * (c - (q + 4)) \in Nat
    BY <1>1, <1>2
  <2>2. t * c = t * q + 4 * t + t * (c - (q + 4))
    BY <1>1
  <2> QED
    BY <1>1, <2>1, <2>2
<1> QED
  BY <1>1, <1>2 DEF q

\* The inductive invariant of the adjustments, above IInv.
UndoInv == Tokens /\ BackSent /\ Counted

\* No command was given yet (main() before the forks).
LEMMA InitUndoInv == Init => UndoInv
<1> SUFFICES ASSUME Init PROVE UndoInv
  OBVIOUS
<1>1. IInv /\ pc["io"] = "read_input" /\ pc["main"] = "receive" /\ pc["merge"] = "p1"
      /\ queue = <<>> /\ memory_index = 0 /\ inputs = 0 /\ ~quitting
  BY InitIInv DEF Init, Proc
<1>2. undo["main"][0] = 0 /\ undo["main"][1] = 0 /\ undo["merge"][0] = 0
      /\ undo["merge"][1] = 0 /\ sem[1] = 0
  BY DEF Init, SemProc, Semaphores
<1>3. Tokens /\ BackSent
  <2>1. Tokens
    <3>1. pc["main"] = "receive" /\ pc["merge"] = "p1"
      BY <1>1
    <3>2. undo["main"][1] + undo["merge"][1] = 0 - sem[1]
      BY <1>2
    <3> QED
      BY <1>2, <3>1, <3>2 DEF Tokens, Signalled, Reading
  <2>2. BackSent
    BY <1>1 DEF BackSent
  <2> QED
    BY <2>1, <2>2
<1>4. Commands = 0 /\ Waiting = 0 /\ Spent = 0
  <2>1. Commands = 0 /\ Waiting = 0
    BY <1>1, <1>2 DEF Commands, Waiting
  <2> QED
    BY <1>1, <2>1, SpentTypes DEF IInv
<1> HIDE DEF Commands, Waiting, Spent
<1> QED
  BY <1>1, <1>2, <1>3, <1>4, SizesAssumption DEF UndoInv, Counted

\* IInv and UndoInv give the bound of every adjustment.
LEMMA UndoInvBounds ==
  ASSUME IInv, UndoInv
  PROVE  UndoBounded
<1>1. TypeOK /\ undo["main"][1] \in Int /\ inputs \in Nat /\ MEMORY_TABLE_SIZE \in Nat
      /\ MEMORY_TABLE_SIZE > 0 /\ memory_index \in Nat /\ Len(queue) \in Nat
  BY UndoTypes, SizesAssumption, BoundsAssumption DEF IInv, TypeOK, InputOK, StoreOK
<1>2. Spent <= inputs + 3 * MEMORY_TABLE_SIZE
  <2>1. Spent \in Int /\ Waiting \in Int
    BY <1>1, SpentTypes DEF Waiting
  <2>2. Waiting >= -1
    BY <1>1 DEF Waiting
  <2> HIDE DEF Spent, Waiting
  <2>3. CASE ~quitting
    <3>1. Spent + memory_index + Waiting <= inputs + MEMORY_TABLE_SIZE
      BY <2>3 DEF UndoInv, Counted
    <3> QED
      BY <1>1, <2>1, <2>2, <3>1
  <2>4. CASE quitting /\ data = "M"
    <3>1. Spent <= inputs + 2 * MEMORY_TABLE_SIZE
      BY <2>4 DEF UndoInv, Counted
    <3> QED
      BY <1>1, <2>1, <3>1
  <2>5. CASE quitting /\ data # "M"
    BY <2>5 DEF UndoInv, Counted
  <2> QED
    BY <2>3, <2>4, <2>5
<1>3. undo["main"][1] \in 0..((inputs \div MEMORY_TABLE_SIZE) + 3)
  <2>1. undo["main"][1] >= 0
    BY DEF UndoInv, Counted
  <2>2. undo["main"][1] <= Commands /\ Commands \in Nat
    BY <1>1, <2>1 DEF Commands
  <2>3. Commands <= (inputs \div MEMORY_TABLE_SIZE) + 3
    BY <1>1, <1>2, <2>2, CommandsBounded DEF Spent
  <2>4. inputs \div MEMORY_TABLE_SIZE \in Nat
    BY <1>1
  <2> HIDE DEF Commands
  <2> QED
    BY <1>1, <2>1, <2>2, <2>3, <2>4
<1>4. \A p \in SemProc : undo[p][0] \in -1..1
  BY DEF UndoInv, Tokens, SemProc
<1>5. pc["merge"] # "exited" /\ pc["main"] # "exited" =>
        undo["main"][1] + undo["merge"][1] \in {-1, 0}
  <2>1. SUFFICES ASSUME pc["merge"] # "exited", pc["main"] # "exited"
                 PROVE  undo["main"][1] + undo["merge"][1] \in {-1, 0}
    OBVIOUS
  <2>2. sem[1] \in {0, 1}
    BY <2>1 DEF IInv, Handshake, Zero, UndoInv, Tokens, TypeOK, PcOK, MainLabel
  <2> QED
    BY <2>1, <2>2 DEF UndoInv, Tokens
<1> QED
  BY <1>3, <1>4, <1>5 DEF UndoBounded

\* SEM_UNDO never fails with ERANGE before 32764 tables were written: the adjustments
\* of semaphore 0 stay between -1 and 1 (P and V of sem.c), those of semaphore 1 grow
\* by one with every command of write_shm, and there are at most three commands more
\* than full memory tables.
THEOREM UndoStaysBounded ==
  ASSUME MotorOutlastsMain
  PROVE  Spec => []UndoBounded
<1>1. IInv /\ IInv' /\ UndoInv /\ [Next]_vars => UndoInv'
  BY NextTokens, NextCounted DEF UndoInv
<1>2. IInv /\ UndoInv => UndoBounded
  BY UndoInvBounds
<1> QED
  BY <1>1, <1>2, InitUndoInv, AlwaysIInv, PTL DEF Spec

----------------------------------------------------------------------------
(* KvFaults: the merge process may die in merge().                         *)

\* Where main can be when nobody answers its commands any more.
Unanswered == {"receive", "merge", "merged", "write", "v1", "p2"}

\* The merge process has died: SEM_UNDO has taken back the token it gave main in
\* read_shm and has ended P(merge_sem).
DeadInv ==
  /\ TypeOK
  /\ pc["merge"] = "crashed" /\ pc["main"] \in Unanswered
  /\ pc["main"] = "merge" => storage_cnt >= 2
  /\ sem[1] = 0
  /\ blocked \subseteq {"main"} /\ ("main" \in blocked => pc["main"] = "p2")

\* Until it dies everything is as without faults.
FaultInv == (IInv /\ UndoInv) \/ DeadInv

\* MainEdit changes neither the store nor the semaphores.
LEMMA DeadMainEdit ==
  ASSUME DeadInv, MainEdit
  PROVE  DeadInv'
<1> USE DEF DeadInv, TypeOK, MainEdit, Receive, Goto, ioVars, storeVars, semVars
<1>1. PcOK' /\ pc'["merge"] = "crashed" /\ pc'["main"] \in Unanswered
  BY DEF PcOK, CommandOK, Proc, Unanswered, MainLabel, MergeLabel
<1>2. InputOK'
  BY BoundsAssumption DEF InputOK, Event
<1>3. StoreOK'
  BY SizesAssumption DEF StoreOK, PcOK, Proc
<1>4. CommandOK'
  BY DEF CommandOK
<1>5. SemOK'
  BY DEF SemOK
<1>6. (pc["main"] = "merge" => storage_cnt >= 2)'
  BY SizesAssumption DEF PcOK, Proc, StoreOK
<1>7. sem'[1] = 0 /\ blocked' \subseteq {"main"} /\ ("main" \in blocked' => pc'["main"] = "p2")
  BY DEF PcOK, Proc
<1> QED
  BY <1>1, <1>2, <1>3, <1>4, <1>5, <1>6, <1>7

\* MainPut may go on to write_shm.
LEMMA DeadMainPut ==
  ASSUME DeadInv, MainPut
  PROVE  DeadInv'
<1> USE DEF DeadInv, TypeOK, MainPut, Receive, Full, Flushed, Inserted, NeedsMerge, Goto, ioVars, storeVars, semVars
<1>1. PcOK' /\ pc'["merge"] = "crashed" /\ pc'["main"] \in Unanswered
  BY DEF PcOK, CommandOK, Proc, Unanswered, MainLabel, MergeLabel
<1>2. InputOK'
  BY BoundsAssumption DEF InputOK, Event
<1>3. StoreOK'
  BY SizesAssumption DEF StoreOK, PcOK, Proc
<1>4. CommandOK'
  BY DEF CommandOK
<1>5. SemOK'
  BY DEF SemOK
<1>6. (pc["main"] = "merge" => storage_cnt >= 2)'
  BY SizesAssumption DEF PcOK, Proc, StoreOK
<1>7. sem'[1] = 0 /\ blocked' \subseteq {"main"} /\ ("main" \in blocked' => pc'["main"] = "p2")
  BY DEF PcOK, Proc
<1> QED
  BY <1>1, <1>2, <1>3, <1>4, <1>5, <1>6, <1>7

\* MainMerge: main merges on its own, given two tables.
LEMMA DeadMainMerge ==
  ASSUME DeadInv, MainMerge
  PROVE  DeadInv'
<1> USE DEF DeadInv, TypeOK, MainMerge, Receive, Goto, ioVars, storeVars, semVars
<1>1. PcOK' /\ pc'["merge"] = "crashed" /\ pc'["main"] \in Unanswered
  BY DEF PcOK, CommandOK, Proc, Unanswered, MainLabel, MergeLabel
<1>2. InputOK'
  BY BoundsAssumption DEF InputOK, Event
<1>3. StoreOK'
  BY SizesAssumption DEF StoreOK, PcOK, Proc
<1>4. CommandOK'
  BY DEF CommandOK
<1>5. SemOK'
  BY DEF SemOK
<1>6. (pc["main"] = "merge" => storage_cnt >= 2)'
  BY SizesAssumption DEF PcOK, Proc, StoreOK
<1>7. sem'[1] = 0 /\ blocked' \subseteq {"main"} /\ ("main" \in blocked' => pc'["main"] = "p2")
  BY DEF PcOK, Proc
<1> QED
  BY <1>1, <1>2, <1>3, <1>4, <1>5, <1>6, <1>7

\* MainMergeDone: two tables have become one.
LEMMA DeadMainMergeDone ==
  ASSUME DeadInv, MainMergeDone
  PROVE  DeadInv'
<1> USE DEF DeadInv, TypeOK, MainMergeDone, Inserted, Goto, ioVars, storeVars, semVars
<1>1. PcOK' /\ pc'["merge"] = "crashed" /\ pc'["main"] \in Unanswered
  BY DEF PcOK, CommandOK, Proc, Unanswered, MainLabel, MergeLabel
<1>2. InputOK'
  BY BoundsAssumption DEF InputOK, Event
<1>3. StoreOK'
  BY SizesAssumption DEF StoreOK, PcOK, Proc
<1>4. CommandOK'
  BY DEF CommandOK
<1>5. SemOK'
  BY DEF SemOK
<1>6. (pc["main"] = "merge" => storage_cnt >= 2)'
  BY SizesAssumption DEF PcOK, Proc, StoreOK
<1>7. sem'[1] = 0 /\ blocked' \subseteq {"main"} /\ ("main" \in blocked' => pc'["main"] = "p2")
  BY DEF PcOK, Proc
<1> QED
  BY <1>1, <1>2, <1>3, <1>4, <1>5, <1>6, <1>7

\* MainBack goes on to write_shm.
LEMMA DeadMainBack ==
  ASSUME DeadInv, MainBack
  PROVE  DeadInv'
<1> USE DEF DeadInv, TypeOK, MainBack, Receive, Flushed, Inserted, NeedsMerge, Goto, ioVars, storeVars, semVars
<1>1. PcOK' /\ pc'["merge"] = "crashed" /\ pc'["main"] \in Unanswered
  BY DEF PcOK, CommandOK, Proc, Unanswered, MainLabel, MergeLabel
<1>2. InputOK'
  BY BoundsAssumption DEF InputOK, Event
<1>3. StoreOK'
  BY SizesAssumption DEF StoreOK, PcOK, Proc
<1>4. CommandOK'
  BY DEF CommandOK
<1>5. SemOK'
  BY DEF SemOK
<1>6. (pc["main"] = "merge" => storage_cnt >= 2)'
  BY SizesAssumption DEF PcOK, Proc, StoreOK
<1>7. sem'[1] = 0 /\ blocked' \subseteq {"main"} /\ ("main" \in blocked' => pc'["main"] = "p2")
  BY DEF PcOK, Proc
<1> QED
  BY <1>1, <1>2, <1>3, <1>4, <1>5, <1>6, <1>7

\* MainWrite leaves a command that nobody reads.
LEMMA DeadMainWrite ==
  ASSUME DeadInv, MainWrite
  PROVE  DeadInv'
<1> USE DEF DeadInv, TypeOK, MainWrite, Goto, ioVars, storeVars, semVars
<1>1. PcOK' /\ pc'["merge"] = "crashed" /\ pc'["main"] \in Unanswered
  BY DEF PcOK, CommandOK, Proc, Unanswered, MainLabel, MergeLabel
<1>2. InputOK'
  BY BoundsAssumption DEF InputOK, Event
<1>3. StoreOK'
  BY SizesAssumption DEF StoreOK, PcOK, Proc
<1>4. CommandOK'
  <2>1. buf' \in [d_nread : {0, 1}, d_buf : {"", "M", "B"}]
    BY DEF CommandOK
  <2>2. owed \in Int /\ owed' = IF data = "M" THEN owed + 1 ELSE owed
    BY DEF CommandOK
  <2>3. owed' \in Int
    BY <2>2
  <2>4. quitting' = quitting /\ data' = data /\ message' = message
    OBVIOUS
  <2> QED
    BY <2>1, <2>3, <2>4 DEF CommandOK
<1>5. SemOK'
  BY DEF SemOK
<1>6. (pc["main"] = "merge" => storage_cnt >= 2)'
  BY SizesAssumption DEF PcOK, Proc, StoreOK
<1>7. sem'[1] = 0 /\ blocked' \subseteq {"main"} /\ ("main" \in blocked' => pc'["main"] = "p2")
  BY DEF PcOK, Proc
<1> QED
  BY <1>1, <1>2, <1>3, <1>4, <1>5, <1>6, <1>7

\* MainMerged: back to the messages, or on to "B".
LEMMA DeadMainMerged ==
  ASSUME DeadInv, MainMerged
  PROVE  DeadInv'
<1> USE DEF DeadInv, TypeOK, MainMerged, Goto, ioVars, storeVars, semVars
<1>1. PcOK' /\ pc'["merge"] = "crashed" /\ pc'["main"] \in Unanswered
  BY DEF PcOK, CommandOK, Proc, Unanswered, MainLabel, MergeLabel
<1>2. InputOK'
  BY BoundsAssumption DEF InputOK, Event
<1>3. StoreOK'
  BY SizesAssumption DEF StoreOK, PcOK, Proc
<1>4. CommandOK'
  BY DEF CommandOK
<1>5. SemOK'
  BY DEF SemOK
<1>6. (pc["main"] = "merge" => storage_cnt >= 2)'
  BY SizesAssumption DEF PcOK, Proc, StoreOK
<1>7. sem'[1] = 0 /\ blocked' \subseteq {"main"} /\ ("main" \in blocked' => pc'["main"] = "p2")
  BY DEF PcOK, Proc
<1> QED
  BY <1>1, <1>2, <1>3, <1>4, <1>5, <1>6, <1>7

\* IoSend: the io process knows nothing of it.
LEMMA DeadIoSend ==
  ASSUME DeadInv, IoSend
  PROVE  DeadInv'
<1> USE DEF DeadInv, TypeOK, IoSend, AfterSend, Goto, ioVars, storeVars, semVars
<1>1. PcOK' /\ pc'["merge"] = "crashed" /\ pc'["main"] \in Unanswered
  BY DEF PcOK, CommandOK, Proc, Unanswered, IoLabel, MainLabel, MergeLabel
<1>2. InputOK'
  BY BoundsAssumption DEF InputOK, Event
<1>3. StoreOK'
  BY SizesAssumption DEF StoreOK, PcOK, Proc
<1>4. CommandOK'
  BY DEF CommandOK
<1>5. SemOK'
  BY DEF SemOK
<1>6. (pc["main"] = "merge" => storage_cnt >= 2)'
  BY SizesAssumption DEF PcOK, Proc, StoreOK
<1>7. sem'[1] = 0 /\ blocked' \subseteq {"main"} /\ ("main" \in blocked' => pc'["main"] = "p2")
  BY DEF PcOK, Proc
<1> QED
  BY <1>1, <1>2, <1>3, <1>4, <1>5, <1>6, <1>7

\* IoRead: nor does the user.
LEMMA DeadIoRead ==
  ASSUME DeadInv, NEW e \in Event, IoRead(e)
  PROVE  DeadInv'
<1> USE DEF DeadInv, TypeOK, IoRead, Goto, ioVars, storeVars, semVars
<1>1. PcOK' /\ pc'["merge"] = "crashed" /\ pc'["main"] \in Unanswered
  BY DEF PcOK, CommandOK, Proc, Unanswered, IoLabel, MainLabel, MergeLabel
<1>2. InputOK'
  BY BoundsAssumption DEF InputOK, Event
<1>3. StoreOK'
  BY SizesAssumption DEF StoreOK, PcOK, Proc
<1>4. CommandOK'
  BY DEF CommandOK
<1>5. SemOK'
  BY DEF SemOK
<1>6. (pc["main"] = "merge" => storage_cnt >= 2)'
  BY SizesAssumption DEF PcOK, Proc, StoreOK
<1>7. sem'[1] = 0 /\ blocked' \subseteq {"main"} /\ ("main" \in blocked' => pc'["main"] = "p2")
  BY DEF PcOK, Proc
<1> QED
  BY <1>1, <1>2, <1>3, <1>4, <1>5, <1>6, <1>7

\* MainV1: the token stays, since nobody waits for it.
LEMMA DeadMainV1 ==
  ASSUME DeadInv, MainV1
  PROVE  DeadInv'
<1> DEFINE val == [sem EXCEPT ![0] = @ + 1]
           adj == [undo EXCEPT !["main"][0] = @ - 1]
<1>1. /\ TypeOK /\ pc["main"] = "v1" /\ pc["merge"] = "crashed" /\ sem[1] = 0
      /\ blocked = {}
  BY DEF DeadInv, MainV1
<1>2. "main" \in SemProc /\ "merge" \in SemProc /\ "main" # "merge" /\ "p2" \in Label
  BY DEF SemProc, Label, MainLabel
<1>3. sem \in [Semaphores -> Nat] /\ undo \in [SemProc -> [Semaphores -> Int]]
      /\ 0 \in Semaphores /\ 1 \in Semaphores
  BY <1>1 DEF TypeOK, SemOK, Semaphores
<1>4. val \in [Semaphores -> Nat] /\ adj \in [SemProc -> [Semaphores -> Int]] /\ val[1] = sem[1]
  BY <1>2, <1>3
<1>5. Settle("main", val, adj, "p2")
  BY DEF MainV1, SemV
<1> HIDE DEF val, adj
<1>6. /\ sem' \in [Semaphores -> Nat] /\ undo' \in [SemProc -> [Semaphores -> Int]]
      /\ pc' \in [Proc -> Label \cup {"v2", "acked", "merged"}]
      /\ pc'["main"] = "p2" /\ pc'["io"] = pc["io"] /\ pc'["merge"] = pc["merge"]
      /\ blocked' = {} /\ sem' = val
  BY <1>1, <1>2, <1>4, <1>5, SettleOther
<1>7. InputOK' /\ StoreOK' /\ CommandOK'
  BY <1>1 DEF MainV1, InputOK, StoreOK, CommandOK, ioVars, storeVars, TypeOK
<1>8. PcOK'
  BY <1>1, <1>6 DEF PcOK, Proc, Label, IoLabel, MainLabel, MergeLabel, TypeOK
<1>9. SemOK'
  BY <1>6 DEF SemOK
<1> QED
  BY <1>1, <1>4, <1>6, <1>7, <1>8, <1>9 DEF DeadInv, TypeOK, Unanswered

\* MainP2: no token of the reader will come.
LEMMA DeadMainP2 ==
  ASSUME DeadInv, MainP2
  PROVE  DeadInv'
<1>1. /\ TypeOK /\ pc["main"] = "p2" /\ pc["merge"] = "crashed" /\ sem[1] = 0
      /\ blocked \subseteq {"main"}
  BY DEF DeadInv, MainP2
<1>2. "main" \in SemProc /\ SemP("main") /\ SemOf(pc["main"]) = 1
  BY <1>1 DEF SemProc, MainP2, SemOf
<1>3. /\ pc' = pc /\ sem' = sem /\ blocked' = blocked \cup {"main"}
      /\ undo' \in [SemProc -> [Semaphores -> Int]]
  BY <1>1, <1>2, SemPFacts
<1>4. InputOK' /\ StoreOK' /\ CommandOK'
  BY <1>1 DEF MainP2, InputOK, StoreOK, CommandOK, ioVars, storeVars, TypeOK
<1>5. PcOK' /\ SemOK'
  BY <1>1, <1>3 DEF PcOK, SemOK, SemProc, TypeOK
<1> QED
  BY <1>1, <1>3, <1>4, <1>5 DEF DeadInv, TypeOK, Unanswered

\* Every step after the merge process has died.
LEMMA DeadStep ==
  ASSUME DeadInv, [FaultNext]_vars
  PROVE  DeadInv'
<1>1. pc["merge"] = "crashed" /\ pc["main"] \in Unanswered
  BY DEF DeadInv
<1>2. CASE Io
  BY <1>2, DeadIoRead, DeadIoSend DEF Io
<1>3. CASE Main
  <2>1. ~MainAcked /\ ~MainP /\ ~MainClose
    BY <1>1 DEF MainAcked, MainP, MainClose, Unanswered
  <2> QED
    BY <1>3, <2>1, DeadMainEdit, DeadMainPut, DeadMainMerge, DeadMainMergeDone, DeadMainBack,
       DeadMainWrite, DeadMainV1, DeadMainP2, DeadMainMerged DEF Main
<1>4. ~Merge /\ ~MergeDies /\ ~Terminated
  BY <1>1 DEF Merge, MergeP1, MergeV2, MergeCopy, MergeRun, MergeV, MergeExit, MergeDies,
              Terminated, Proc
<1>5. CASE UNCHANGED vars
  BY <1>5 DEF vars, DeadInv, TypeOK, PcOK, InputOK, StoreOK, CommandOK, SemOK
<1> QED
  BY <1>2, <1>3, <1>4, <1>5 DEF FaultNext, Next

\* The step in which it dies: main sleeps in P(merge_sem), and gets the token of
\* semaphore 0 that merge has taken in read_shm; on semaphore 1 merge has given more
\* than it may take back.
LEMMA DyingStep ==
  ASSUME MotorOutlastsMain, IInv, UndoInv, MergeDies
  PROVE  DeadInv'
<1> DEFINE val == [s \in Semaphores |-> IF sem[s] + undo["merge"][s] > 0
                                       THEN sem[s] + undo["merge"][s] ELSE 0]
           adj == [undo EXCEPT !["merge"] = [s \in Semaphores |-> 0]]
<1>1. /\ TypeOK /\ pc["merge"] = "run" /\ pc["main"] = "P" /\ blocked = {"main"}
      /\ sem[0] = 0 /\ sem[1] = 0
  BY DEF IInv, Handshake, Zero, MergeDies, TypeOK, PcOK, MainLabel
<1>2. undo["merge"][0] = 1 /\ undo["merge"][1] \in Int /\ undo["merge"][1] <= 0
  <2>1. /\ undo["merge"][0] = 1 /\ undo["main"][1] >= 0
        /\ undo["main"][1] + undo["merge"][1] = 0
    BY <1>1 DEF UndoInv, Tokens, Counted, Reading
  <2>2. undo["main"][1] \in Int /\ undo["merge"][1] \in Int
    BY <1>1, UndoTypes
  <2> QED
    BY <2>1, <2>2
<1>3. "main" \in SemProc /\ "merge" \in SemProc /\ "main" # "merge" /\ "crashed" \in Label
      /\ 0 \in Semaphores /\ 1 \in Semaphores
  BY DEF SemProc, Label, MergeLabel, Semaphores
<1>4. val \in [Semaphores -> Nat] /\ adj \in [SemProc -> [Semaphores -> Int]]
  BY <1>1 DEF TypeOK, SemOK, SemProc
<1>5. val[0] = 1 /\ val[1] = 0
  BY <1>1, <1>2, <1>3
<1>6. Settle("merge", val, adj, "crashed")
  BY DEF MergeDies, SemExit
<1> HIDE DEF val, adj
<1>7. SemOf(pc["main"]) = 0 /\ AfterP(pc["main"]) = "merged"
  BY <1>1 DEF SemOf, AfterP
<1>8. /\ sem' \in [Semaphores -> Nat] /\ undo' \in [SemProc -> [Semaphores -> Int]]
      /\ pc' \in [Proc -> Label \cup {"v2", "acked", "merged"}]
      /\ pc'["merge"] = "crashed" /\ pc'["io"] = pc["io"] /\ pc'["main"] = "merged"
      /\ blocked' = {} /\ sem' = [val EXCEPT ![0] = @ - 1]
  BY <1>1, <1>3, <1>4, <1>5, <1>6, <1>7, SettleOther
<1>9. sem'[1] = 0
  BY <1>3, <1>4, <1>5, <1>8
<1>10. InputOK' /\ CommandOK'
  <2>1. owed \in Int /\ owed' = owed - 1
    BY <1>1 DEF MergeDies, CommandOK, TypeOK
  <2>2. owed' \in Int
    BY <2>1
  <2> QED
    BY <1>1, <2>2 DEF MergeDies, InputOK, CommandOK, ioVars, TypeOK
<1>11. StoreOK'
  <2>1. storage_cnt \in Nat /\ storage_cnt >= 2 /\ memory_index' = memory_index
        /\ storage_cnt' \in {storage_cnt, storage_cnt - 1, storage_cnt - 2}
    BY <1>1 DEF MergeDies, StoreOK, TypeOK
  <2>2. storage_cnt' \in Nat
    BY <2>1
  <2> QED
    BY <1>1, <2>1, <2>2 DEF StoreOK, TypeOK
<1>12. PcOK'
  BY <1>1, <1>8 DEF PcOK, Proc, Label, IoLabel, MainLabel, MergeLabel, TypeOK
<1>13. SemOK'
  BY <1>8 DEF SemOK
<1> QED
  BY <1>8, <1>9, <1>10, <1>11, <1>12, <1>13 DEF DeadInv, TypeOK, Unanswered

\* Every step, with and without a fault.
LEMMA AlwaysFaultInv ==
  ASSUME MotorOutlastsMain
  PROVE  FaultSpec => []FaultInv
<1>1. Init => FaultInv
  BY InitIInv, InitUndoInv DEF FaultInv
<1>2. FaultInv /\ [FaultNext]_vars => FaultInv'
  <2>1. ASSUME IInv, UndoInv, [Next]_vars
        PROVE  IInv' /\ UndoInv'
    <3>1. IInv'
      BY <2>1, NextIInv
    <3> QED
      BY <2>1, <3>1, NextTokens, NextCounted DEF UndoInv
  <2> QED
    BY <2>1, DyingStep, DeadStep DEF FaultInv, FaultNext
<1> QED
  BY <1>1, <1>2, PTL DEF FaultSpec

\* When merge() ends the process (an assert or a failed fopen in store.c), main is
\* released from P(merge_sem), and is never told that a later command was read: it
\* waits in write_shm for good and does not end, not even at BACK.
THEOREM DeadMergeIsSilent ==
  ASSUME MotorOutlastsMain
  PROVE  FaultSpec => []NoAnswerFromTheDead
<1>1. FaultInv => NoAnswerFromTheDead
  BY DEF FaultInv, IInv, DeadInv, Unanswered, NoAnswerFromTheDead
<1> QED
  BY <1>1, AlwaysFaultInv, PTL

\* The store is not shared even then: the process that dies leaves main alone with it.
THEOREM StoreExcludedWithFaults ==
  ASSUME MotorOutlastsMain
  PROVE  FaultSpec => [](TypeOK /\ StoreExclusion)
<1>1. FaultInv => TypeOK /\ StoreExclusion
  BY DEF FaultInv, IInv, DeadInv, TypeOK, PcOK, MainLabel, Handshake, StoreExclusion
<1> QED
  BY <1>1, AlwaysFaultInv, PTL

=============================================================================
