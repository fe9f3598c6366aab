------------------------------ MODULE KvFaults -----------------------------
(***************************************************************************)
(* The processes of hw1 when the merge process may die in merge(): a table *)
(* that cannot be opened, the assert on the new file, an array that is too *)
(* small.  SEM_UNDO is all that tells main.                                *)
(***************************************************************************)
EXTENDS KvProcesses

\* merge() ends the process before, between or after its two popleft; storage_cnt
\* stays what it was at that moment.
MergeDies ==
  /\ pc["merge"] = "run"
  /\ MotorOutlastsMain => "main" \in blocked
  /\ storage_cnt >= 2
  /\ storage_cnt' \in {storage_cnt, storage_cnt - 1, storage_cnt - 2}
  /\ owed' = owed - 1
  /\ SemExit("merge", "crashed")
  /\ UNCHANGED <<ioVars, memory_index, quitting, data, buf, message>>

FaultNext == Next \/ MergeDies

FaultSpec == Init /\ [][FaultNext]_vars /\ Fairness

----------------------------------------------------------------------------
(* Properties.                                                             *)

\* When the merge process dies, SEM_UNDO gives back the token that it took in
\* read_shm, and main, which waits for it in P(merge_sem), goes on with the inputs
\* that wait, up to its next command: there it stays in write_shm, because nobody
\* answers, and touches the tables no more.
Stuck == pc["main"] = "p2" /\ "main" \in blocked
MainOutlivesMerge ==
  pc["merge"] = "crashed" ~> Stuck \/ (pc["main"] = "receive" /\ queue = <<>>)

\* What main has not been answered it never takes for answered: when the merge
\* process is dead main is neither in P(merge_sem) nor past write_shm, and it does not
\* end, not even at BACK.
NoAnswerFromTheDead ==
  pc["merge"] = "crashed" => pc["main"] \notin {"acked", "P", "close", "exited"}

=============================================================================
