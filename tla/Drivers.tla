------------------------------ MODULE Drivers ------------------------------
(***************************************************************************)
(* The drivers that are loaded one at a time on the board, for TLC: the    *)
(* timer of hw2, the kernel timer and the memory driver of pra5, and the   *)
(* interrupts of pra6.  A behaviour shows one of them.                     *)
(***************************************************************************)
EXTENDS TimerDriver, KernelTimer, MemCtrl, Interrupts

VARIABLE loaded

driversVars == <<loaded, vars, blinkVars, memVars, interVars>>

DriversInit ==
  /\ loaded \in {"timer", "kernel_timer", "mem_ctrl", "inter"}
  /\ Init /\ BlinkInit /\ MemInit /\ InterInit

OfTimer(A) == loaded = "timer" /\ A /\ UNCHANGED <<loaded, blinkVars, memVars, interVars>>
OfBlink(A) == loaded = "kernel_timer" /\ A /\ UNCHANGED <<loaded, vars, memVars, interVars>>
OfMem(A) == loaded = "mem_ctrl" /\ A /\ UNCHANGED <<loaded, vars, blinkVars, interVars>>
OfInter(A) == loaded = "inter" /\ A /\ UNCHANGED <<loaded, vars, blinkVars, memVars>>

DriversNext == OfTimer(Next) \/ OfBlink(BlinkNext) \/ OfMem(MemNext) \/ OfInter(InterNext)

\* A timer that is set expires, and a process that has opened the interrupt driver
\* goes on.
DriversFairness ==
  /\ WF_driversVars(OfTimer(Timer))
  /\ \A a \in Sleepers : WF_driversVars(OfInter(Process(a)))

DriversSpec == DriversInit /\ [][DriversNext]_driversVars /\ DriversFairness

=============================================================================
