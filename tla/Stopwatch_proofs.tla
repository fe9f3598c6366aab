-------------------------- MODULE Stopwatch_proofs --------------------------
(***************************************************************************)
(* Proofs about Stopwatch, for any number of ticks and runs.  Each         *)
(* property has an inductive invariant of its own, and names the timing    *)
(* assumption that it needs, and no other.                                 *)
(***************************************************************************)
EXTENDS Stopwatch, TLAPS

AppLabel == {"closed", "open", "show", "out", "arm", "armed", "asleep", "woken",
             "show again", "out again", "written", "freeing", "exiting", "gone"}

\* What the variables of the driver hold: where each actor is, the flags, the numbers.
Labels ==
  /\ app \in AppLabel
  /\ tick \in {"idle", "load", "store", "fnd", "queue"}
  /\ isr \in {"idle", "ticker", "stop"}
  /\ worker \in {"idle", "out"}
  /\ start_time \in {"old", "recent"} /\ held \in {"short", "long"}
Flags ==
  /\ is_stop \in BOOLEAN /\ is_halt \in BOOLEAN
  /\ armed \in BOOLEAN /\ pending \in BOOLEAN
  /\ down \in BOOLEAN /\ edge \in BOOLEAN
Numbers == ticker \in Nat /\ tmp \in Nat /\ late \in Nat

\* A step is a step of one actor, or changes nothing.
LEMMA Actions ==
  ASSUME [Next]_vars
  PROVE  \/ inter_open \/ Interrupted \/ ExitTimer \/ ExitQueue
         \/ inter_handler1 \/ inter_handler2 \/ MoveKey \/ ThreeSeconds
         \/ WriteClear \/ WriteRead \/ WriteOut \/ WriteArm \/ WriteSleep \/ inter_release
         \/ VolUp \/ inter_handler4
         \/ TickHalt \/ TickStopped \/ TickStart \/ TickLoad \/ TickStore \/ TickFnd \/ TickEnd
         \/ Work \/ UNCHANGED vars
  BY DEF Next, User, Application, fpga_timer_handler

\* Every actor stays at its labels.
LEMMA NextLabels ==
  ASSUME Labels, [Next]_vars
  PROVE  Labels'
<1> USE DEF Labels, AppLabel, watch, timer, work, voldown
<1>1. CASE inter_open
  BY <1>1 DEF inter_open
<1>2. CASE Interrupted
  BY <1>2 DEF Interrupted
<1>3. CASE ExitTimer
  BY <1>3 DEF ExitTimer, TimerDeleted
<1>4. CASE ExitQueue
  BY <1>4 DEF ExitQueue
<1>5. CASE inter_handler1
  BY <1>5 DEF inter_handler1, Handling
<1>6. CASE inter_handler2
  BY <1>6 DEF inter_handler2, Handling
<1>7. CASE MoveKey
  BY <1>7 DEF MoveKey
<1>8. CASE ThreeSeconds
  BY <1>8 DEF ThreeSeconds
<1>9. CASE WriteClear
  BY <1>9 DEF WriteClear, Cleared
<1>10. CASE WriteRead
  BY <1>10 DEF WriteRead
<1>11. CASE WriteOut
  BY <1>11 DEF WriteOut
<1>12. CASE WriteArm
  BY <1>12 DEF WriteArm
<1>13. CASE WriteSleep
  BY <1>13 DEF WriteSleep
<1>14. CASE inter_release
  BY <1>14 DEF inter_release
<1>15. CASE VolUp
  <2>1. isr' \in {"idle", "ticker", "stop"}
    BY <1>15 DEF VolUp, inter_handler3
  <2>2. UNCHANGED <<app, tick, worker, start_time, held>>
    BY <1>15 DEF VolUp
  <2> QED
    BY <2>1, <2>2
<1>16. CASE inter_handler4
  BY <1>16 DEF inter_handler4, IsLong, Handling
<1>17. CASE TickHalt
  BY <1>17 DEF TickHalt, WakenUp, StaysOff, Due
<1>18. CASE TickStopped
  BY <1>18 DEF TickStopped, vars
<1>19. CASE TickStart
  BY <1>19 DEF TickStart, Due, Counts
<1>20. CASE TickLoad
  BY <1>20 DEF TickLoad
<1>21. CASE TickStore
  BY <1>21 DEF TickStore
<1>22. CASE TickFnd
  BY <1>22 DEF TickFnd
<1>23. CASE TickEnd
  BY <1>23 DEF TickEnd, Queued
<1>24. CASE Work
  BY <1>24 DEF Work, write_device
<1>25. CASE UNCHANGED vars
  BY <1>25 DEF vars
<1> QED
  BY <1>1, <1>2, <1>3, <1>4, <1>5, <1>6, <1>7, <1>8, <1>9, <1>10, <1>11, <1>12, <1>13,
     <1>14, <1>15, <1>16, <1>17, <1>18, <1>19, <1>20, <1>21, <1>22, <1>23, <1>24, <1>25, Actions

\* A flag stays a flag: VOL DOWN and the tests of the handlers store nothing else.
LEMMA NextFlags ==
  ASSUME Flags, [Next]_vars
  PROVE  Flags'
<1> USE DEF Flags, Registered, watch, timer, work, voldown
<1>1. CASE inter_open
  BY <1>1 DEF inter_open
<1>2. CASE Interrupted
  BY <1>2 DEF Interrupted
<1>3. CASE ExitTimer
  BY <1>3 DEF ExitTimer, TimerDeleted
<1>4. CASE ExitQueue
  BY <1>4 DEF ExitQueue
<1>5. CASE inter_handler1
  BY <1>5 DEF inter_handler1, Handling
<1>6. CASE inter_handler2
  BY <1>6 DEF inter_handler2, Handling
<1>7. CASE MoveKey
  BY <1>7 DEF MoveKey
<1>8. CASE ThreeSeconds
  BY <1>8 DEF ThreeSeconds
<1>9. CASE WriteClear
  BY <1>9 DEF WriteClear, Cleared
<1>10. CASE WriteRead
  BY <1>10 DEF WriteRead
<1>11. CASE WriteOut
  BY <1>11 DEF WriteOut
<1>12. CASE WriteArm
  BY <1>12 DEF WriteArm
<1>13. CASE WriteSleep
  BY <1>13 DEF WriteSleep
<1>14. CASE inter_release
  BY <1>14 DEF inter_release
<1>15. CASE VolUp
  BY <1>15 DEF VolUp, inter_handler3, Handling
<1>16. CASE inter_handler4
  BY <1>16 DEF inter_handler4, IsLong, Handling
<1>17. CASE TickHalt
  BY <1>17 DEF TickHalt, WakenUp, StaysOff, Due
<1>18. CASE TickStopped
  BY <1>18 DEF TickStopped, vars
<1>19. CASE TickStart
  BY <1>19 DEF TickStart, Due, Counts
<1>20. CASE TickLoad
  BY <1>20 DEF TickLoad
<1>21. CASE TickStore
  BY <1>21 DEF TickStore
<1>22. CASE TickFnd
  BY <1>22 DEF TickFnd
<1>23. CASE TickEnd
  BY <1>23 DEF TickEnd, Queued
<1>24. CASE Work
  BY <1>24 DEF Work, write_device
<1>25. CASE UNCHANGED vars
  BY <1>25 DEF vars
<1> QED
  BY <1>1, <1>2, <1>3, <1>4, <1>5, <1>6, <1>7, <1>8, <1>9, <1>10, <1>11, <1>12, <1>13,
     <1>14, <1>15, <1>16, <1>17, <1>18, <1>19, <1>20, <1>21, <1>22, <1>23, <1>24, <1>25, Actions

\* The counters stay natural numbers.
LEMMA NextNumbers ==
  ASSUME Numbers, [Next]_vars
  PROVE  Numbers'
<1> USE DEF Numbers, watch, timer, work, voldown
<1>1. CASE inter_open
  BY <1>1 DEF inter_open
<1>2. CASE Interrupted
  BY <1>2 DEF Interrupted
<1>3. CASE ExitTimer
  BY <1>3 DEF ExitTimer, TimerDeleted
<1>4. CASE ExitQueue
  BY <1>4 DEF ExitQueue
<1>5. CASE inter_handler1
  BY <1>5 DEF inter_handler1, Handling
<1>6. CASE inter_handler2
  BY <1>6 DEF inter_handler2, Handling
<1>7. CASE MoveKey
  BY <1>7 DEF MoveKey
<1>8. CASE ThreeSeconds
  BY <1>8 DEF ThreeSeconds
<1>9. CASE WriteClear
  BY <1>9 DEF WriteClear, Cleared
<1>10. CASE WriteRead
  BY <1>10 DEF WriteRead
<1>11. CASE WriteOut
  BY <1>11 DEF WriteOut
<1>12. CASE WriteArm
  BY <1>12 DEF WriteArm
<1>13. CASE WriteSleep
  BY <1>13 DEF WriteSleep
<1>14. CASE inter_release
  BY <1>14 DEF inter_release
<1>15. CASE VolUp
  BY <1>15 DEF VolUp, inter_handler3, Handling
<1>16. CASE inter_handler4
  BY <1>16 DEF inter_handler4, IsLong, Handling
<1>17. CASE TickHalt
  BY <1>17 DEF TickHalt, WakenUp, StaysOff, Due
<1>18. CASE TickStopped
  BY <1>18 DEF TickStopped, vars
<1>19. CASE TickStart
  BY <1>19 DEF TickStart, Due, Counts
<1>20. CASE TickLoad
  BY <1>20 DEF TickLoad
<1>21. CASE TickStore
  BY <1>21 DEF TickStore
<1>22. CASE TickFnd
  BY <1>22 DEF TickFnd
<1>23. CASE TickEnd
  BY <1>23 DEF TickEnd, Queued
<1>24. CASE Work
  BY <1>24 DEF Work, write_device
<1>25. CASE UNCHANGED vars
  BY <1>25 DEF vars
<1> QED
  BY <1>1, <1>2, <1>3, <1>4, <1>5, <1>6, <1>7, <1>8, <1>9, <1>10, <1>11, <1>12, <1>13,
     <1>14, <1>15, <1>16, <1>17, <1>18, <1>19, <1>20, <1>21, <1>22, <1>23, <1>24, <1>25, Actions

\* All three hold in every state.
Types == Labels /\ Flags /\ Numbers

\* Every state of the driver is well typed.
LEMMA AlwaysTypes == Spec => []Types
<1>1. Init => Types
  <2>1. Init => Labels
    BY DEF Init, Labels, AppLabel
  <2>2. Init => Flags
    BY DEF Init, Flags
  <2>3. Init => Numbers
    BY DEF Init, Numbers
  <2> QED
    BY <2>1, <2>2, <2>3 DEF Types
<1>2. Types /\ [Next]_vars => Types'
  BY NextLabels, NextFlags, NextNumbers DEF Types
<1> QED
  BY <1>1, <1>2, PTL DEF Spec

----------------------------------------------------------------------------
(* The timer.                                                              *)

\* The timer is set, or its handler runs, only while the application is between
\* add_timer and the end of its sleep, and never both.
Owner ==
  /\ armed \/ tick # "idle" => app \in {"armed", "asleep"}
  /\ tick # "idle" => ~armed

\* Without signals only the handler that leaves the timer off ends the sleep.
LEMMA NextOwner ==
  ASSUME ~Signals, Types, Owner, [Next]_vars
  PROVE  Owner'
<1> USE DEF Types, Labels, Flags, Owner, watch, timer, work, voldown
<1>1. CASE inter_open
  BY <1>1 DEF inter_open
<1>2. CASE Interrupted
  BY <1>2 DEF Interrupted
<1>3. CASE ExitTimer
  BY <1>3 DEF ExitTimer, TimerDeleted
<1>4. CASE ExitQueue
  BY <1>4 DEF ExitQueue
<1>5. CASE inter_handler1
  BY <1>5 DEF inter_handler1, Handling
<1>6. CASE inter_handler2
  BY <1>6 DEF inter_handler2, Handling
<1>7. CASE MoveKey
  BY <1>7 DEF MoveKey
<1>8. CASE ThreeSeconds
  BY <1>8 DEF ThreeSeconds
<1>9. CASE WriteClear
  BY <1>9 DEF WriteClear, Cleared
<1>10. CASE WriteRead
  BY <1>10 DEF WriteRead
<1>11. CASE WriteOut
  BY <1>11 DEF WriteOut
<1>12. CASE WriteArm
  BY <1>12 DEF WriteArm
<1>13. CASE WriteSleep
  BY <1>13 DEF WriteSleep
<1>14. CASE inter_release
  BY <1>14 DEF inter_release
<1>15. CASE VolUp
  BY <1>15 DEF VolUp, inter_handler3, Handling
<1>16. CASE inter_handler4
  BY <1>16 DEF inter_handler4, IsLong, Handling
<1>17. CASE TickHalt
  BY <1>17 DEF TickHalt, WakenUp, StaysOff, Due
<1>18. CASE TickStopped
  BY <1>18 DEF TickStopped, vars
<1>19. CASE TickStart
  BY <1>19 DEF TickStart, Due, Counts
<1>20. CASE TickLoad
  BY <1>20 DEF TickLoad
<1>21. CASE TickStore
  BY <1>21 DEF TickStore
<1>22. CASE TickFnd
  BY <1>22 DEF TickFnd
<1>23. CASE TickEnd
  BY <1>23 DEF TickEnd, Queued
<1>24. CASE Work
  BY <1>24 DEF Work, write_device
<1>25. CASE UNCHANGED vars
  BY <1>25 DEF vars
<1> QED
  BY <1>1, <1>2, <1>3, <1>4, <1>5, <1>6, <1>7, <1>8, <1>9, <1>10, <1>11, <1>12, <1>13,
     <1>14, <1>15, <1>16, <1>17, <1>18, <1>19, <1>20, <1>21, <1>22, <1>23, <1>24, <1>25, Actions

\* If no signal wakes the application, add_timer is never called for a pending timer,
\* by inter_write or by the handler, and nothing ticks after inter_write has returned.
THEOREM TimerIsOwned ==
  ASSUME ~Signals
  PROVE  Spec => []TimerOwned
<1>1. Init => Owner
  BY DEF Init, Owner
<1>2. Types /\ Owner /\ [Next]_vars => Owner'
  BY NextOwner
<1>3. Owner => TimerOwned
  BY DEF Owner, TimerOwned, AddTimerOnce, QuietWhenClosed, Registered
<1> QED
  BY <1>1, <1>2, <1>3, AlwaysTypes, PTL DEF Spec

----------------------------------------------------------------------------
(* The ticks that are counted after the time was stopped.                  *)

\* A handler that has not yet stored ticker has seen the time running, and no tick is
\* late while it runs.
LateInv ==
  /\ late \in {0, 1}
  /\ ~is_stop => late = 0
  /\ tick \in {"load", "store"} => late = 0

\* Each way to stop the time starts the count of late ticks again.
LEMMA NextLate ==
  ASSUME Types, LateInv, [Next]_vars
  PROVE  LateInv'
<1> USE DEF Types, Labels, Flags, Numbers, LateInv, watch, timer, work, voldown
<1>1. CASE inter_open
  BY <1>1 DEF inter_open
<1>2. CASE Interrupted
  BY <1>2 DEF Interrupted
<1>3. CASE ExitTimer
  BY <1>3 DEF ExitTimer, TimerDeleted
<1>4. CASE ExitQueue
  BY <1>4 DEF ExitQueue
<1>5. CASE inter_handler1
  BY <1>5 DEF inter_handler1, Handling
<1>6. CASE inter_handler2
  BY <1>6 DEF inter_handler2, Handling
<1>7. CASE MoveKey
  BY <1>7 DEF MoveKey
<1>8. CASE ThreeSeconds
  BY <1>8 DEF ThreeSeconds
<1>9. CASE WriteClear
  BY <1>9 DEF WriteClear, Cleared
<1>10. CASE WriteRead
  BY <1>10 DEF WriteRead
<1>11. CASE WriteOut
  BY <1>11 DEF WriteOut
<1>12. CASE WriteArm
  BY <1>12 DEF WriteArm
<1>13. CASE WriteSleep
  BY <1>13 DEF WriteSleep
<1>14. CASE inter_release
  BY <1>14 DEF inter_release
<1>15. CASE VolUp
  BY <1>15 DEF VolUp, inter_handler3, Handling
<1>16. CASE inter_handler4
  BY <1>16 DEF inter_handler4, IsLong, Handling
<1>17. CASE TickHalt
  BY <1>17 DEF TickHalt, WakenUp, StaysOff, Due
<1>18. CASE TickStopped
  BY <1>18 DEF TickStopped, vars
<1>19. CASE TickStart
  BY <1>19 DEF TickStart, Due, Counts
<1>20. CASE TickLoad
  BY <1>20 DEF TickLoad
<1>21. CASE TickStore
  BY <1>21 DEF TickStore
<1>22. CASE TickFnd
  BY <1>22 DEF TickFnd
<1>23. CASE TickEnd
  BY <1>23 DEF TickEnd, Queued
<1>24. CASE Work
  BY <1>24 DEF Work, write_device
<1>25. CASE UNCHANGED vars
  BY <1>25 DEF vars
<1> QED
  BY <1>1, <1>2, <1>3, <1>4, <1>5, <1>6, <1>7, <1>8, <1>9, <1>10, <1>11, <1>12, <1>13,
     <1>14, <1>15, <1>16, <1>17, <1>18, <1>19, <1>20, <1>21, <1>22, <1>23, <1>24, <1>25, Actions

\* Whenever a button stops the time, at most the tick whose handler was already running
\* is counted after it: with any number of presses, slow handlers and signals.
THEOREM LateTicksBounded == Spec => []LateTickBounded
<1>1. Init => LateInv
  BY DEF Init, LateInv
<1>2. Types /\ LateInv /\ [Next]_vars => LateInv'
  BY NextLate
<1>3. LateInv => LateTickBounded
  BY DEF LateInv, LateTickBounded
<1> QED
  BY <1>1, <1>2, <1>3, AlwaysTypes, PTL DEF Spec

----------------------------------------------------------------------------
(* rmmod.                                                                  *)

\* free_irq has waited for the handler of VOL UP, and del_timer_sync for that of the
\* timer, so that nobody queues work when destroy_workqueue waits for it.
Leaving ==
  /\ app \in {"closed", "exiting", "gone"} => isr = "idle"
  /\ app \in {"exiting", "gone"} => ~armed /\ tick = "idle"
  /\ app = "gone" => ~pending /\ worker = "idle"

\* The order of inter_release and of the module's exit.
LEMMA NextLeaving ==
  ASSUME Types, Leaving, [Next]_vars
  PROVE  Leaving'
<1> USE DEF Types, Labels, Flags, Leaving, Registered, watch, timer, work, voldown
<1>1. CASE inter_open
  BY <1>1 DEF inter_open
<1>2. CASE Interrupted
  BY <1>2 DEF Interrupted
<1>3. CASE ExitTimer
  BY <1>3 DEF ExitTimer, TimerDeleted
<1>4. CASE ExitQueue
  BY <1>4 DEF ExitQueue
<1>5. CASE inter_handler1
  BY <1>5 DEF inter_handler1, Handling
<1>6. CASE inter_handler2
  BY <1>6 DEF inter_handler2, Handling
<1>7. CASE MoveKey
  BY <1>7 DEF MoveKey
<1>8. CASE ThreeSeconds
  BY <1>8 DEF ThreeSeconds
<1>9. CASE WriteClear
  BY <1>9 DEF WriteClear, Cleared
<1>10. CASE WriteRead
  BY <1>10 DEF WriteRead
<1>11. CASE WriteOut
  BY <1>11 DEF WriteOut
<1>12. CASE WriteArm
  BY <1>12 DEF WriteArm
<1>13. CASE WriteSleep
  BY <1>13 DEF WriteSleep
<1>14. CASE inter_release
  BY <1>14 DEF inter_release
<1>15. CASE VolUp
  BY <1>15 DEF VolUp, inter_handler3, Handling
<1>16. CASE inter_handler4
  BY <1>16 DEF inter_handler4, IsLong, Handling
<1>17. CASE TickHalt
  BY <1>17 DEF TickHalt, WakenUp, StaysOff, Due
<1>18. CASE TickStopped
  BY <1>18 DEF TickStopped, vars
<1>19. CASE TickStart
  BY <1>19 DEF TickStart, Due, Counts
<1>20. CASE TickLoad
  BY <1>20 DEF TickLoad
<1>21. CASE TickStore
  BY <1>21 DEF TickStore
<1>22. CASE TickFnd
  BY <1>22 DEF TickFnd
<1>23. CASE TickEnd
  BY <1>23 DEF TickEnd, Queued
<1>24. CASE Work
  BY <1>24 DEF Work, write_device
<1>25. CASE UNCHANGED vars
  BY <1>25 DEF vars
<1> QED
  BY <1>1, <1>2, <1>3, <1>4, <1>5, <1>6, <1>7, <1>8, <1>9, <1>10, <1>11, <1>12, <1>13,
     <1>14, <1>15, <1>16, <1>17, <1>18, <1>19, <1>20, <1>21, <1>22, <1>23, <1>24, <1>25, Actions

\* When the module is gone no timer, no handler and no work of it is left, also after a
\* signal has left the timer set.
THEOREM GoneStaysQuiet == Spec => []GoneIsQuiet
<1>1. Init => Leaving
  BY DEF Init, Leaving
<1>2. Types /\ Leaving /\ [Next]_vars => Leaving'
  BY NextLeaving
<1>3. Leaving => GoneIsQuiet
  BY DEF Leaving, GoneIsQuiet
<1> QED
  BY <1>1, <1>2, <1>3, AlwaysTypes, PTL DEF Spec

----------------------------------------------------------------------------
(* VOL DOWN.                                                               *)

\* The handler sees every edge of a registered key before the next one, so that
\* start_time is old exactly when the key was held for three seconds.
Press ==
  /\ ~Registered => ~edge
  /\ edge /\ down => held = "short"
  /\ edge /\ ~down /\ start_time = "old" => held = "long"
  /\ ~edge /\ down /\ Registered => (start_time = "old" <=> held = "long")
  /\ halted = "long"

\* The key may move only between two runs of its handler.
LEMMA NextPress ==
  ASSUME CleanKey, Types, Press, [Next]_vars
  PROVE  Press'
<1> USE DEF Types, Labels, AppLabel, Flags, Press, Registered, watch, timer, work, voldown
<1>1. CASE inter_open
  BY <1>1 DEF inter_open
<1>2. CASE Interrupted
  BY <1>2 DEF Interrupted
<1>3. CASE ExitTimer
  BY <1>3 DEF ExitTimer, TimerDeleted
<1>4. CASE ExitQueue
  BY <1>4 DEF ExitQueue
<1>5. CASE inter_handler1
  BY <1>5 DEF inter_handler1, Handling
<1>6. CASE inter_handler2
  BY <1>6 DEF inter_handler2, Handling
<1>7. CASE MoveKey
  BY <1>7 DEF MoveKey
<1>8. CASE ThreeSeconds
  BY <1>8 DEF ThreeSeconds
<1>9. CASE WriteClear
  BY <1>9 DEF WriteClear, Cleared
<1>10. CASE WriteRead
  BY <1>10 DEF WriteRead
<1>11. CASE WriteOut
  BY <1>11 DEF WriteOut
<1>12. CASE WriteArm
  BY <1>12 DEF WriteArm
<1>13. CASE WriteSleep
  BY <1>13 DEF WriteSleep
<1>14. CASE inter_release
  <2>1. CASE app = "written"
    BY <1>14, <2>1 DEF inter_release
  <2>2. CASE app = "freeing"
    BY <1>14, <2>2 DEF inter_release
  <2> QED
    BY <1>14, <2>1, <2>2 DEF inter_release
<1>15. CASE VolUp
  BY <1>15 DEF VolUp, inter_handler3, Handling
<1>16. CASE inter_handler4
  BY <1>16 DEF inter_handler4, IsLong, Handling
<1>17. CASE TickHalt
  BY <1>17 DEF TickHalt, WakenUp, StaysOff, Due
<1>18. CASE TickStopped
  BY <1>18 DEF TickStopped, vars
<1>19. CASE TickStart
  BY <1>19 DEF TickStart, Due, Counts
<1>20. CASE TickLoad
  BY <1>20 DEF TickLoad
<1>21. CASE TickStore
  BY <1>21 DEF TickStore
<1>22. CASE TickFnd
  BY <1>22 DEF TickFnd
<1>23. CASE TickEnd
  BY <1>23 DEF TickEnd, Queued
<1>24. CASE Work
  BY <1>24 DEF Work, write_device
<1>25. CASE UNCHANGED vars
  BY <1>25 DEF vars
<1> QED
  BY <1>1, <1>2, <1>3, <1>4, <1>5, <1>6, <1>7, <1>8, <1>9, <1>10, <1>11, <1>12, <1>13,
     <1>14, <1>15, <1>16, <1>17, <1>18, <1>19, <1>20, <1>21, <1>22, <1>23, <1>24, <1>25, Actions

\* If VOL DOWN is up when the device is opened and its handler keeps up with the key,
\* the stopwatch terminates only after it was held for three seconds.
THEOREM HaltsAfterLongPress ==
  ASSUME CleanKey
  PROVE  Spec => []HaltNeedsLongPress
<1>1. Init => Press
  BY DEF Init, Press, Registered
<1>2. Types /\ Press /\ [Next]_vars => Press'
  BY NextPress
<1>3. Press => HaltNeedsLongPress
  BY DEF Press, HaltNeedsLongPress
<1> QED
  BY <1>1, <1>2, <1>3, AlwaysTypes, PTL DEF Spec

----------------------------------------------------------------------------
(* The devices.                                                            *)

Blank == <<Zero, 0>>

\* Outside of a run everything is cleared, and what the work queue still holds is
\* cleared too; only a display that inter_write has not written yet is older.
Reset == fnd = Zero /\ ticker = 0
BlankOutside ==
  /\ app \notin {"armed", "asleep"} =>
       /\ pending \/ isr = "stop" => Reset
       /\ isr = "ticker" => fnd = Zero
       /\ worker = "out" => read = Blank
  /\ app \notin {"armed", "asleep", "woken"} => Reset
  /\ app \in {"out", "out again"} => appread = Blank
  /\ app \in {"arm", "written", "freeing", "closed", "exiting", "gone"} => shown = Blank

\* In a run whoever changes the stopwatch has not queued its work yet, or the work
\* that is pending or running shows the change.
Catching == isr # "idle" \/ tick # "idle" \/ pending
CatchesUp ==
  app \in {"armed", "asleep"} /\ ~Catching =>
    IF worker = "out" THEN read = Current ELSE shown = Current

DisplayInv == BlankOutside /\ CatchesUp

\* 0 is shown as 0 on the dot matrix.
LEMMA ResetIsBlank == Reset => Current = Blank
  BY DEF Reset, Current, Blank

\* Outside of a run only VOL UP works on the stopwatch, and the timer handler leaves no
\* work behind when it ends a run (WorkInTime).
LEMMA NextBlankOutside ==
  ASSUME WorkInTime, ~Signals, Types, Owner, BlankOutside, [Next]_vars
  PROVE  BlankOutside'
<1> USE DEF Types, Labels, AppLabel, Flags, Owner, BlankOutside, Reset, Registered,
            watch, timer, work, voldown
<1>1. CASE inter_open
  BY <1>1 DEF inter_open
<1>2. CASE Interrupted
  BY <1>2 DEF Interrupted
<1>3. CASE ExitTimer
  BY <1>3 DEF ExitTimer, TimerDeleted
<1>4. CASE ExitQueue
  BY <1>4 DEF ExitQueue
<1>5. CASE inter_handler1
  BY <1>5 DEF inter_handler1, Handling
<1>6. CASE inter_handler2
  BY <1>6 DEF inter_handler2, Handling
<1>7. CASE MoveKey
  BY <1>7 DEF MoveKey
<1>8. CASE ThreeSeconds
  BY <1>8 DEF ThreeSeconds
<1>9. CASE WriteClear
  BY <1>9 DEF WriteClear, Cleared
<1>10. CASE WriteRead
  BY <1>10, ResetIsBlank DEF WriteRead
<1>11. CASE WriteOut
  BY <1>11 DEF WriteOut
<1>12. CASE WriteArm
  BY <1>12 DEF WriteArm
<1>13. CASE WriteSleep
  BY <1>13 DEF WriteSleep
<1>14. CASE inter_release
  BY <1>14 DEF inter_release
<1>15. CASE VolUp
  <2>1. CASE isr = "idle"
    <3>1. /\ fnd' = Zero /\ isr' = "ticker"
          /\ UNCHANGED <<app, ticker, pending, worker, read, appread, shown>>
      BY <1>15, <2>1 DEF VolUp, inter_handler3
    <3> QED
      BY <2>1, <3>1
  <2>2. CASE isr = "ticker"
    BY <1>15, <2>2 DEF VolUp, inter_handler3, Handling
  <2>3. CASE isr = "stop"
    BY <1>15, <2>3 DEF VolUp, inter_handler3, Handling
  <2> QED
    BY <2>1, <2>2, <2>3
<1>16. CASE inter_handler4
  BY <1>16 DEF inter_handler4, IsLong, Handling
<1>17. CASE TickHalt
  BY <1>17 DEF TickHalt, WakenUp, StaysOff, Due
<1>18. CASE TickStopped
  BY <1>18 DEF TickStopped, vars
<1>19. CASE TickStart
  BY <1>19 DEF TickStart, Due, Counts
<1>20. CASE TickLoad
  BY <1>20 DEF TickLoad
<1>21. CASE TickStore
  BY <1>21 DEF TickStore
<1>22. CASE TickFnd
  BY <1>22 DEF TickFnd
<1>23. CASE TickEnd
  BY <1>23 DEF TickEnd, Queued
<1>24. CASE Work
  <2>1. CASE worker = "idle"
    BY <1>24, <2>1, ResetIsBlank DEF Work, write_device
  <2>2. CASE worker = "out"
    <3>1. /\ shown' = read /\ worker' = "idle"
          /\ UNCHANGED <<app, fnd, ticker, isr, pending, read, appread>>
      BY <1>24, <2>2 DEF Work, write_device
    <3> QED
      BY <2>2, <3>1
  <2> QED
    BY <2>1, <2>2
<1>25. CASE UNCHANGED vars
  BY <1>25 DEF vars
<1> QED
  BY <1>1, <1>2, <1>3, <1>4, <1>5, <1>6, <1>7, <1>8, <1>9, <1>10, <1>11, <1>12, <1>13,
     <1>14, <1>15, <1>16, <1>17, <1>18, <1>19, <1>20, <1>21, <1>22, <1>23, <1>24, <1>25, Actions

\* In a run the last to change the stopwatch queues the work.
LEMMA NextCatchesUp ==
  ASSUME WorkInTime, ~Signals, Types, Owner, DisplayInv, [Next]_vars
  PROVE  CatchesUp'
<1> USE DEF Types, Labels, AppLabel, Flags, Owner, DisplayInv, BlankOutside, CatchesUp,
            Catching, Current, Blank, Registered, watch, timer, work, voldown
<1>1. CASE inter_open
  BY <1>1 DEF inter_open
<1>2. CASE Interrupted
  BY <1>2 DEF Interrupted
<1>3. CASE ExitTimer
  BY <1>3 DEF ExitTimer, TimerDeleted
<1>4. CASE ExitQueue
  BY <1>4 DEF ExitQueue
<1>5. CASE inter_handler1
  BY <1>5 DEF inter_handler1, Handling
<1>6. CASE inter_handler2
  BY <1>6 DEF inter_handler2, Handling
<1>7. CASE MoveKey
  BY <1>7 DEF MoveKey
<1>8. CASE ThreeSeconds
  BY <1>8 DEF ThreeSeconds
<1>9. CASE WriteClear
  BY <1>9 DEF WriteClear, Cleared
<1>10. CASE WriteRead
  BY <1>10 DEF WriteRead
<1>11. CASE WriteOut
  BY <1>11 DEF WriteOut
<1>12. CASE WriteArm
  BY <1>12, ResetIsBlank DEF WriteArm
<1>13. CASE WriteSleep
  BY <1>13 DEF WriteSleep
<1>14. CASE inter_release
  BY <1>14 DEF inter_release
<1>15. CASE VolUp
  BY <1>15 DEF VolUp, inter_handler3, Handling
<1>16. CASE inter_handler4
  BY <1>16 DEF inter_handler4, IsLong, Handling
<1>17. CASE TickHalt
  BY <1>17 DEF TickHalt, WakenUp, StaysOff, Due
<1>18. CASE TickStopped
  BY <1>18 DEF TickStopped, vars
<1>19. CASE TickStart
  BY <1>19 DEF TickStart, Due, Counts
<1>20. CASE TickLoad
  BY <1>20 DEF TickLoad
<1>21. CASE TickStore
  BY <1>21 DEF TickStore
<1>22. CASE TickFnd
  BY <1>22 DEF TickFnd
<1>23. CASE TickEnd
  BY <1>23 DEF TickEnd, Queued
<1>24. CASE Work
  BY <1>24 DEF Work, write_device
<1>25. CASE UNCHANGED vars
  BY <1>25 DEF vars
<1> QED
  BY <1>1, <1>2, <1>3, <1>4, <1>5, <1>6, <1>7, <1>8, <1>9, <1>10, <1>11, <1>12, <1>13,
     <1>14, <1>15, <1>16, <1>17, <1>18, <1>19, <1>20, <1>21, <1>22, <1>23, <1>24, <1>25, Actions

\* If the work keeps up with the timer and no signal comes, no update of the display is
\* lost to work that was already queued or overwritten by an older one.
THEOREM DisplayIsCurrent ==
  ASSUME WorkInTime, ~Signals
  PROVE  Spec => []DisplayCurrent
<1>1. Init => Owner /\ DisplayInv
  BY DEF Init, Owner, DisplayInv, BlankOutside, Reset, CatchesUp, Catching, Current, Blank
<1>2. Types /\ Owner /\ DisplayInv /\ [Next]_vars => Owner' /\ DisplayInv'
  BY NextOwner, NextBlankOutside, NextCatchesUp DEF DisplayInv
<1>3. DisplayInv => DisplayCurrent
  BY ResetIsBlank DEF DisplayInv, BlankOutside, CatchesUp, Catching, DisplayCurrent
<1> QED
  BY <1>1, <1>2, <1>3, AlwaysTypes, PTL DEF Spec

----------------------------------------------------------------------------
(* The digits of the FND.                                                  *)

\* Quotient and remainder belong together.
LEMMA DivMod10 ==
  ASSUME NEW n \in Nat
  PROVE  \E q \in Nat, r \in 0..9 : q = n \div 10 /\ r = n % 10 /\ n = 10 * q + r
<1> DEFINE q == n \div 10
<1>1. q \in Nat /\ 10 * q <= n /\ n < 10 * q + 10
  OBVIOUS
<1> HIDE DEF q
<1>2. PICK r \in 0..9 : n = 10 * q + r
  <2>1. n - 10 * q \in 0..9 /\ n = 10 * q + (n - 10 * q)
    BY <1>1
  <2> QED
    BY <2>1, Zenon
<1>3. n % 10 = r
  BY <1>1, <1>2
<1> QED
  BY <1>1, <1>2, <1>3, Zenon DEF q

\* Seconds split into minutes and seconds, and each into its two digits.
LEMMA DivMod60 ==
  ASSUME NEW n \in Nat
  PROVE  \E q \in Nat, r \in 0..59 : q = n \div 60 /\ r = n % 60 /\ n = 60 * q + r
<1> DEFINE q == n \div 60
<1>1. q \in Nat /\ 60 * q <= n /\ n < 60 * q + 60
  OBVIOUS
<1> HIDE DEF q
<1>2. PICK r \in 0..59 : n = 60 * q + r
  <2>1. n - 60 * q \in 0..59 /\ n = 60 * q + (n - 60 * q)
    BY <1>1
  <2> QED
    BY <2>1, Zenon
<1>3. n % 60 = r
  BY <1>1, <1>2
<1> QED
  BY <1>1, <1>2, <1>3, Zenon DEF q

\* A time of q seconds is below n seconds exactly when its ticks are (TicksPerSecond).
LEMMA Seconds ==
  ASSUME NEW t \in Nat, NEW T \in Nat \ {0}, NEW n \in Nat
  PROVE  /\ t \div T \in Nat
         /\ t < n * T => t \div T < n
         /\ t >= n * T => t \div T >= n
<1> DEFINE q == t \div T
<1>1. q \in Nat /\ T * q <= t /\ t < T * q + T
  OBVIOUS
<1> HIDE DEF q
<1>2. ASSUME q >= n
      PROVE  t >= n * T
  <2>1. q - n \in Nat
    BY <1>1, <1>2
  <2>2. T * q = n * T + T * (q - n)
    BY <1>1
  <2>3. T * (q - n) \in Nat
    BY <2>1
  <2> QED
    BY <1>1, <2>2, <2>3
<1>3. ASSUME q < n
      PROVE  t < n * T
  <2>1. n - (q + 1) \in Nat
    BY <1>1, <1>3
  <2>2. n * T = T * q + T + T * (n - (q + 1))
    BY <1>1
  <2>3. T * (n - (q + 1)) \in Nat /\ T * q \in Nat /\ n * T \in Nat
    BY <1>1, <2>1
  <2> QED
    BY <1>1, <2>2, <2>3
<1>4. n * T \in Nat
  OBVIOUS
<1> QED
  BY <1>1, <1>2, <1>3, <1>4 DEF q

\* Four digits, and the seconds that they stand for (the nibbles of the word that
\* fpga_timer_handler writes into fnd).
Nibbles(f) == f \in Seq(0..9) /\ Len(f) = 4
Shows(f, s) == 600 * f[1] + 60 * f[2] + 10 * f[3] + f[4] = s

\* Below 100 minutes the digits of fnd are digits and make up the seconds.
LEMMA FndDigits ==
  ASSUME NEW t \in Nat, t < 6000 * TicksPerSecond
  PROVE  Nibbles(Fnd(t)) /\ Shows(Fnd(t), t \div TicksPerSecond)
<1> DEFINE s == t \div TicksPerSecond
<1>1. s \in Nat /\ s < 6000
  BY Seconds, StopwatchAssumption
<1>2. Fnd(t) = <<Byte((s \div 60) \div 10), (s \div 60) % 10, (s % 60) \div 10, (s % 60) % 10>>
  BY DEF Fnd
<1> HIDE DEF s
<1>3. PICK m \in Nat, r \in 0..59 : m = s \div 60 /\ r = s % 60 /\ s = 60 * m + r
  <2>1. s \in Nat
    BY <1>1
  <2> QED
    BY <2>1, DivMod60
<1>4. m \in 0..99
  BY <1>1, <1>3
<1>5. PICK a \in Nat, b \in 0..9 : a = m \div 10 /\ b = m % 10 /\ m = 10 * a + b
  BY DivMod10
<1>6. PICK c \in Nat, d \in 0..9 : c = r \div 10 /\ d = r % 10 /\ r = 10 * c + d
  BY DivMod10
<1>7. Fnd(t) = <<Byte(a), b, c, d>>
  <2>1. m = s \div 60 /\ r = s % 60
    BY <1>3
  <2>2. a = m \div 10 /\ b = m % 10 /\ c = r \div 10 /\ d = r % 10
    BY <1>5, <1>6
  <2>3. Fnd(t) = <<Byte(m \div 10), m % 10, r \div 10, r % 10>>
    BY <1>2, <2>1
  <2> QED
    BY <2>2, <2>3
<1>8. a \in 0..9 /\ c \in 0..9 /\ s = 600 * a + 60 * b + 10 * c + d
  <2>1. m = 10 * a + b /\ r = 10 * c + d /\ s = 60 * m + r
    BY <1>3, <1>5, <1>6
  <2> QED
    BY <1>4, <2>1
<1>9. Byte(a) = a
  BY <1>8 DEF Byte
<1>10. Fnd(t) = <<a, b, c, d>>
  BY <1>7, <1>9
<1>11. Nibbles(Fnd(t)) /\ Shows(Fnd(t), s)
  BY <1>8, <1>10 DEF Nibbles, Shows
<1> QED
  BY <1>11 DEF s

\* No handler counts beyond the bound, also when ticker is cleared under it.
Bounded ==
  /\ ticker <= MaxTicker
  /\ tick = "load" => ticker < MaxTicker
  /\ tick = "store" => tmp < MaxTicker
  /\ Nibbles(fnd)

\* The digits of a stopwatch that was cleared.
LEMMA ZeroDigits == Nibbles(Zero)
  BY DEF Nibbles, Zero

\* What a step does to the time: nothing, clear it in one or two steps, or a step of
\* the timer handler.
LEMMA NextTime ==
  ASSUME [Next]_vars
  PROVE  \/ UNCHANGED <<ticker, tick, tmp, fnd>>
         \/ fnd' \in {fnd, Zero} /\ ticker' \in {ticker, 0} /\ UNCHANGED <<tick, tmp>>
         \/ TickStart \/ TickLoad \/ TickStore \/ TickFnd \/ TickEnd
<1> USE DEF watch, timer, work, voldown
<1>1. CASE inter_open
  BY <1>1 DEF inter_open
<1>2. CASE Interrupted
  BY <1>2 DEF Interrupted
<1>3. CASE ExitTimer
  BY <1>3 DEF ExitTimer, TimerDeleted
<1>4. CASE ExitQueue
  BY <1>4 DEF ExitQueue
<1>5. CASE inter_handler1
  BY <1>5 DEF inter_handler1, Handling
<1>6. CASE inter_handler2
  BY <1>6 DEF inter_handler2, Handling
<1>7. CASE MoveKey
  BY <1>7 DEF MoveKey
<1>8. CASE ThreeSeconds
  BY <1>8 DEF ThreeSeconds
<1>9. CASE WriteClear
  BY <1>9 DEF WriteClear, Cleared
<1>10. CASE WriteRead
  BY <1>10 DEF WriteRead
<1>11. CASE WriteOut
  BY <1>11 DEF WriteOut
<1>12. CASE WriteArm
  BY <1>12 DEF WriteArm
<1>13. CASE WriteSleep
  BY <1>13 DEF WriteSleep
<1>14. CASE inter_release
  BY <1>14 DEF inter_release
<1>15. CASE VolUp
  BY <1>15 DEF VolUp, inter_handler3, Handling
<1>16. CASE inter_handler4
  BY <1>16 DEF inter_handler4, IsLong, Handling
<1>17. CASE TickHalt
  BY <1>17 DEF TickHalt, WakenUp, StaysOff, Due
<1>18. CASE TickStopped
  BY <1>18 DEF TickStopped, vars
<1>19. CASE TickStart
  BY <1>19
<1>20. CASE TickLoad
  BY <1>20
<1>21. CASE TickStore
  BY <1>21
<1>22. CASE TickFnd
  BY <1>22
<1>23. CASE TickEnd
  BY <1>23
<1>24. CASE Work
  BY <1>24 DEF Work, write_device
<1>25. CASE UNCHANGED vars
  BY <1>25 DEF vars
<1> QED
  BY <1>1, <1>2, <1>3, <1>4, <1>5, <1>6, <1>7, <1>8, <1>9, <1>10, <1>11, <1>12, <1>13,
     <1>14, <1>15, <1>16, <1>17, <1>18, <1>19, <1>20, <1>21, <1>22, <1>23, <1>24, <1>25, Actions

\* A tick stores the digits of a time below the bound, a reset stores zeros.
LEMMA NextBounded ==
  ASSUME MaxTicker < 6000 * TicksPerSecond, Types, Bounded, [Next]_vars
  PROVE  Bounded'
<1>1. MaxTicker \in Nat /\ TicksPerSecond \in Nat /\ ticker \in Nat /\ tmp \in Nat
  BY StopwatchAssumption DEF Types, Numbers
<1>2. CASE UNCHANGED <<ticker, tick, tmp, fnd>>
  BY <1>2 DEF Bounded
<1>3. CASE fnd' \in {fnd, Zero} /\ ticker' \in {ticker, 0} /\ UNCHANGED <<tick, tmp>>
  BY <1>1, <1>3, ZeroDigits DEF Bounded
<1>4. CASE TickStart
  BY <1>1, <1>4 DEF TickStart, Bounded, watch
<1>5. CASE TickLoad
  BY <1>1, <1>5 DEF TickLoad, Bounded, watch
<1>6. CASE TickStore
  BY <1>1, <1>6 DEF TickStore, Bounded
<1>7. CASE TickFnd
  <2>1. ticker < 6000 * TicksPerSecond
    BY <1>1 DEF Bounded
  <2>2. Nibbles(Fnd(ticker))
    BY <1>1, <2>1, FndDigits
  <2> QED
    BY <1>7, <2>2 DEF TickFnd, Bounded
<1>8. CASE TickEnd
  BY <1>8 DEF TickEnd, Bounded, watch
<1> QED
  BY <1>2, <1>3, <1>4, <1>5, <1>6, <1>7, <1>8, NextTime

\* For as long as less than 100 minutes are counted (MaxTicker), every nibble of the
\* word that write_device puts on the FND is a digit.
THEOREM DigitsFit ==
  ASSUME MaxTicker < 6000 * TicksPerSecond
  PROVE  Spec => []Nibbles(fnd)
<1>1. Init => Bounded
  BY ZeroDigits, StopwatchAssumption DEF Init, Bounded
<1>2. Types /\ Bounded /\ [Next]_vars => Bounded'
  BY NextBounded
<1>3. Bounded => Nibbles(fnd)
  BY DEF Bounded
<1> QED
  BY <1>1, <1>2, <1>3, AlwaysTypes, PTL DEF Spec

=============================================================================
