----------------------------- MODULE Interrupts ----------------------------
(***************************************************************************)
(* The interrupt driver of pra6: write puts the application to sleep until *)
(* the fifth interrupt of VOL UP.  The other three buttons only print.     *)
(***************************************************************************)
EXTENDS Integers, FiniteSetsExt

CONSTANT Sleepers   \* the processes that run intertest

VARIABLES
  sleeper,         \* where each process is
  interruptCount,
  requested,       \* the interrupts have their handlers
  level,           \* VOL UP, 1 while it is not pressed
  presses,         \* history: rising edges since a process has tested the count, up to 5
  early,           \* history: a process was woken before the fifth of them
  shared           \* history: the device was opened while it was open

interVars == <<sleeper, interruptCount, requested, level, presses, early, shared>>

InterInit ==
  /\ sleeper = [a \in Sleepers |-> "closed"]
  /\ interruptCount = 0 /\ requested = FALSE /\ level = 1
  /\ presses = [a \in Sleepers |-> 0] /\ early = FALSE /\ shared = FALSE

Goes(a, from, to) == sleeper[a] = from /\ sleeper' = [sleeper EXCEPT ![a] = to]
Nobody(S) == \A a \in Sleepers : S[a] = "closed"

----------------------------------------------------------------------------
(* The processes.                                                          *)

\* request_irq fails for interrupts that have a handler; the result is not looked at.
inter_open(a) ==
  /\ Goes(a, "closed", "write")
  /\ requested' = TRUE
  /\ shared' = (shared \/ ~Nobody(sleeper))
  /\ UNCHANGED <<interruptCount, level, presses, early>>

\* With interrupts already counted write returns at once.  The count is tested and
\* the process put to sleep in two steps (mutant: it always sleeps).
SleepsAlways == TRUE
Sleeps == interruptCount = 0
inter_write(a) ==
  /\ Goes(a, "write", IF Sleeps THEN "sleep_on" ELSE "close")
  /\ presses' = [presses EXCEPT ![a] = 0]
  /\ UNCHANGED <<interruptCount, requested, level, early, shared>>
interruptible_sleep_on(a) ==
  /\ Goes(a, "sleep_on", "asleep")
  /\ UNCHANGED <<interruptCount, requested, level, presses, early, shared>>
Signal(a) ==
  /\ Goes(a, "asleep", "close")
  /\ UNCHANGED <<interruptCount, requested, level, presses, early, shared>>

\* free_irq frees the handlers, whoever has requested them; the count stays.
inter_release(a) ==
  /\ Goes(a, "close", "closed")
  /\ requested' = FALSE
  /\ shared' = (shared /\ ~Nobody(sleeper'))
  /\ UNCHANGED <<interruptCount, level, presses, early>>

Process(a) == inter_write(a) \/ interruptible_sleep_on(a) \/ inter_release(a)

----------------------------------------------------------------------------
(* VOL UP.                                                                 *)

Down ==
  /\ level = 1
  /\ level' = 0
  /\ UNCHANGED <<sleeper, interruptCount, requested, presses, early, shared>>

\* The count starts again with the fifth.  sleep_on waits without
\* WQ_FLAG_EXCLUSIVE, so that __wake_up wakes all who sleep.  (mutant: the count is
\* reset before it is tested)
CountAfter == IF interruptCount + 1 >= 5 THEN 0 ELSE interruptCount + 1
FifthAfterReset == CountAfter >= 5
Fifth == interruptCount + 1 >= 5
inter_handler3 ==
  /\ interruptCount' = CountAfter
  /\ sleeper' = [a \in Sleepers |->
                   IF Fifth /\ sleeper[a] = "asleep" THEN "close" ELSE sleeper[a]]
  /\ early' = (early \/ \E a \in Sleepers : sleeper'[a] # sleeper[a] /\ presses'[a] < 5)

Rising ==
  /\ level = 0
  /\ level' = 1
  /\ presses' = [a \in Sleepers |-> Min({presses[a] + 1, 5})]
  /\ IF requested THEN inter_handler3 ELSE UNCHANGED <<sleeper, interruptCount, early>>
  /\ UNCHANGED <<requested, shared>>

InterNext ==
  \/ Down \/ Rising
  \/ \E a \in Sleepers : inter_open(a) \/ Process(a) \/ Signal(a)

----------------------------------------------------------------------------
(* Properties.                                                             *)

\* The handler wakes nobody before the fifth press since it asked to sleep, whatever
\* was pressed between the runs, between the test of the count and the sleep, and
\* whoever else has the device open.
FivePresses == ~early

\* As long as VOL UP is pressed again and again every process that has opened the
\* device returns, also when the fifth press came before it slept, unless the device
\* is opened twice: then the first to close it takes away the other's handler.
Pressed == []<>(level = 0) /\ []<>(level = 1)
Wakes ==
  Pressed => \A a \in Sleepers : sleeper[a] # "closed" ~> sleeper[a] = "closed" \/ shared

=============================================================================
