----------------------------- MODULE Stopwatch -----------------------------
(***************************************************************************)
(* The stopwatch driver of hw3 and its application.  Five actors share     *)
(* stopwatch_data without a lock:                                          *)
(*   - the application, in open, write (where it sleeps) and release;      *)
(*   - the handlers of the four buttons, on one processor, one at a time;  *)
(*   - the timer handler, ten times a second;                              *)
(*   - the work queue, which copies fnd and ticker to the devices;         *)
(*   - the user.                                                           *)
(* A step is what one actor does between two accesses to shared data that  *)
(* another can get in between.                                             *)
(***************************************************************************)
EXTENDS Integers, Sequences

CONSTANTS
  TicksPerSecond,  \* ticks shown as a second on the FND, 10 in the code
  MaxTicker,       \* bound: ticks that are counted
  MaxRuns,         \* bound: how often the application is started
  Signals,         \* a signal may wake the application
  SleepsInTime,    \* write reaches its sleep before the first tick
  WorkInTime,      \* button handlers and the work queue end before the next tick
  CleanKey         \* VOL DOWN is up when the device is opened, and its handler
                   \* runs before the key moves again

ASSUME StopwatchAssumption ==
  /\ TicksPerSecond \in Nat \ {0} /\ MaxTicker \in Nat /\ MaxRuns \in Nat
  /\ Signals \in BOOLEAN /\ SleepsInTime \in BOOLEAN
  /\ WorkInTime \in BOOLEAN /\ CleanKey \in BOOLEAN

VARIABLES
  app, runs,                        \* where the application is, how often it ran
  fnd, ticker, is_stop, is_halt,    \* stopwatch_data
  armed, tick, tmp,                 \* the timer, its handler and its register
  isr,                              \* the handler of VOL UP
  pending, worker, read, appread,   \* the work, the queue, what both have read
  shown,                            \* what the FND and the dot matrix show
  down, edge, start_time,           \* VOL DOWN: its level, its interrupt, its time
  held,                             \* history: how long VOL DOWN was held
  late,                             \* history: ticks counted since the time stopped
  halted                            \* history: the press that set is_halt

watch == <<fnd, ticker, is_stop, is_halt, late>>
timer == <<armed, tick, tmp>>
work == <<pending, worker, read>>
voldown == <<down, edge, start_time, held, halted>>
vars == <<app, runs, watch, timer, isr, work, appread, shown, voldown>>

\* The four digits: minutes and seconds.  They are bytes, which only the first, the
\* tens of minutes, outgrows.
Byte(n) == n % 256
Fnd(t) == LET s == t \div TicksPerSecond
          IN  <<Byte((s \div 60) \div 10), (s \div 60) % 10, (s % 60) \div 10, (s % 60) % 10>>
Zero == <<0, 0, 0, 0>>

\* What write_device reads for the FND and for the dot matrix.
Current == <<fnd, ticker % 10>>

Init ==
  /\ app = "closed" /\ runs = 0
  /\ fnd = Zero /\ ticker = 0 /\ is_stop = FALSE /\ is_halt = FALSE
  /\ armed = FALSE /\ tick = "idle" /\ tmp = 0
  /\ isr = "idle"
  /\ pending = FALSE /\ worker = "idle" /\ read = <<Zero, 0>> /\ appread = <<Zero, 0>>
  /\ shown = <<Zero, 0>>
  /\ down \in BOOLEAN
  /\ edge = FALSE /\ start_time = "old" /\ held = "short"
  /\ late = 0 /\ halted = "long"

----------------------------------------------------------------------------
(* The application.                                                        *)

Registered == app \notin {"freeing", "closed", "exiting", "gone"}

\* request_irq for the four buttons.
inter_open ==
  /\ app = "closed" /\ runs < MaxRuns
  /\ CleanKey => ~down
  /\ app' = "open"
  /\ runs' = runs + 1
  /\ UNCHANGED <<watch, timer, isr, work, appread, shown, voldown>>

\* inter_write clears the stopwatch when it starts and when it wakes up.
Cleared ==
  /\ fnd' = Zero /\ ticker' = 0 /\ is_stop' = TRUE /\ is_halt' = FALSE
  /\ late' = 0
WriteClear ==
  /\ \/ app = "open" /\ app' = "show"
     \/ app = "woken" /\ app' = "show again"
  /\ Cleared
  /\ UNCHANGED <<runs, timer, isr, work, appread, shown, voldown>>

\* write_device(NULL) in the application: what it reads, and what it writes.
WriteRead ==
  /\ \/ app = "show" /\ app' = "out"
     \/ app = "show again" /\ app' = "out again"
  /\ appread' = Current
  /\ UNCHANGED <<runs, watch, timer, isr, work, shown, voldown>>
WriteOut ==
  /\ \/ app = "out" /\ app' = "arm"
     \/ app = "out again" /\ app' = "written"
  /\ shown' = appread
  /\ UNCHANGED <<runs, watch, timer, isr, work, appread, voldown>>

WriteArm ==
  /\ app = "arm"
  /\ armed' = TRUE
  /\ app' = "armed"
  /\ UNCHANGED <<runs, watch, tick, tmp, isr, work, appread, shown, voldown>>

\* interruptible_sleep_on: a wake-up before this step is lost.
WriteSleep ==
  /\ app = "armed"
  /\ app' = "asleep"
  /\ UNCHANGED <<runs, watch, timer, isr, work, appread, shown, voldown>>

Interrupted ==
  /\ Signals
  /\ app = "asleep"
  /\ app' = "woken"
  /\ UNCHANGED <<runs, watch, timer, isr, work, appread, shown, voldown>>

\* free_irq: no handler starts any more; one that is running is waited for.
inter_release ==
  \/ /\ app = "written"
     /\ app' = "freeing"
     /\ edge' = FALSE
     /\ UNCHANGED <<runs, watch, timer, isr, work, appread, shown, down, start_time, held, halted>>
  \/ /\ app = "freeing" /\ isr = "idle"
     /\ app' = "closed"
     /\ UNCHANGED <<runs, watch, timer, isr, work, appread, shown, voldown>>

\* rmmod: del_timer_sync waits for the handler, destroy_workqueue for the work
\* (mutant: the timer is not deleted).
TimerKept == armed
TimerDeleted == FALSE
ExitTimer ==
  /\ app = "closed"
  /\ tick = "idle"
  /\ armed' = TimerDeleted
  /\ app' = "exiting"
  /\ UNCHANGED <<runs, watch, tick, tmp, isr, work, appread, shown, voldown>>
ExitQueue ==
  /\ app = "exiting"
  /\ ~pending /\ worker = "idle"
  /\ app' = "gone"
  /\ UNCHANGED <<runs, watch, timer, isr, work, appread, shown, voldown>>

----------------------------------------------------------------------------
(* The buttons.                                                            *)

Handling == Registered /\ isr = "idle"

\* HOME starts and BACK stops the time.
inter_handler1 ==
  /\ Handling
  /\ is_stop' = FALSE /\ late' = 0
  /\ UNCHANGED <<app, runs, fnd, ticker, is_halt, timer, isr, work, appread, shown, voldown>>
inter_handler2 ==
  /\ Handling
  /\ is_stop' = TRUE
  /\ late' = IF is_stop THEN late ELSE 0
  /\ UNCHANGED <<app, runs, fnd, ticker, is_halt, timer, isr, work, appread, shown, voldown>>

\* VOL UP clears the stopwatch, field by field.
inter_handler3 ==
  \/ /\ Handling
     /\ fnd' = Zero
     /\ isr' = "ticker"
     /\ UNCHANGED <<ticker, is_stop, late, pending>>
  \/ /\ isr = "ticker"
     /\ ticker' = 0
     /\ isr' = "stop"
     /\ UNCHANGED <<fnd, is_stop, late, pending>>
  \/ /\ isr = "stop"
     /\ is_stop' = TRUE
     /\ late' = IF is_stop THEN late ELSE 0
     /\ pending' = TRUE
     /\ isr' = "idle"
     /\ UNCHANGED <<fnd, ticker>>
VolUp ==
  /\ inter_handler3
  /\ UNCHANGED <<app, runs, is_halt, timer, worker, read, appread, shown, voldown>>

\* VOL DOWN: the handler looks at the level of the key, not at its edge
\* (mutant: it terminates at every key up).
IsLongAlways == TRUE
IsLong == start_time = "old"
inter_handler4 ==
  /\ Handling /\ edge
  /\ edge' = FALSE
  /\ IF down
     THEN start_time' = "recent" /\ UNCHANGED <<is_halt, halted>>
     ELSE /\ is_halt' = (is_halt \/ IsLong)
          /\ halted' = IF IsLong /\ ~is_halt THEN held ELSE halted
          /\ UNCHANGED start_time
  /\ UNCHANGED <<app, runs, fnd, ticker, is_stop, late, timer, isr, work, appread, shown,
                 down, held>>

\* The user presses or releases VOL DOWN, or three seconds pass.
MoveKey ==
  /\ CleanKey => ~edge
  /\ down' = ~down
  /\ edge' = Registered
  /\ held' = IF down THEN held ELSE "short"
  /\ UNCHANGED <<app, runs, watch, timer, isr, work, appread, shown, start_time, halted>>
ThreeSeconds ==
  /\ CleanKey => ~edge
  /\ start_time = "recent" \/ (down /\ held = "short")
  /\ start_time' = "old"
  /\ held' = IF down THEN "long" ELSE held
  /\ UNCHANGED <<app, runs, watch, timer, isr, work, appread, shown, down, edge, halted>>

----------------------------------------------------------------------------
(* The timer handler.                                                      *)

Due ==
  /\ armed /\ tick = "idle"
  /\ SleepsInTime => app # "armed"
  /\ WorkInTime => isr = "idle" /\ ~pending /\ worker = "idle"

\* is_halt: the handler wakes the application and returns (mutant: it goes on to
\* set the timer again).
RearmsHalted == TRUE
StaysOff == FALSE

\* __wake_up reaches the application if it sleeps (mutant: it is not called).
Undisturbed(a) == a
WakenUp(a) == IF a = "asleep" THEN "woken" ELSE a

TickHalt ==
  /\ Due /\ is_halt
  /\ app' = WakenUp(app)
  /\ armed' = StaysOff
  /\ UNCHANGED <<runs, watch, tick, tmp, isr, work, appread, shown, voldown>>

\* is_stop: the timer is set again and nothing else happens.
TickStopped ==
  /\ Due /\ ~is_halt /\ is_stop
  /\ UNCHANGED vars

\* The handler counts (mutant: also while the time is stopped).
CountsAlways == TRUE
Counts == ~is_stop
TickStart ==
  /\ Due /\ ~is_halt /\ Counts
  /\ ticker < MaxTicker
  /\ armed' = FALSE
  /\ tick' = "load"
  /\ UNCHANGED <<app, runs, watch, tmp, isr, work, appread, shown, voldown>>

\* ticker++ loads and stores; a button may come in between.
TickLoad ==
  /\ tick = "load"
  /\ tmp' = ticker
  /\ tick' = "store"
  /\ UNCHANGED <<app, runs, watch, armed, isr, work, appread, shown, voldown>>
TickStore ==
  /\ tick = "store"
  /\ ticker' = tmp + 1
  /\ late' = IF is_stop THEN late + 1 ELSE 0
  /\ tick' = "fnd"
  /\ UNCHANGED <<app, runs, fnd, is_stop, is_halt, armed, tmp, isr, work, appread, shown, voldown>>
TickFnd ==
  /\ tick = "fnd"
  /\ fnd' = Fnd(ticker)
  /\ tick' = "queue"
  /\ UNCHANGED <<app, runs, ticker, is_stop, is_halt, late, armed, tmp, isr, work, appread, shown, voldown>>
\* queue_work, then add_timer (mutant: the work is forgotten).
QueueForgotten == pending
Queued == TRUE
TickEnd ==
  /\ tick = "queue"
  /\ pending' = Queued
  /\ armed' = TRUE
  /\ tick' = "idle"
  /\ tmp' = 0
  /\ UNCHANGED <<app, runs, watch, isr, worker, read, appread, shown, voldown>>

fpga_timer_handler ==
  \/ TickHalt \/ TickStopped \/ TickStart \/ TickLoad \/ TickStore \/ TickFnd \/ TickEnd

----------------------------------------------------------------------------
(* The work queue: the work is no longer pending when write_device starts. *)
write_device ==
  \/ /\ pending /\ worker = "idle"
     /\ pending' = FALSE
     /\ read' = Current
     /\ worker' = "out"
     /\ UNCHANGED shown
  \/ /\ worker = "out"
     /\ shown' = read
     /\ worker' = "idle"
     /\ UNCHANGED <<pending, read>>
Work ==
  /\ write_device
  /\ UNCHANGED <<app, runs, watch, timer, isr, appread, voldown>>

Application ==
  \/ WriteClear \/ WriteRead \/ WriteOut \/ WriteArm \/ WriteSleep \/ inter_release
User ==
  \/ inter_open \/ Interrupted \/ ExitTimer \/ ExitQueue
  \/ inter_handler1 \/ inter_handler2 \/ MoveKey \/ ThreeSeconds

Next == User \/ Application \/ VolUp \/ inter_handler4 \/ fpga_timer_handler \/ Work

\* The application runs on once it has opened the device, interrupts are
\* handled, the timer expires and the queue works.  The user need not do anything.
Fairness ==
  /\ WF_vars(Application)
  /\ WF_vars(VolUp /\ isr # "idle")
  /\ WF_vars(inter_handler4)
  /\ WF_vars(fpga_timer_handler)
  /\ WF_vars(Work)

Spec == Init /\ [][Next]_vars /\ Fairness

----------------------------------------------------------------------------
(* Properties.                                                             *)

\* add_timer is never called for a timer that is pending, which the kernel
\* answers with BUG: not by inter_write, not by the handler.
AddTimerOnce ==
  /\ app = "arm" => ~armed /\ tick = "idle"
  /\ tick # "idle" => ~armed

\* When nobody is at work the devices show the stopwatch: no update is lost to a
\* work that was already queued, or overwritten by an older one.
DisplayCurrent ==
  /\ app \in {"asleep", "written", "closed", "gone"}
  /\ isr = "idle" /\ tick = "idle" /\ ~pending /\ worker = "idle"
  => shown = Current

\* After the application has returned the stopwatch does not go on.
QuietWhenClosed == ~Registered => ~armed /\ tick = "idle"

\* The timer has one owner at a time: the handler, inter_write, or nobody once the
\* application is gone.
TimerOwned == AddTimerOnce /\ QuietWhenClosed

\* After the time was stopped (is_stop) at most one more tick is counted, the one
\* whose handler was running.
LateTickBounded == late <= 1

\* When the module is gone nothing of it runs: no timer, no handler, no work.
GoneIsQuiet == app = "gone" => ~armed /\ tick = "idle" /\ ~pending /\ worker = "idle"

\* The stopwatch only terminates after VOL DOWN was held for three seconds.
HaltNeedsLongPress == halted = "long"

\* When the stopwatch is told to terminate while the application sleeps, or is
\* about to, the application wakes up and returns.
HaltTerminates ==
  (is_halt /\ app \in {"armed", "asleep"}) ~> (app = "closed")

=============================================================================
