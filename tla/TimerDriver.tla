---------------------------- MODULE TimerDriver ----------------------------
(***************************************************************************)
(* The timer driver of hw2 and its application: a run of the application   *)
(* packs three options into a word, sends it with one ioctl and starts the *)
(* timer with another.  The timer then drives the devices by itself, after *)
(* the application has closed the device.  A second application is refused *)
(* as long as the first has the device open.                               *)
(***************************************************************************)
EXTENDS Integers, Sequences, FiniteSetsExt

CONSTANTS
  Apps,                    \* the processes that run the application
  Intervals, Cnts, Inits,  \* what is typed for TIMER_INTERVAL, _CNT and _INIT
  MaxRuns,                 \* bound: how often the application is started
  Alone,                   \* it is not started before the last run has ended
  OpensApart               \* two do not test device_open_count at the same time

ASSUME TimerDriverAssumption ==
  /\ Apps # {} /\ Intervals \subseteq Int /\ Cnts \subseteq Int /\ Inits \subseteq Nat
  /\ MaxRuns \in Nat /\ Alone \in BOOLEAN /\ OpensApart \in BOOLEAN

VARIABLES
  app, opt, runs,                                 \* the applications
  present,                                        \* the module is loaded
  device_open_count,
  interval, count, init_values, active_digit,     \* timer_data
  current_number, rotation_count, finish_count, lcd_index,
  armed, function,                                \* timer_data.timer
  fnd, led, dot, lcd,                             \* the devices
  owner, place,                                   \* history: who set the options, the
                                                  \*   position that they start with
  k                                               \* history: ticks since COMMAND

timer_data == <<interval, count, init_values, active_digit, current_number,
                rotation_count, finish_count>>
devices == <<fnd, led, dot, lcd>>
history == <<owner, place, k>>
vars == <<app, opt, runs, present, device_open_count, timer_data, lcd_index, armed,
          function, devices, history>>

\* The devices when they are cleared.
Positions == 0..3
NoDigits == [p \in Positions |-> 0]
NoLed == 0
NoDot == -1
Lcd(text, n, name) == [text |-> text, n |-> n, name |-> name]
NoText == Lcd("", 0, 0)

NoTicks == -1    \* k while the run has not been started

Init ==
  /\ app = [a \in Apps |-> "closed"] /\ runs = 0 /\ present = TRUE
  /\ opt = [a \in Apps |-> [interval |-> 0, cnt |-> 0, init |-> 0]]
  /\ device_open_count = 0
  /\ interval = 0 /\ count = 0 /\ init_values = NoDigits
  /\ active_digit = 0 /\ current_number = 0 /\ rotation_count = 0
  /\ finish_count = 0 /\ lcd_index = 0
  /\ armed = FALSE /\ function = "none"
  /\ fnd = NoDigits /\ led = NoLed /\ dot = NoDot /\ lcd = NoText
  /\ owner = (CHOOSE a \in Apps : TRUE) /\ place = 0 /\ k = NoTicks

----------------------------------------------------------------------------
(* The word that carries the options: 14, 7 and 7 bits.                    *)

Encode(o) == (o.init % 16384) + (o.cnt % 128) * 16384 + (o.interval % 128) * (16384 * 128)

CountOf(arg) == (arg \div 16384) % 128
IntervalOf(arg) == (arg \div (16384 * 128)) % 128

Power10 == <<1000, 100, 10, 1>>
DigitsOf(arg) == [p \in Positions |-> ((arg % 16384) \div Power10[p + 1]) % 10]

\* The leftmost digit that is not 0; without one it stays what it was.
ActiveDigit(digits) ==
  LET nonzero == {p \in Positions : digits[p] # 0}
  IN  IF nonzero = {} THEN active_digit ELSE Min(nonzero)

----------------------------------------------------------------------------
(* The application.                                                        *)

\* Out of range options end the application.
Valid(o) == o.interval \in 1..100 /\ o.cnt \in 1..100

\* open tests the count and sets it; who finds it set gets EBUSY and ends.
OpenTest(a) ==
  /\ present /\ app[a] = "closed" /\ runs < MaxRuns
  /\ Alone => ~armed
  /\ OpensApart => \A b \in Apps : app[b] # "open"
  /\ device_open_count = 0
  /\ runs' = runs + 1
  /\ app' = [app EXCEPT ![a] = "open"]
  /\ UNCHANGED <<opt, present, device_open_count, timer_data, lcd_index, armed, function,
                 devices, history>>
OpenSet(a) ==
  /\ app[a] = "open"
  /\ device_open_count' = 1
  /\ \E o \in [interval : Intervals, cnt : Cnts, init : Inits] :
       /\ opt' = [opt EXCEPT ![a] = o]
       /\ app' = [app EXCEPT ![a] = IF Valid(o) THEN "option" ELSE "close"]
  /\ UNCHANGED <<runs, present, timer_data, lcd_index, armed, function, devices, history>>

\* Where the display starts: at the leftmost digit; options without one start where
\* the last run has ended.
Digit(init, p) == ((init % 16384) \div Power10[p + 1]) % 10
StartsAt(init) ==
  LET nonzero == {p \in Positions : Digit(init, p) # 0}
  IN  IF nonzero = {} THEN (place + (Max({k, 0}) \div 8)) % 4 ELSE Min(nonzero)

\* (mutant: the finish count is not set again)
FinishKept == finish_count
FinishCount == 3

SetOption(a) ==
  /\ app[a] = "option"
  /\ LET arg == Encode(opt[a]) IN
     /\ init_values' = DigitsOf(arg)
     /\ active_digit' = ActiveDigit(init_values')
     /\ count' = CountOf(arg)
     /\ interval' = IntervalOf(arg)
     /\ current_number' = init_values'[active_digit']
     /\ rotation_count' = 1
     /\ finish_count' = FinishCount
  /\ app' = [app EXCEPT ![a] = "command"]
  /\ owner' = a
  /\ place' = StartsAt(opt[a].init)
  /\ k' = NoTicks
  /\ UNCHANGED <<opt, runs, present, device_open_count, lcd_index, armed, function, devices>>

\* The fields of the timer are set before the reset switch is waited for, but not
\* the timer.
Command(a) ==
  /\ app[a] = "command"
  /\ function' = "fpga_timer_handler"
  /\ app' = [app EXCEPT ![a] = "waiting"]
  /\ UNCHANGED <<opt, runs, present, device_open_count, timer_data, lcd_index, armed, devices,
                 history>>
ResetSwitch(a) ==
  /\ app[a] = "waiting"
  /\ armed' = TRUE
  /\ k' = 0
  /\ app' = [app EXCEPT ![a] = "close"]
  /\ UNCHANGED <<opt, runs, present, device_open_count, timer_data, lcd_index, function, devices,
                 owner, place>>

Release(a) ==
  /\ app[a] = "close"
  /\ device_open_count' = 0
  /\ app' = [app EXCEPT ![a] = "closed"]
  /\ UNCHANGED <<opt, runs, present, timer_data, lcd_index, armed, function, devices, history>>

\* rmmod deletes the timer; the devices keep what they show.  (The fops have no
\* .owner, so that nothing keeps the module while the device is open; who removes
\* it waits.)
fpga_timer_exit ==
  /\ present /\ \A a \in Apps : app[a] = "closed"
  /\ armed' = FALSE
  /\ present' = FALSE
  /\ UNCHANGED <<app, opt, runs, device_open_count, timer_data, lcd_index, function, devices,
                 history>>

----------------------------------------------------------------------------
(* The timer.                                                              *)

\* write_led shifts 0x80: the LED of the number, none for 9; by -1 the result is
\* undefined.
UndefinedLed == -1
Led(n) == CASE n = 0 -> UndefinedLed [] n \in 1..8 -> n [] OTHER -> NoLed

\* (mutant: through 1 to 9)
RotationTo9 == (rotation_count % 9) + 1
Rotation == (rotation_count % 8) + 1

\* The digit moves on when the rotation starts again.
update_digit_and_rotation(number, rotation) ==
  IF rotation = 1
  THEN LET next == (active_digit + 1) % 4 IN
       /\ init_values' = [init_values EXCEPT ![active_digit] = 0, ![next] = number]
       /\ active_digit' = next
  ELSE /\ init_values' = [init_values EXCEPT ![active_digit] = number]
       /\ UNCHANGED active_digit

Tick ==
  /\ function = "fpga_timer_handler" /\ count > 0
  /\ fnd' = init_values
  /\ led' = Led(current_number)
  /\ dot' = current_number
  /\ lcd' = Lcd("count", count, lcd_index)
  /\ lcd_index' = (lcd_index + 1) % 16
  /\ count' = count - 1
  /\ current_number' = (current_number % 8) + 1
  /\ rotation_count' = Rotation
  /\ update_digit_and_rotation(current_number', rotation_count')
  /\ k' = k + 1
  /\ UNCHANGED <<interval, finish_count, armed, function>>

\* The time is up.
TimeUp ==
  /\ function = "fpga_timer_handler" /\ count <= 0
  /\ fnd' = NoDigits /\ led' = NoLed /\ dot' = NoDot
  /\ function' = "finish_handler"
  /\ UNCHANGED <<timer_data, lcd_index, armed, lcd, k>>

\* "Shutdown in 3...", 2, 1.
Finish ==
  /\ function = "finish_handler" /\ finish_count > 0
  /\ lcd' = Lcd("shutdown", finish_count, 0)
  /\ finish_count' = finish_count - 1
  /\ UNCHANGED <<interval, count, init_values, active_digit, current_number,
                 rotation_count, lcd_index, armed, function, fnd, led, dot, k>>

\* clear_fpga_devices; the timer is not set again (mutant: it is).
StaysOn == TRUE
StaysOff == FALSE
FinishLast ==
  /\ function = "finish_handler" /\ finish_count <= 0
  /\ fnd' = NoDigits /\ led' = NoLed /\ dot' = NoDot /\ lcd' = NoText
  /\ armed' = StaysOff
  /\ UNCHANGED <<timer_data, lcd_index, function, k>>

Timer ==
  /\ armed
  /\ Tick \/ TimeUp \/ Finish \/ FinishLast
  /\ UNCHANGED <<app, opt, runs, present, device_open_count, owner, place>>

Next ==
  \/ fpga_timer_exit \/ Timer
  \/ \E a \in Apps :
       \/ OpenTest(a) \/ OpenSet(a) \/ SetOption(a) \/ Command(a) \/ ResetSwitch(a) \/ Release(a)

----------------------------------------------------------------------------
(* Properties.  The run that is under way is the one with these options.   *)

Current == opt[owner]

\* The driver unpacks what the application packed, until the first tick: the
\* digits, the count and the interval, at their limits too.
OptionsArrive ==
  app[owner] \in {"command", "waiting"} =>
    /\ interval = Current.interval
    /\ count = Current.cnt
    /\ (Current.init % 16384) % 10000 =
         1000 * init_values[0] + 100 * init_values[1] + 10 * init_values[2] + init_values[3]

\* What the devices show at tick n, computed from the options alone: after its
\* first value, of whatever digit, the number runs through 1 to 8; it moves on by
\* one position after eight ticks (not nine: see IndexThrough1To9) and leaves a 0
\* behind, and where it has not been yet the digits typed are left.
Number(n) ==
  LET first == Digit(Current.init, place)
  IN  IF n = 0 THEN first ELSE (((first % 8) + (n - 1)) % 8) + 1
FndAt(n, p) ==
  LET moves == n \div 8
      distance == (p - place + 4) % 4
  IN  CASE distance = moves % 4 -> Number(n)
        [] distance # moves % 4 /\ distance < moves -> 0
        [] OTHER -> Digit(Current.init, p)
ShowsTick(n) ==
  /\ fnd = [p \in Positions |-> FndAt(n, p)]
  /\ led = Led(Number(n)) /\ dot = Number(n)
  /\ lcd.text = "count" /\ lcd.n = Current.cnt - n

\* At every tick the devices show what the options of the run say, also those that
\* the usage line does not name (TIMER_INIT 0, 9 or with several digits), and
\* whoever else tries to open the device.
DevicesFollowOptions ==
  /\ OptionsArrive
  /\ armed /\ function = "fpga_timer_handler" /\ k > 0 => ShowsTick(k - 1)

\* What the comment next to the rotation says of the index, "Rotate index through 1-9":
\* before it starts again it was 9.  The code counts to 8, and the position, which
\* moves when the index starts again, with it.
IndexThrough1To9 ==
  [][armed /\ k' = k + 1 /\ rotation_count' < rotation_count => rotation_count = 9]_vars

\* A run does not tick before the reset switch was pressed.  The time is up after
\* exactly TIMER_CNT ticks, and the countdown runs from 3 to 1 before the devices
\* are cleared for good.
RunsItsCourse ==
  [][/\ k = NoTicks /\ k' # k => app[owner] = "waiting" /\ app'[owner] = "close"
     /\ function' # function /\ armed => k = Current.cnt
     /\ lcd' # lcd /\ lcd.text = "count" /\ k = Current.cnt => lcd' = Lcd("shutdown", 3, 0)
     /\ lcd' # lcd /\ lcd.text = "shutdown" =>
          lcd' = IF lcd.n = 1 THEN NoText ELSE Lcd("shutdown", lcd.n - 1, 0)
     /\ armed /\ ~armed' /\ present' => lcd' = NoText]_vars

\* A run that was started ends with the devices cleared, unless the module is
\* removed.
Cleared == fnd = NoDigits /\ led = NoLed /\ dot = NoDot /\ lcd = NoText
Terminates == armed ~> (~armed /\ Cleared) \/ ~present

=============================================================================
