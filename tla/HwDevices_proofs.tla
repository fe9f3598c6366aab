-------------------------- MODULE HwDevices_proofs --------------------------
(***************************************************************************)
(* Proofs about the two processes of io.c: the io process, for any number  *)
(* of polls in a second, and the blinking processes, for any number of     *)
(* process numbers and any requests.                                       *)
(***************************************************************************)
EXTENDS HwDevices, TLAPS

----------------------------------------------------------------------------
(* The blinking processes.                                                 *)

Blinker == Running \cup {"none", "zombie"}

\* led_pid names the only process there is; while main forks it names none.
OnlyOne ==
  /\ blinker \in [Pids -> Blinker]
  /\ led_pid \in Pids \cup {0, -1}
  /\ \A p \in Pids : blinker[p] # "none" => led_pid = p
  /\ main \in {"fork", "ended"} => led_pid = 0
  /\ main \in {"kill", "kill last", "wait", "wait last"} => led_pid # 0

\* The other processes are spared as long as led_pid is no error.
Spared ==
  /\ others \in BOOLEAN /\ failed \in BOOLEAN
  /\ others \/ failed
  /\ led_pid = -1 => failed

\* The process works for the request that main returned from, and flashes only if
\* that asks for it.
ForRequest ==
  /\ DOMAIN args = Pids
  /\ \A p \in Pids : main = "idle" /\ blinker[p] # "none" => args[p] = request
  /\ \A p \in Pids : blinker[p] \in {"flash", "flash off"} => args[p][3]

LedInv == OnlyOne /\ Spared /\ ForRequest /\ LedsFollowRequest

\* A step of the LED part is one of these, and leaves nothing else open.
LEMMA LedActions ==
  ASSUME LedNext
  PROVE  \/ control_led \/ kill_led \/ KillLed \/ WaitLed \/ Fork
         \/ \E p \in Pids : Blink(p) \/ Die(p) \/ KilledByOther(p)
  BY DEF LedNext, LedMain

\* Process numbers are no error and no "nobody".
LEMMA PidsPositive == 0 \notin Pids /\ -1 \notin Pids
  BY LedControlAssumption

\* Every step of main and of the blinking processes leaves at most one of them.
LEMMA NextOnlyOne ==
  ASSUME OnlyOne, LedNext
  PROVE  OnlyOne'
<1> USE DEF OnlyOne, Blinker, Running
<1>1. CASE control_led
  BY <1>1 DEF control_led
<1>2. CASE kill_led
  BY <1>2 DEF kill_led
<1>3. CASE KillLed
  <2>1. CASE Exists(led_pid)
    BY <1>3, <2>1 DEF KillLed
  <2>2. CASE ~Exists(led_pid)
    <3>1. led_pid' = 0 /\ main' \in {"fork", "ended"} /\ UNCHANGED blinker
      BY <1>3, <2>2 DEF KillLed, AfterKill
    <3>2. \A p \in Pids : blinker[p] = "none"
      BY <1>3, <2>2 DEF KillLed, Exists
    <3> QED
      BY <3>1, <3>2
  <2> QED
    BY <2>1, <2>2
<1>4. CASE WaitLed
  <2>1. \A p \in Pids : blinker'[p] = "none"
    BY <1>4, PidsPositive DEF WaitLed, Dead
  <2>2. blinker' \in [Pids -> Blinker]
    BY <1>4 DEF WaitLed
  <2>3. led_pid' = 0 /\ main' \in {"fork", "ended"}
    BY <1>4 DEF WaitLed, ResetPid, AfterKill
  <2> QED
    BY <2>1, <2>2, <2>3
<1>5. CASE Fork
  <2>1. \A p \in Pids : blinker[p] = "none"
    BY <1>5, PidsPositive DEF Fork
  <2>2. main' = "idle"
    BY <1>5 DEF Fork
  <2>3. ASSUME NEW p \in Pids, led_pid' = p,
               blinker' = [blinker EXCEPT ![p] = FirstStep(request[3])]
        PROVE  OnlyOne'
    <3>1. FirstStep(request[3]) \in Blinker
      BY DEF FirstStep
    <3> QED
      BY <2>1, <2>2, <2>3, <3>1
  <2>4. CASE led_pid' = -1 /\ UNCHANGED blinker
    BY <2>1, <2>2, <2>4
  <2> QED
    BY <1>5, <2>3, <2>4 DEF Fork
<1>6. ASSUME NEW p \in Pids, Blink(p) \/ Die(p) \/ KilledByOther(p)
      PROVE  OnlyOne'
  <2>1. blinker[p] # "none" /\ UNCHANGED <<main, led_pid>>
        /\ \E b \in Blinker : blinker' = [blinker EXCEPT ![p] = b]
    BY <1>6 DEF Blink, Write, Again, Die, KilledByOther
  <2> QED
    BY <2>1
<1> QED
  BY <1>1, <1>2, <1>3, <1>4, <1>5, <1>6, LedActions

\* Only kill(-1) reaches the other processes, after a fork that failed.
LEMMA NextSpared ==
  ASSUME OnlyOne, Spared, LedNext
  PROVE  Spared'
<1>1. CASE KillLed
  <2>1. CASE Exists(led_pid)
    BY <1>1, <2>1 DEF KillLed, Spared
  <2>2. CASE ~Exists(led_pid)
    <3>1. led_pid' = 0 /\ UNCHANGED <<others, failed>>
      BY <1>1, <2>2 DEF KillLed
    <3> QED
      BY <3>1 DEF Spared
  <2> QED
    BY <2>1, <2>2
<1>2. CASE WaitLed
  <2>1. led_pid' = 0 /\ UNCHANGED <<others, failed>>
    BY <1>2 DEF WaitLed, ResetPid
  <2> QED
    BY <2>1 DEF Spared
<1>3. CASE Fork
  <2>1. UNCHANGED others /\ \/ \E p \in Pids : led_pid' = p /\ UNCHANGED failed
                            \/ failed' = TRUE
    BY <1>3 DEF Fork
  <2> QED
    BY <2>1, PidsPositive DEF Spared
<1>4. CASE control_led \/ kill_led \/ \E p \in Pids : Blink(p) \/ Die(p) \/ KilledByOther(p)
  <2>1. UNCHANGED <<led_pid, others, failed>>
    BY <1>4 DEF control_led, kill_led, Blink, Write, Die, KilledByOther
  <2> QED
    BY <2>1 DEF Spared
<1> QED
  BY <1>1, <1>2, <1>3, <1>4, LedActions

\* The process that blinks was forked for the last request.
LEMMA NextForRequest ==
  ASSUME OnlyOne, ForRequest, LedNext
  PROVE  ForRequest'
<1> USE DEF ForRequest
<1>1. CASE control_led
  BY <1>1 DEF control_led
<1>2. CASE kill_led
  BY <1>2 DEF kill_led
<1>3. CASE KillLed
  BY <1>3 DEF KillLed, AfterKill
<1>4. CASE WaitLed
  <2>1. main' # "idle" /\ UNCHANGED <<request, args>>
    BY <1>4 DEF WaitLed, AfterKill
  <2>2. \A p \in Pids : blinker'[p] \in {"flash", "flash off"} => blinker[p] = blinker'[p]
    BY <1>4 DEF WaitLed
  <2> QED
    BY <2>1, <2>2
<1>5. CASE Fork
  <2>1. \A p \in Pids : blinker[p] = "none"
    BY <1>5, PidsPositive DEF Fork, OnlyOne
  <2>2. UNCHANGED request
    BY <1>5 DEF Fork
  <2>3. ASSUME NEW p \in Pids, args' = [args EXCEPT ![p] = request],
               blinker' = [blinker EXCEPT ![p] = FirstStep(request[3])]
        PROVE  ForRequest'
    <3>1. /\ args'[p] = request /\ DOMAIN args' = Pids
          /\ \A q \in Pids \ {p} : blinker'[q] = "none"
      BY <2>1, <2>3 DEF OnlyOne
    <3>2. blinker'[p] \in {"flash", "flash off"} => request[3]
      BY <2>3 DEF FirstStep, OnlyOne
    <3> QED
      BY <2>2, <3>1, <3>2
  <2>4. CASE UNCHANGED <<blinker, args>>
    BY <2>1, <2>2, <2>4
  <2> QED
    BY <1>5, <2>3, <2>4 DEF Fork
<1>6. ASSUME NEW p \in Pids, Blink(p) \/ Die(p) \/ KilledByOther(p)
      PROVE  ForRequest'
  <2>1. blinker[p] # "none" /\ UNCHANGED <<main, request, args>>
    BY <1>6 DEF Blink, Write, Die, KilledByOther, Running
  <2>2. \/ blinker' = [blinker EXCEPT ![p] = "flash off"] /\ blinker[p] = "flash"
        \/ \E b \in {"first", "second", "zombie"} : blinker' = [blinker EXCEPT ![p] = b]
    BY <1>6 DEF Blink, Write, Again, Die, KilledByOther
  <2> QED
    BY <2>1, <2>2 DEF OnlyOne
<1> QED
  BY <1>1, <1>2, <1>3, <1>4, <1>5, <1>6, LedActions

\* A write comes from the process of the last request, or main is not back yet.
LEMMA NextFollows ==
  ASSUME OnlyOne, ForRequest, LedsFollowRequest, LedNext
  PROVE  LedsFollowRequest'
<1> USE DEF LedsFollowRequest
<1>1. CASE control_led
  BY <1>1 DEF control_led
<1>2. CASE kill_led
  BY <1>2 DEF kill_led
<1>3. CASE KillLed
  BY <1>3 DEF KillLed, AfterKill
<1>4. CASE WaitLed
  BY <1>4 DEF WaitLed, AfterKill
<1>5. CASE Fork
  BY <1>5 DEF Fork
<1>6. ASSUME NEW p \in Pids, Blink(p)
      PROVE  LedsFollowRequest'
  <2>1. UNCHANGED <<main, request>> /\ blinker[p] # "none"
    BY <1>6 DEF Blink, Write
  <2>2. SUFFICES ASSUME main = "idle" PROVE led_addr' \in Shows(request)
    BY <2>1
  <2>3. args[p] = request
    BY <2>1, <2>2 DEF ForRequest
  <2>4. CASE Write(p, "flash", 255, "flash off") \/ Write(p, "flash off", 0, "first")
    <3>1. request[3] /\ led_addr' \in {255, 0}
      BY <2>3, <2>4 DEF Write, ForRequest
    <3> QED
      BY <3>1 DEF Shows
  <2>5. CASE Write(p, "first", 128 \div args[p][1], "second")
    BY <2>3, <2>5 DEF Write, Shows
  <2>6. CASE Write(p, "second", 128 \div args[p][2], Again)
    BY <2>3, <2>6 DEF Write, Shows
  <2> QED
    BY <1>6, <2>4, <2>5, <2>6 DEF Blink
<1>7. ASSUME NEW p \in Pids, Die(p) \/ KilledByOther(p)
      PROVE  LedsFollowRequest'
  BY <1>7 DEF Die, KilledByOther
<1> QED
  BY <1>1, <1>2, <1>3, <1>4, <1>5, <1>6, <1>7, LedActions

\* The invariant holds in both parts of the system.
LEMMA AlwaysLedInv == DevicesSpec => []LedInv
<1>1. DevicesInit => LedInv
  <2> SUFFICES ASSUME LedInit PROVE LedInv
    BY DEF DevicesInit
  <2>1. OnlyOne
    BY DEF LedInit, OnlyOne, Blinker
  <2>2. Spared
    <3>1. led_pid # -1
      <4>1. led_pid = 0
        BY DEF LedInit
      <4> QED
        BY <4>1
    <3> QED
      BY <3>1 DEF LedInit, Spared
  <2>3. ForRequest
    BY DEF LedInit, ForRequest
  <2>4. LedsFollowRequest
    BY DEF LedInit, LedsFollowRequest
  <2> QED
    BY <2>1, <2>2, <2>3, <2>4 DEF LedInv
<1>2. LedInv /\ [DevicesNext]_devicesVars => LedInv'
  <2> SUFFICES ASSUME LedInv, [DevicesNext]_devicesVars PROVE LedInv'
    OBVIOUS
  <2>1. CASE LedNext
    BY <2>1, NextOnlyOne, NextSpared, NextForRequest, NextFollows DEF LedInv
  <2>2. CASE UNCHANGED ledVars
    BY <2>2 DEF ledVars, LedInv, OnlyOne, Spared, ForRequest, LedsFollowRequest
  <2> QED
    BY <2>1, <2>2 DEF DevicesNext, OfReader, OfLed, devicesVars
<1> QED
  BY <1>1, <1>2, PTL DEF DevicesSpec

\* control_led and kill_led leave no process behind, and kill no other process before
\* a fork has failed.
THEOREM OneBlinkerLeft == DevicesSpec => []OneBlinker
<1>1. LedInv => OneBlinker
  BY DEF LedInv, OnlyOne, Spared, OneBlinker
<1> QED
  BY <1>1, AlwaysLedInv, PTL

\* After control_led no write of an earlier blinking process reaches the LEDs.
THEOREM LedsShowRequest == DevicesSpec => []LedsFollowRequest
<1>1. LedInv => LedsFollowRequest
  BY DEF LedInv
<1> QED
  BY <1>1, AlwaysLedInv, PTL

----------------------------------------------------------------------------
(* The io process.                                                         *)

\* A measurement: held polls, of which tv_sec seconds began.
Measured ==
  /\ io = "long" =>
       /\ wait \in {0, 1}
       /\ tv_sec \in {0, 1, 2}
       /\ tv_sec = 0 => held <= sub
       /\ tv_sec = 1 => held \in (sub + 1)..(PerSecond + sub)
       /\ tv_sec = 2 => wait = 0 /\ held \in (PerSecond + 1)..(2 * PerSecond)
Timed ==
  /\ sub \in 0..(PerSecond - 1) /\ held \in Nat /\ wait \in Nat
  /\ down \subseteq 0..9
  /\ Measured
  /\ LongPressTimed

\* How long the lowest switch that is down has waited, and how long it waits at least
\* until the next poll: the rest of a pause, after the rest of a measurement of 1 if
\* that began before.  While 1 is measured nothing but a switch that came down since
\* is below it, or above it when 1 is released.
Awaits ==
  IF First = ResetDip
    THEN IF io = "long" THEN waits <= held ELSE waits + wait <= Pause + 2 * PerSecond
  ELSE IF First = 1
    THEN IF io = "long" THEN waits <= Pause + held ELSE waits + wait <= Pause
  ELSE waits + wait <= IF io = "long" THEN 1 ELSE Pause + 1
Awaited ==
  /\ waits \in Nat /\ wait <= Pause
  /\ io = "exited" => down = {}
  /\ down # {} => Awaits

\* A step of the io process, of time or of the user.
LEMMA ReaderActions ==
  ASSUME ReaderNext
  PROVE  \/ ReadReset \/ ReadSwitch \/ LongPoll \/ ReadKey \/ TimePasses
         \/ io # "exited" /\ \E s \in Switches \cup {ResetDip} : MoveSwitch(s)
         \/ \E e \in Keys \cup {"other"} : KeyEvent(e)
  BY DEF ReaderNext, read_input, User

\* The pause after an input is not zero.
LEMMA PausePositive == Pause \in Nat /\ Pause > 0
  BY InputReaderAssumption DEF Pause

\* The lowest of the push switches is one of them.
LEMMA LowestSwitch ==
  ASSUME NEW S \in SUBSET (1..9), S # {}
  PROVE  Min(S) \in S /\ \A y \in S : Min(S) <= y
<1>1. \E x \in S : \A y \in S : x <= y
  <2>1. 1 \in S \/ 2 \in S \/ 3 \in S \/ 4 \in S \/ 5 \in S \/ 6 \in S \/ 7 \in S \/ 8 \in S
        \/ 9 \in S
    <3>1. PICK x \in S : TRUE
      OBVIOUS
    <3>2. x = 1 \/ x = 2 \/ x = 3 \/ x = 4 \/ x = 5 \/ x = 6 \/ x = 7 \/ x = 8 \/ x = 9
      OBVIOUS
    <3> QED
      BY <3>2
  <2> QED
    BY <2>1
<1> QED
  BY <1>1 DEF Min

\* tv_sec is counted up to two.
LEMMA CountedToTwo ==
  ASSUME NEW t \in {0, 1, 2}
  PROVE  Min({t + 1, 2}) = IF t = 0 THEN 1 ELSE 2
<1>1. {t + 1, 2} \subseteq Int /\ \E x \in {t + 1, 2} : \A y \in {t + 1, 2} : x <= y
  OBVIOUS
<1>2. Min({t + 1, 2}) \in {t + 1, 2} /\ \A y \in {t + 1, 2} : Min({t + 1, 2}) <= y
  BY <1>1 DEF Min
<1> QED
  BY <1>2

\* No input but the measurement is called Long.
LEMMA OtherInputs ==
  /\ Reset # Long /\ Chord # Long /\ Long \notin Keys
  /\ \A j \in 1..9 : SwitchInput[j] # Long
  BY InputReaderAssumption DEF Reset, Chord, Long, SwitchInput

\* Sending something else leaves nothing to be timed.
LEMMA SendTimed ==
  ASSUME Timed, NEW input, NEW S, input # Long, Send(input, S),
         UNCHANGED <<sub, down>>
  PROVE  Timed'
<1>1. sent' = input /\ io' # "long" /\ wait' = Pause /\ held' \in {held, 0}
  BY DEF Send
<1> QED
  BY <1>1, PausePositive DEF Timed, Measured, LongPressTimed

\* What a measurement counts stays within its bounds, poll after poll.
LEMMA NextTimed ==
  ASSUME Timed, ReaderNext
  PROVE  Timed'
<1>0. PerSecond \in Nat /\ PerSecond >= 2 /\ wait \in Nat /\ held \in Nat
      /\ sub \in 0..(PerSecond - 1)
  BY InputReaderAssumption DEF Timed
<1>1. CASE ReadReset
  BY <1>1, SendTimed, OtherInputs DEF ReadReset, user
<1>2. CASE ReadSwitch
  <2>1. Found(Push) \in 1..9
    <3>1. Push # {} /\ Push \subseteq 1..9
      BY <1>2 DEF ReadSwitch, Push, ResetDip, Timed
    <3>2. Min(Push) \in Push
      BY <3>1, LowestSwitch
    <3> QED
      BY <3>1, <3>2 DEF Found
  <2>2. UNCHANGED <<sub, down>>
    BY <1>2 DEF ReadSwitch, user
  <2>3. CASE \E S : Send(Chord, S)
    BY <2>2, <2>3, SendTimed, OtherInputs
  <2>4. CASE \E S : Send(SwitchInput[Found(Push)], S)
    BY <2>1, <2>2, <2>4, SendTimed, OtherInputs
  <2>5. CASE io' = "long" /\ tv_sec' = 0 /\ held' = 0 /\ UNCHANGED <<wait, sent>>
    <3>1. wait = 0
      BY <1>2 DEF ReadSwitch, Polls
    <3> QED
      BY <1>0, <2>2, <2>5, <3>1 DEF Timed, Measured, LongPressTimed
  <2> QED
    BY <1>2, <2>3, <2>4, <2>5 DEF ReadSwitch
<1>3. CASE LongPoll
  <2>1. io = "long" /\ wait = 0 /\ UNCHANGED <<sub, down>>
    BY <1>3 DEF LongPoll, user
  <2>2. CASE has_one_second_elapsed /\ Send(Long, {1})
    <3>1. tv_sec = 2
      BY <2>1, <2>2 DEF has_one_second_elapsed, Timed, Measured
    <3>2. io' # "long" /\ wait' = Pause /\ held' = held
      BY <2>2 DEF Send
    <3> QED
      BY <2>1, <3>1, <3>2, PausePositive DEF Timed, Measured, LongPressTimed
  <2>3. CASE Send(SwitchInput[1], {1})
    BY <2>1, <2>3, SendTimed, OtherInputs
  <2>4. CASE ~has_one_second_elapsed /\ NothingSent
    <3>1. tv_sec # 2
      BY <2>1, <2>4 DEF has_one_second_elapsed
    <3>2. wait' = 1 /\ UNCHANGED <<io, sent, tv_sec, held>>
      BY <2>4 DEF NothingSent
    <3> QED
      BY <2>1, <3>1, <3>2 DEF Timed, Measured, LongPressTimed
  <2> QED
    BY <1>3, <2>2, <2>3, <2>4 DEF LongPoll
<1>4. CASE ReadKey
  <2>1. UNCHANGED <<sub, down>> /\ io = "read_input"
    BY <1>4 DEF ReadKey, Polls
  <2>2. CASE \E k \in Keys : Send(k, {})
    BY <2>1, <2>2, SendTimed, OtherInputs
  <2>3. CASE NothingSent
    BY <2>1, <2>3 DEF NothingSent, Timed, Measured, LongPressTimed
  <2> QED
    BY <1>4, <2>2, <2>3 DEF ReadKey
<1>5. CASE TimePasses
  <2>1. wait > 0 /\ wait' = wait - 1 /\ sub' = (sub + 1) % PerSecond
        /\ UNCHANGED <<io, sent, down>>
    BY <1>5 DEF TimePasses, user
  <2>2. \/ sub' = sub + 1 /\ sub + 1 < PerSecond
        \/ sub' = 0 /\ sub + 1 = PerSecond
    BY <1>0, <2>1
  <2>3. CASE io # "long"
    <3>1. UNCHANGED held
      BY <1>5, <2>3 DEF TimePasses
    <3> QED
      BY <1>0, <2>1, <2>2, <2>3, <3>1 DEF Timed, Measured, LongPressTimed
  <2>4. CASE io = "long"
    <3>1. held' = held + 1 /\ wait = 1 /\ wait' = 0 /\ tv_sec \in {0, 1}
      BY <1>5, <2>1, <2>4 DEF TimePasses, Timed, Measured
    <3>2. CASE sub' = 0 /\ sub + 1 = PerSecond
      <4>1. tv_sec' = tv_sec + 1
        <5>1. tv_sec' = Min({tv_sec + 1, 2})
          BY <1>5, <2>4, <3>2 DEF TimePasses
        <5> QED
          BY <3>1, <5>1, CountedToTwo
      <4> QED
        BY <1>0, <2>1, <2>4, <3>1, <3>2, <4>1 DEF Timed, Measured, LongPressTimed
    <3>3. CASE sub' = sub + 1 /\ sub + 1 < PerSecond
      <4>1. tv_sec' = tv_sec
        BY <1>0, <1>5, <2>4, <3>3 DEF TimePasses
      <4> QED
        BY <1>0, <2>1, <2>4, <3>1, <3>3, <4>1 DEF Timed, Measured, LongPressTimed
    <3> QED
      BY <2>2, <3>2, <3>3
  <2> QED
    BY <2>3, <2>4
<1>6. ASSUME NEW s \in Switches \cup {ResetDip}, MoveSwitch(s) PROVE Timed'
  <2>1. down' \subseteq 0..9
    BY <1>6, InputReaderAssumption DEF MoveSwitch, ResetDip, Timed
  <2> QED
    BY <1>6, <2>1 DEF MoveSwitch, Timed, Measured, LongPressTimed
<1>7. ASSUME NEW e, KeyEvent(e) PROVE Timed'
  BY <1>7 DEF KeyEvent, Timed, Measured, LongPressTimed
<1> QED
  BY <1>1, <1>2, <1>3, <1>4, <1>5, <1>6, <1>7, ReaderActions

\* The switch that is read first is the lowest that is down.
LEMMA FirstIsLowest ==
  ASSUME Timed, down # {}
  PROVE  First \in down /\ First \in 0..9 /\ \A s \in down : First <= s
<1>1. CASE ResetDip \in down
  BY <1>1 DEF First, ResetDip, Timed
<1>2. CASE ResetDip \notin down
  <2>1. down \in SUBSET (1..9)
    BY <1>2 DEF ResetDip, Timed
  <2>2. First = Min(down)
    BY <1>2 DEF First
  <2>3. Min(down) \in down /\ \A s \in down : Min(down) <= s
    BY <2>1, LowestSwitch
  <2>4. First \in down /\ \A s \in down : First <= s
    BY <2>2, <2>3
  <2> QED
    BY <2>1, <2>4
<1> QED
  BY <1>1, <1>2

\* A measurement takes no more than two seconds.
LEMMA MeasuredTwoSeconds ==
  ASSUME Timed, io = "long"
  PROVE  held <= 2 * PerSecond
<1>1. PerSecond \in Nat /\ held \in Nat /\ sub \in 0..(PerSecond - 1)
  BY InputReaderAssumption DEF Timed
<1> QED
  BY <1>1 DEF Timed, Measured

\* After an input the others wait for the pause; of those that the input is not about
\* only the ones are down that came while 1 was measured.
LEMMA SendAwaited ==
  ASSUME Timed, Awaited, NEW input, NEW S, Send(input, S), UNCHANGED down,
         input = "B" => down = {},
         down # {} /\ First \notin S => io = "long" /\ First # 1
  PROVE  Awaited'
<1>1. wait' = Pause /\ io' = IF input = "B" THEN "exited" ELSE "read_input"
  BY DEF Send
<1>2. waits' = IF down # {} /\ First \in S THEN 0 ELSE waits
  BY FirstIsLowest DEF Send
<1>3. First' = First
  BY DEF First
<1>4. CASE down = {}
  BY <1>1, <1>2, <1>4, PausePositive DEF Awaited
<1>5. CASE down # {} /\ First \in S
  BY <1>1, <1>2, <1>3, <1>5, PausePositive, InputReaderAssumption DEF Awaited, Awaits
<1>6. CASE down # {} /\ First \notin S
  <2>1. io = "long" /\ First # 1 /\ Awaits /\ held <= 2 * PerSecond /\ held \in Nat
        /\ wait \in Nat /\ waits \in Nat
    BY <1>6, MeasuredTwoSeconds DEF Awaited, Timed
  <2>2. waits <= IF First = ResetDip THEN 2 * PerSecond ELSE 1
    BY <2>1, InputReaderAssumption DEF Awaits
  <2> QED
    BY <1>1, <1>2, <1>3, <1>6, <2>1, <2>2, PausePositive, InputReaderAssumption
       DEF Awaited, Awaits
<1> QED
  BY <1>4, <1>5, <1>6

\* Every step of the switches, the clock and the io process keeps the waits short.
LEMMA NextAwaited ==
  ASSUME Timed, Awaited, ReaderNext
  PROVE  Awaited'
<1>0. wait \in Nat /\ waits \in Nat /\ held \in Nat /\ PerSecond \in Nat
  BY InputReaderAssumption DEF Timed, Awaited
<1>1. CASE ReadReset
  <2>1. First = ResetDip /\ UNCHANGED down /\ Send(Reset, {ResetDip})
    BY <1>1 DEF ReadReset, First, user
  <2> QED
    BY <2>1, SendAwaited DEF Reset
<1>2. CASE ReadSwitch
  <2>1. First = Found(Push) /\ First # ResetDip
    <3>1. ResetDip \notin down /\ Push = down /\ down # {}
      BY <1>2 DEF ReadSwitch, Push
    <3> QED
      BY <3>1, FirstIsLowest DEF First, Found
  <2>2. UNCHANGED down /\ io = "read_input" /\ wait = 0 /\ down # {}
    BY <1>2 DEF ReadSwitch, Polls, user, Push
  <2>3. CASE First = 4 /\ Send(Chord, {4, 6})
    BY <2>2, <2>3, SendAwaited DEF Chord
  <2>4. CASE Send(SwitchInput[First], {First})
    <3>1. SwitchInput[First] # "B"
      BY <2>1, <2>2, FirstIsLowest DEF SwitchInput, ResetDip
    <3> QED
      BY <2>2, <2>4, <3>1, SendAwaited
  <2>5. CASE First = 1 /\ io' = "long" /\ held' = 0 /\ UNCHANGED <<wait, waits>>
    <3>1. First' = First
      BY <2>2 DEF First
    <3> QED
      BY <1>0, <2>1, <2>2, <2>5, <3>1, PausePositive DEF Awaited, Awaits
  <2> QED
    BY <1>2, <2>1, <2>3, <2>4, <2>5 DEF ReadSwitch
<1>3. CASE LongPoll
  <2>1. io = "long" /\ wait = 0 /\ UNCHANGED down
    BY <1>3 DEF LongPoll, user
  <2>2. CASE Send(Long, {1})
    BY <2>1, <2>2, SendAwaited DEF Long
  <2>3. CASE 1 \notin down /\ Send(SwitchInput[1], {1})
    <3>1. down # {} => First # 1
      BY <2>3, FirstIsLowest
    <3> QED
      BY <2>1, <2>3, <3>1, SendAwaited DEF SwitchInput
  <2>4. CASE 1 \in down /\ NothingSent
    <3>1. First \in {0, 1} /\ First' = First
      BY <2>1, <2>4, FirstIsLowest DEF First
    <3>2. wait' = 1 /\ UNCHANGED <<io, waits, held>>
      BY <2>4 DEF NothingSent
    <3> QED
      BY <1>0, <2>1, <2>4, <3>1, <3>2, PausePositive DEF Awaited, Awaits, ResetDip
  <2> QED
    BY <1>3, <2>2, <2>3, <2>4 DEF LongPoll
<1>4. CASE ReadKey
  <2>1. down = {} /\ UNCHANGED down
    BY <1>4 DEF ReadKey
  <2>2. CASE \E k : Send(k, {})
    BY <2>1, <2>2, SendAwaited
  <2>3. CASE NothingSent
    BY <1>0, <2>1, <2>3, PausePositive DEF NothingSent, Awaited
  <2> QED
    BY <1>4, <2>2, <2>3 DEF ReadKey
<1>5. CASE TimePasses
  <2>1. wait > 0 /\ wait' = wait - 1 /\ UNCHANGED <<io, down>> /\ io # "exited"
    BY <1>5 DEF TimePasses, user
  <2>2. /\ held' = IF io = "long" THEN held + 1 ELSE held
        /\ waits' = IF down = {} THEN 0 ELSE waits + 1
    BY <1>5 DEF TimePasses
  <2>3. First' = First
    BY <2>1 DEF First
  <2> QED
    BY <1>0, <2>1, <2>2, <2>3, PausePositive DEF Awaited, Awaits
<1>6. ASSUME NEW s \in Switches \cup {ResetDip}, MoveSwitch(s), io # "exited"
      PROVE  Awaited'
  <2>1. UNCHANGED <<io, wait, held>>
    BY <1>6 DEF MoveSwitch
  <2>2. CASE waits' = 0
    <3>1. io = "long" => wait \in {0, 1}
      BY DEF Timed, Measured
    <3> QED
      BY <1>0, <1>6, <2>1, <2>2, <3>1, PausePositive DEF Awaited, Awaits
  <2>3. CASE down # {} /\ First' = First /\ waits' = waits
    BY <1>0, <1>6, <2>1, <2>3 DEF Awaited, Awaits
  <2> QED
    BY <1>6, <2>2, <2>3 DEF MoveSwitch
<1>7. ASSUME NEW e, KeyEvent(e) PROVE Awaited'
  BY <1>7 DEF KeyEvent, Awaited, Awaits, First
<1> QED
  BY <1>1, <1>2, <1>3, <1>4, <1>5, <1>6, <1>7, ReaderActions

\* The invariants hold in both parts of the system.
LEMMA InitReader == DevicesInit => Timed /\ Awaited
  BY InputReaderAssumption, PausePositive
     DEF DevicesInit, ReaderInit, Timed, Measured, LongPressTimed, Awaited, NoInput, Long

\* The invariant of the measurement, for every user.
LEMMA AlwaysTimed == DevicesSpec => []Timed
<1>1. Timed /\ [DevicesNext]_devicesVars => Timed'
  <2> SUFFICES ASSUME Timed, [DevicesNext]_devicesVars PROVE Timed'
    OBVIOUS
  <2>1. CASE ReaderNext
    BY <2>1, NextTimed
  <2>2. CASE UNCHANGED readerVars
    BY <2>2 DEF readerVars, Timed, Measured, LongPressTimed
  <2> QED
    BY <2>1, <2>2 DEF DevicesNext, OfReader, OfLed, devicesVars
<1> QED
  BY <1>1, InitReader, PTL DEF DevicesSpec

\* The invariant of the waits, for every user.
LEMMA AlwaysAwaited == DevicesSpec => []Awaited
<1>1. Timed /\ Awaited /\ [DevicesNext]_devicesVars => Awaited'
  <2> SUFFICES ASSUME Timed, Awaited, [DevicesNext]_devicesVars PROVE Awaited'
    OBVIOUS
  <2>1. CASE ReaderNext
    BY <2>1, NextAwaited
  <2>2. CASE UNCHANGED readerVars
    BY <2>2 DEF readerVars, Awaited, Awaits, First
  <2> QED
    BY <2>1, <2>2 DEF DevicesNext, OfReader, OfLed, devicesVars
<1> QED
  BY <1>1, InitReader, AlwaysTimed, PTL DEF DevicesSpec

\* Whatever the user does with the switches, the lowest that is down is sent in time:
\* within a pause of io_process and a poll, with a measurement of 1 before it (or of
\* itself) in two seconds more, however many polls make a second.
THEOREM HeldSwitchIsSent == DevicesSpec => []HeldIsSent
<1>1. Timed /\ Awaited => HeldIsSent
  <2> SUFFICES ASSUME Timed, Awaited, down # {} PROVE waits <= Patience
    BY DEF HeldIsSent
  <2>1. wait \in Nat /\ waits \in Nat /\ held \in Nat /\ PerSecond \in Nat /\ Awaits
        /\ (io = "long" => held <= 2 * PerSecond)
    BY InputReaderAssumption, MeasuredTwoSeconds DEF Timed, Awaited
  <2> QED
    BY <2>1, PausePositive DEF Patience, Awaits
<1> QED
  BY <1>1, AlwaysTimed, AlwaysAwaited, PTL

\* ONE_LONG takes more than one second and at most two, however many polls make a
\* second (has_one_second_elapsed compares tv_sec).
THEOREM LongPressIsTimed == DevicesSpec => []LongPressTimed
<1>1. Timed => LongPressTimed
  BY DEF Timed
<1> QED
  BY <1>1, AlwaysTimed, PTL

=============================================================================
