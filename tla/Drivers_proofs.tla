--------------------------- MODULE Drivers_proofs ---------------------------
(***************************************************************************)
(* What is proved about the drivers that are loaded one at a time, for     *)
(* every number of processes: the interrupts of pra6, the kernel timer and *)
(* the memory driver of pra5, and the timer of hw2 with any options and    *)
(* any number of runs.  A step of one driver leaves the state of the       *)
(* others alone, so that each has an invariant of its own.                 *)
(***************************************************************************)
EXTENDS Drivers, TLAPS

\* Only the driver that is loaded takes a step: each sees steps of its own or none.
LEMMA Apart ==
  ASSUME [DriversNext]_driversVars
  PROVE  /\ [Next]_vars
         /\ [BlinkNext]_blinkVars
         /\ [MemNext]_memVars
         /\ [InterNext]_interVars
<1>1. CASE OfTimer(Next)
  BY <1>1 DEF OfTimer
<1>2. CASE OfBlink(BlinkNext)
  BY <1>2 DEF OfBlink
<1>3. CASE OfMem(MemNext)
  BY <1>3 DEF OfMem
<1>4. CASE OfInter(InterNext)
  BY <1>4 DEF OfInter
<1>5. CASE UNCHANGED driversVars
  BY <1>5 DEF driversVars
<1>6. QED
  BY <1>1, <1>2, <1>3, <1>4, <1>5 DEF DriversNext

----------------------------------------------------------------------------
(* The interrupts of pra6.                                                 *)

\* Who has found the count at 0 and has not been woken has seen at least as many
\* presses as are counted: no press is counted that is not one of its own.
Places == {"closed", "write", "sleep_on", "asleep", "close"}
InterTypes ==
  /\ sleeper \in [Sleepers -> Places]
  /\ presses \in [Sleepers -> 0..5]
  /\ interruptCount \in 0..4
Seen ==
  \A a \in Sleepers :
    sleeper[a] \in {"sleep_on", "asleep"} => presses[a] >= interruptCount
InterInv == InterTypes /\ Seen /\ early = FALSE

\* What Rising does to the presses.
LEMMA OneMore ==
  ASSUME NEW n \in 0..5
  PROVE  Min({n + 1, 5}) = IF n < 5 THEN n + 1 ELSE 5
<1> DEFINE S == {n + 1, 5}
           m == IF n < 5 THEN n + 1 ELSE 5
<1>1. m \in S /\ \A y \in S : m <= y
  OBVIOUS
<1>2. \A x \in S : (\A y \in S : x <= y) => x = m
  OBVIOUS
<1>3. QED
  BY <1>1, <1>2 DEF Min

\* A step of the interrupt driver keeps InterInv.
LEMMA InterStep ==
  ASSUME InterInv, [InterNext]_interVars
  PROVE  InterInv'
<1> USE DEF InterInv
<1>1. CASE Down
  BY <1>1 DEF Down, InterTypes, Seen
<1>2. CASE Rising
  <2>1. presses' = [a \in Sleepers |-> IF presses[a] < 5 THEN presses[a] + 1 ELSE 5]
    BY <1>2, OneMore DEF Rising, InterTypes
  <2>2. CASE requested
    <3>1. /\ interruptCount' = IF interruptCount + 1 >= 5 THEN 0 ELSE interruptCount + 1
          /\ sleeper' = [a \in Sleepers |->
               IF interruptCount + 1 >= 5 /\ sleeper[a] = "asleep" THEN "close" ELSE sleeper[a]]
      BY <1>2, <2>2 DEF Rising, inter_handler3, CountAfter, Fifth
    <3>2. InterTypes'
      BY <2>1, <3>1 DEF InterTypes, Places
    <3>3. Seen'
      BY <2>1, <3>1 DEF InterTypes, Seen
    <3>4. \A a \in Sleepers : sleeper'[a] # sleeper[a] => presses'[a] = 5
      BY <2>1, <3>1 DEF InterTypes, Seen
    <3>5. early' = FALSE
      <4>1. \A a \in Sleepers : sleeper'[a] # sleeper[a] => ~(presses'[a] < 5)
        BY <3>4
      <4>2. early' = (early \/ \E a \in Sleepers : sleeper'[a] # sleeper[a] /\ presses'[a] < 5)
        BY <1>2, <2>2 DEF Rising, inter_handler3
      <4>3. QED
        BY <4>1, <4>2, Zenon
    <3>6. QED
      BY <3>2, <3>3, <3>5
  <2>3. CASE ~requested
    <3>1. UNCHANGED <<sleeper, interruptCount, early>>
      BY <1>2, <2>3 DEF Rising
    <3>2. QED
      BY <2>1, <3>1 DEF InterTypes, Seen
  <2>4. QED
    BY <2>2, <2>3
<1>3. ASSUME NEW a \in Sleepers, inter_open(a)
      PROVE  InterInv'
  BY <1>3 DEF inter_open, Goes, InterTypes, Seen, Places
<1>4. ASSUME NEW a \in Sleepers, inter_write(a)
      PROVE  InterInv'
  BY <1>4 DEF inter_write, Goes, Sleeps, InterTypes, Seen, Places
<1>5. ASSUME NEW a \in Sleepers, interruptible_sleep_on(a)
      PROVE  InterInv'
  BY <1>5 DEF interruptible_sleep_on, Goes, InterTypes, Seen, Places
<1>6. ASSUME NEW a \in Sleepers, Signal(a)
      PROVE  InterInv'
  BY <1>6 DEF Signal, Goes, InterTypes, Seen, Places
<1>7. ASSUME NEW a \in Sleepers, inter_release(a)
      PROVE  InterInv'
  BY <1>7 DEF inter_release, Goes, InterTypes, Seen, Places
<1>8. CASE UNCHANGED interVars
  BY <1>8 DEF interVars, InterTypes, Seen
<1>9. QED
  BY <1>1, <1>2, <1>3, <1>4, <1>5, <1>6, <1>7, <1>8 DEF InterNext, Process

\* For any number of processes that have the device open, and whatever is pressed
\* before, between and after their calls: inter_handler3 wakes nobody before the fifth
\* press since the process has found the count at 0.
THEOREM WokenByTheFifth == DriversSpec => []FivePresses
<1>1. DriversInit => InterInv
  BY DEF DriversInit, InterInit, InterInv, InterTypes, Seen, Places
<1>2. InterInv /\ [DriversNext]_driversVars => InterInv'
  BY Apart, InterStep
<1>3. InterInv => FivePresses
  BY Zenon DEF InterInv, FivePresses
<1>4. QED
  BY <1>1, <1>2, <1>3, PTL DEF DriversSpec

----------------------------------------------------------------------------
(* The kernel timer of pra5.                                               *)

WriterTypes ==
  /\ writer \in [Writers -> {"closed", "open", "write", "delete", "add", "close"}]
  /\ crowded \in BOOLEAN /\ installed \in BOOLEAN

\* A process has the device open only while the module is loaded; rmmod, which waits
\* for the last of them and for the handler, leaves nothing.
Gone ==
  /\ \A a \in Writers : writer[a] # "closed" => installed
  /\ NothingLeft

\* Unless two have passed the test at once, kernel_timer_usage lets one writer in.
OneWriter ==
  /\ \A a, b \in Writers : writer[a] # "closed" /\ writer[b] # "closed" => a = b
  /\ \A a \in Writers : writer[a] \notin {"closed", "open"} => kernel_timer_usage # 0

\* Then the timer is not set while its handler runs or while the writer is between
\* del_timer_sync and add_timer; then no handler runs either.
NotSetTwice ==
  /\ blink \in {"idle", "store", "test", "add"}
  /\ pending \in BOOLEAN /\ raced \in BOOLEAN
  /\ blink # "idle" => ~pending
  /\ \A a \in Writers : writer[a] = "add" => ~pending /\ blink = "idle"
  /\ doubled = FALSE

\* The blinks made and those that are left are what was asked for, at every line of
\* the handler; a timer that is not set has none left.
Left(n) == IF n > 0 THEN n ELSE 0
Counts ==
  blinks \in Int /\ register \in Int /\ total \in Int /\ base \in Int /\ asked \in Nat
Remains ==
  /\ blink = "idle" => total - base + Left(blinks) = asked
  /\ blink = "store" => register = blinks
  /\ blink \in {"test", "add"} => blinks = register - 1
  /\ blink \in {"store", "test", "add"} => total - base + Left(register) = asked
  /\ blink = "add" => register > 0
Done == blink = "idle" /\ ~pending /\ ~Writing /\ installed
NoneLeft == Done => blinks <= 0

ByOne == OneWriter /\ NotSetTwice /\ Counts /\ (~raced => Remains /\ NoneLeft)
BlinkInv == WriterTypes /\ Gone /\ (~crowded => ByOne)

\* The larger of a number and 0.
LEMMA MaxLeft ==
  ASSUME NEW n \in Int
  PROVE  Max({n, 0}) = Left(n)
<1>1. Left(n) \in {n, 0} /\ \A y \in {n, 0} : Left(n) >= y
  BY DEF Left
<1>2. \A x \in {n, 0} : (\A y \in {n, 0} : x >= y) => x = Left(n)
  BY DEF Left
<1>3. QED
  BY <1>1, <1>2 DEF Max

\* A step of the kernel timer, by action.
LEMMA BlinkActions ==
  ASSUME [BlinkNext]_blinkVars
  PROVE  \/ kernel_timer_exit \/ Expire \/ BlinkStore \/ BlinkTest \/ BlinkAdd
         \/ \E a \in Writers : kernel_timer_open_test(a)
         \/ \E a \in Writers : kernel_timer_open_set(a)
         \/ \E a \in Writers : WriteDelete(a)
         \/ \E a \in Writers : WriteAdd(a)
         \/ \E a \in Writers : kernel_timer_release(a)
         \/ \E a \in Writers, n \in Numbers : WriteCount(a, n)
         \/ UNCHANGED blinkVars
  BY Zenon DEF BlinkNext

\* Only the test of open can find a second process; once one did, it is remembered.
LEMMA KeepsWriterTypes ==
  ASSUME WriterTypes, [BlinkNext]_blinkVars
  PROVE  WriterTypes' /\ (crowded => crowded')
<1> USE DEF WriterTypes
<1>1. CASE kernel_timer_exit
  BY <1>1, Zenon DEF kernel_timer_exit
<1>2. CASE Expire
  BY <1>2, Zenon DEF Expire
<1>3. CASE BlinkStore
  BY <1>3, Zenon DEF BlinkStore
<1>4. CASE BlinkTest
  BY <1>4, Zenon DEF BlinkTest
<1>5. CASE BlinkAdd
  BY <1>5, Zenon DEF BlinkAdd
<1>6. ASSUME NEW a \in Writers, kernel_timer_open_test(a)
      PROVE  WriterTypes' /\ (crowded => crowded')
  BY <1>6 DEF kernel_timer_open_test
<1>7. ASSUME NEW a \in Writers, kernel_timer_open_set(a)
      PROVE  WriterTypes' /\ (crowded => crowded')
  BY <1>7 DEF kernel_timer_open_set
<1>8. ASSUME NEW a \in Writers, WriteDelete(a)
      PROVE  WriterTypes' /\ (crowded => crowded')
  BY <1>8 DEF WriteDelete
<1>9. ASSUME NEW a \in Writers, WriteAdd(a)
      PROVE  WriterTypes' /\ (crowded => crowded')
  BY <1>9 DEF WriteAdd
<1>10. ASSUME NEW a \in Writers, kernel_timer_release(a)
       PROVE  WriterTypes' /\ (crowded => crowded')
  BY <1>10 DEF kernel_timer_release
<1>11. ASSUME NEW a \in Writers, NEW n \in Numbers, WriteCount(a, n)
       PROVE  WriterTypes' /\ (crowded => crowded')
  BY <1>11 DEF WriteCount
<1>12. CASE UNCHANGED blinkVars
  BY <1>12, Zenon DEF blinkVars
<1>13. QED
  BY <1>1, <1>2, <1>3, <1>4, <1>5, <1>6, <1>7, <1>8, <1>9, <1>10, <1>11, <1>12, BlinkActions,
     Zenon

\* rmmod waits for the last process and for the handler, whoever else is in.
LEMMA KeepsGone ==
  ASSUME WriterTypes, Gone, [BlinkNext]_blinkVars
  PROVE  Gone'
<1> USE DEF WriterTypes, Gone, NothingLeft
<1>1. CASE kernel_timer_exit
  BY <1>1 DEF kernel_timer_exit, del_timer_sync, Waited, handler
<1>2. CASE Expire
  BY <1>2 DEF Expire
<1>3. CASE BlinkStore
  BY <1>3 DEF BlinkStore
<1>4. CASE BlinkTest
  BY <1>4 DEF BlinkTest
<1>5. CASE BlinkAdd
  BY <1>5 DEF BlinkAdd, add_timer
<1>6. ASSUME NEW a \in Writers, kernel_timer_open_test(a)
      PROVE  Gone'
  BY <1>6 DEF kernel_timer_open_test, handler
<1>7. ASSUME NEW a \in Writers, kernel_timer_open_set(a)
      PROVE  Gone'
  BY <1>7 DEF kernel_timer_open_set, handler
<1>8. ASSUME NEW a \in Writers, WriteDelete(a)
      PROVE  Gone'
  BY <1>8 DEF WriteDelete, del_timer_sync, handler
<1>9. ASSUME NEW a \in Writers, WriteAdd(a)
      PROVE  Gone'
  BY <1>9 DEF WriteAdd, add_timer, handler
<1>10. ASSUME NEW a \in Writers, kernel_timer_release(a)
       PROVE  Gone'
  BY <1>10 DEF kernel_timer_release, handler
<1>11. ASSUME NEW a \in Writers, NEW n \in Numbers, WriteCount(a, n)
       PROVE  Gone'
  BY <1>11 DEF WriteCount, handler
<1>12. CASE UNCHANGED blinkVars
  BY <1>12 DEF blinkVars, handler
<1>13. QED
  BY <1>1, <1>2, <1>3, <1>4, <1>5, <1>6, <1>7, <1>8, <1>9, <1>10, <1>11, <1>12, BlinkActions,
     Zenon

\* open needs the device closed unless two meet in it, everything else is done by
\* the one writer.
LEMMA KeepsOneWriter ==
  ASSUME WriterTypes, OneWriter, ~crowded', [BlinkNext]_blinkVars
  PROVE  OneWriter'
<1> USE DEF WriterTypes, OneWriter
<1>1. CASE kernel_timer_exit
  BY <1>1 DEF kernel_timer_exit
<1>2. CASE Expire
  BY <1>2, Zenon DEF Expire
<1>3. CASE BlinkStore
  BY <1>3, Zenon DEF BlinkStore
<1>4. CASE BlinkTest
  BY <1>4, Zenon DEF BlinkTest
<1>5. CASE BlinkAdd
  BY <1>5, Zenon DEF BlinkAdd
<1>6. ASSUME NEW a \in Writers, kernel_timer_open_test(a)
      PROVE  OneWriter'
  <2>1. /\ kernel_timer_usage' = kernel_timer_usage
        /\ writer' = [writer EXCEPT ![a] = "open"]
        /\ crowded' = (crowded \/ \E b \in Writers : writer[b] # "closed")
    BY <1>6, Zenon DEF kernel_timer_open_test
  <2>2. \A b \in Writers : writer[b] = "closed"
    BY <2>1, Zenon
  <2>3. QED
    BY <2>1, <2>2
<1>7. ASSUME NEW a \in Writers, kernel_timer_open_set(a)
      PROVE  OneWriter'
  BY <1>7 DEF kernel_timer_open_set
<1>8. ASSUME NEW a \in Writers, WriteDelete(a)
      PROVE  OneWriter'
  BY <1>8 DEF WriteDelete
<1>9. ASSUME NEW a \in Writers, WriteAdd(a)
      PROVE  OneWriter'
  BY <1>9 DEF WriteAdd
<1>10. ASSUME NEW a \in Writers, kernel_timer_release(a)
       PROVE  OneWriter'
  BY <1>10 DEF kernel_timer_release
<1>11. ASSUME NEW a \in Writers, NEW n \in Numbers, WriteCount(a, n)
       PROVE  OneWriter'
  BY <1>11 DEF WriteCount
<1>12. CASE UNCHANGED blinkVars
  BY <1>12, Zenon DEF blinkVars
<1>13. QED
  BY <1>1, <1>2, <1>3, <1>4, <1>5, <1>6, <1>7, <1>8, <1>9, <1>10, <1>11, <1>12, BlinkActions,
     Zenon

\* add_timer is reached with the timer deleted, or by the handler it has started.
LEMMA KeepsNotSetTwice ==
  ASSUME WriterTypes, OneWriter, NotSetTwice, ~crowded', [BlinkNext]_blinkVars
  PROVE  NotSetTwice'
<1> USE DEF WriterTypes, NotSetTwice
<1>1. CASE kernel_timer_exit
  BY <1>1 DEF kernel_timer_exit, del_timer_sync, Waited, handler, asking
<1>2. CASE Expire
  BY <1>2 DEF Expire, asking
<1>3. CASE BlinkStore
  BY <1>3 DEF BlinkStore, asking
<1>4. CASE BlinkTest
  BY <1>4 DEF BlinkTest, asking
<1>5. CASE BlinkAdd
  BY <1>5 DEF BlinkAdd, add_timer, asking
<1>6. ASSUME NEW a \in Writers, kernel_timer_open_test(a)
      PROVE  NotSetTwice'
  BY <1>6 DEF kernel_timer_open_test, handler, asking
<1>7. ASSUME NEW a \in Writers, kernel_timer_open_set(a)
      PROVE  NotSetTwice'
  BY <1>7 DEF kernel_timer_open_set, handler, asking
<1>8. ASSUME NEW a \in Writers, WriteDelete(a)
      PROVE  NotSetTwice'
  BY <1>8 DEF WriteDelete, del_timer_sync, Waited, OneWriter, handler, asking
<1>9. ASSUME NEW a \in Writers, WriteAdd(a)
      PROVE  NotSetTwice'
  <2>1. /\ pending' = TRUE /\ doubled' = (doubled \/ pending)
        /\ blink' = blink /\ raced' = raced
        /\ writer' = [writer EXCEPT ![a] = "close"] /\ writer[a] = "add"
    BY <1>9 DEF WriteAdd, add_timer, handler, asking
  <2>2. ~pending /\ blink = "idle"
    BY <2>1
  <2>3. \A b \in Writers : writer'[b] # "add"
    BY <2>1 DEF OneWriter
  <2>4. QED
    BY <2>1, <2>2, <2>3
<1>10. ASSUME NEW a \in Writers, kernel_timer_release(a)
       PROVE  NotSetTwice'
  BY <1>10 DEF kernel_timer_release, OneWriter, handler, asking
<1>11. ASSUME NEW a \in Writers, NEW n \in Numbers, WriteCount(a, n)
       PROVE  NotSetTwice'
  BY <1>11 DEF WriteCount, OneWriter, handler
<1>12. CASE UNCHANGED blinkVars
  BY <1>12 DEF blinkVars, handler, asking
<1>13. QED
  BY <1>1, <1>2, <1>3, <1>4, <1>5, <1>6, <1>7, <1>8, <1>9, <1>10, <1>11, <1>12, BlinkActions,
     Zenon

\* Every line of the handler keeps the sum, and a write that meets no handler starts
\* it anew.
LEMMA KeepsCount ==
  ASSUME WriterTypes, ByOne, [BlinkNext]_blinkVars
  PROVE  Counts' /\ (~raced' => Remains' /\ NoneLeft')
<1> DEFINE Sum == Counts /\ (~raced => Remains /\ NoneLeft)
<1> USE DEF WriterTypes, ByOne
<1>1. CASE kernel_timer_exit
  <2>1. UNCHANGED <<blinks, handler, total, asking>>
    BY <1>1, Zenon DEF kernel_timer_exit
  <2>2. ~Done'
    BY <1>1, Zenon DEF kernel_timer_exit, Done
  <2>3. QED
    BY <2>1, <2>2 DEF Counts, Remains, NoneLeft, handler, asking
<1>2. CASE Expire
  <2>1. /\ blink = "idle" /\ blink' = "store" /\ register' = blinks
        /\ UNCHANGED <<blinks, total, asking>>
    BY <1>2, Zenon DEF Expire
  <2>2. ~Done'
    BY <2>1 DEF Done
  <2>3. QED
    BY <2>1, <2>2 DEF Counts, Remains, NoneLeft, asking
<1>3. CASE BlinkStore
  <2>1. /\ blink = "store" /\ blink' = "test" /\ blinks' = register - 1
        /\ UNCHANGED <<register, total, asking>>
    BY <1>3, Zenon DEF BlinkStore
  <2>2. ~Done'
    BY <2>1 DEF Done
  <2>3. QED
    BY <2>1, <2>2 DEF Counts, Remains, NoneLeft, asking
<1>4. CASE BlinkTest
  <2>1. /\ blink = "test" /\ UNCHANGED <<blinks, register, total, asking>>
        /\ \E n \in {register - 1, blinks} : blink' = IF n < 0 THEN "idle" ELSE "add"
    BY <1>4, Zenon DEF BlinkTest, Over
  <2>2. Counts'
    BY <2>1 DEF Counts, asking
  <2>3. ASSUME ~raced'
        PROVE  Remains' /\ NoneLeft'
    <3>1. /\ blinks = register - 1 /\ total - base + Left(register) = asked
          /\ UNCHANGED <<base, asked>>
      BY <2>1, <2>3 DEF Remains, asking
    <3>2. blink' = IF blinks < 0 THEN "idle" ELSE "add"
      BY <2>1, <3>1
    <3>3. CASE blinks < 0
      BY <2>1, <3>1, <3>2, <3>3 DEF Counts, Remains, NoneLeft, Left
    <3>4. CASE ~(blinks < 0)
      <4>1. blink' = "add" /\ register > 0
        BY <3>1, <3>2, <3>4 DEF Counts
      <4>2. ~Done'
        BY <4>1 DEF Done
      <4>3. QED
        BY <2>1, <3>1, <4>1, <4>2 DEF Counts, Remains, NoneLeft, Left
    <3>5. QED
      BY <3>3, <3>4
  <2>4. QED
    BY <2>2, <2>3
<1>5. CASE BlinkAdd
  <2>1. /\ blink = "add" /\ blink' = "idle" /\ total' = total + 1
        /\ UNCHANGED <<blinks, register, asking>>
    BY <1>5, Zenon DEF BlinkAdd
  <2>2. ~Done'
    BY <1>5, Zenon DEF BlinkAdd, add_timer, Done
  <2>3. QED
    BY <2>1, <2>2 DEF Counts, Remains, NoneLeft, asking, Left
<1>6. ASSUME NEW a \in Writers, kernel_timer_open_test(a)
      PROVE  Sum'
  <2>1. UNCHANGED <<blinks, pending, handler, total, installed, asking>>
    BY <1>6, Zenon DEF kernel_timer_open_test
  <2>2. writer' = [writer EXCEPT ![a] = "open"] /\ writer[a] = "closed"
    BY <1>6, Zenon DEF kernel_timer_open_test
  <2>3. Writing' <=> Writing
    BY <2>2 DEF Writing
  <2>4. Done' <=> Done
    BY <2>1, <2>3, Zenon DEF Done, handler
  <2>5. QED
    BY <2>1, <2>4 DEF Counts, Remains, NoneLeft, handler, asking
<1>7. ASSUME NEW a \in Writers, kernel_timer_open_set(a)
      PROVE  Sum'
  <2>1. UNCHANGED <<blinks, pending, handler, total, installed, asking>>
    BY <1>7, Zenon DEF kernel_timer_open_set
  <2>2. writer' = [writer EXCEPT ![a] = "write"] /\ writer[a] = "open"
    BY <1>7, Zenon DEF kernel_timer_open_set
  <2>3. Writing' <=> Writing
    BY <2>2 DEF Writing
  <2>4. Done' <=> Done
    BY <2>1, <2>3, Zenon DEF Done, handler
  <2>5. QED
    BY <2>1, <2>4 DEF Counts, Remains, NoneLeft, handler, asking
<1>8. ASSUME NEW a \in Writers, WriteDelete(a)
      PROVE  Sum'
  <2>1. UNCHANGED <<blinks, handler, total, asking>>
    BY <1>8, Zenon DEF WriteDelete
  <2>2. Writing'
    BY <1>8 DEF WriteDelete, Writing, OneWriter
  <2>3. QED
    BY <2>1, <2>2 DEF Done, Counts, Remains, NoneLeft, handler, asking
<1>9. ASSUME NEW a \in Writers, WriteAdd(a)
      PROVE  Sum'
  <2>1. UNCHANGED <<blinks, handler, total, asking>>
    BY <1>9, Zenon DEF WriteAdd
  <2>2. ~Done'
    BY <1>9, Zenon DEF WriteAdd, add_timer, Done
  <2>3. QED
    BY <2>1, <2>2 DEF Counts, Remains, NoneLeft, handler, asking
<1>10. ASSUME NEW a \in Writers, kernel_timer_release(a)
      PROVE  Sum'
  <2>1. UNCHANGED <<blinks, pending, handler, total, installed, asking>>
    BY <1>10, Zenon DEF kernel_timer_release
  <2>2. writer' = [writer EXCEPT ![a] = "closed"] /\ writer[a] = "close"
    BY <1>10, Zenon DEF kernel_timer_release
  <2>3. Writing' <=> Writing
    BY <2>2 DEF Writing
  <2>4. Done' <=> Done
    BY <2>1, <2>3, Zenon DEF Done, handler
  <2>5. QED
    BY <2>1, <2>4 DEF Counts, Remains, NoneLeft, handler, asking
<1>11. ASSUME NEW a \in Writers, NEW n \in Numbers, WriteCount(a, n)
       PROVE  Sum'
  <2>1. Char(n) \in Nat
    BY KernelTimerAssumption DEF Char
  <2>2. /\ blinks' = Char(n) /\ asked' = Char(n) /\ base' = total
        /\ UNCHANGED <<register, total, blink>>
    BY <1>11, Zenon DEF WriteCount, handler
  <2>3. Writing'
    BY <1>11 DEF WriteCount, Writing, OneWriter
  <2>4. ~Done'
    BY <2>3, Zenon DEF Done
  <2>5. ~raced' => blink = "idle"
    BY <1>11, Zenon DEF WriteCount
  <2>6. QED
    BY <2>1, <2>2, <2>4, <2>5 DEF Counts, Remains, NoneLeft, Left
<1>12. CASE UNCHANGED blinkVars
  <2>1. UNCHANGED <<blinks, pending, writer, handler, total, installed, asking>>
    BY <1>12, Zenon DEF blinkVars
  <2>2. Done' <=> Done
    BY <2>1, Zenon DEF Done, Writing, handler
  <2>3. QED
    BY <2>1, <2>2 DEF Counts, Remains, NoneLeft, handler, asking
<1>13. QED
  BY <1>1, <1>2, <1>3, <1>4, <1>5, <1>6, <1>7, <1>8, <1>9, <1>10, <1>11, <1>12, BlinkActions,
     Zenon

\* For any number of writers, any numbers and any number of writes: rmmod leaves no
\* timer and no handler behind; and as long as no two processes have passed the test
\* of kernel_timer_usage at once, the timer blinks as often as the last write asked
\* unless that write met a running handler, and add_timer never finds the timer set.
THEOREM BlinksAreCounted == DriversSpec => []BlinksAsAsked
<1>1. DriversInit => BlinkInv
  <2> SUFFICES ASSUME BlinkInit
               PROVE  BlinkInv
    BY DEF DriversInit
  <2>1. WriterTypes /\ Gone /\ OneWriter
    BY DEF BlinkInit, WriterTypes, Gone, NothingLeft, OneWriter
  <2>2. NotSetTwice
    BY DEF BlinkInit, NotSetTwice
  <2>3. Counts /\ Remains /\ NoneLeft
    BY DEF BlinkInit, Counts, Remains, NoneLeft, Left
  <2>4. QED
    BY <2>1, <2>2, <2>3 DEF BlinkInv, ByOne
<1>2. BlinkInv /\ [DriversNext]_driversVars => BlinkInv'
  <2> SUFFICES ASSUME BlinkInv, [BlinkNext]_blinkVars
               PROVE  BlinkInv'
    BY Apart
  <2>1. WriterTypes' /\ Gone' /\ (crowded => crowded')
    BY KeepsWriterTypes, KeepsGone DEF BlinkInv
  <2>2. ASSUME ~crowded'
        PROVE  ByOne'
    <3>1. WriterTypes /\ ByOne
      BY <2>1, <2>2 DEF BlinkInv
    <3>2. OneWriter' /\ NotSetTwice'
      BY <2>2, <3>1, KeepsOneWriter, KeepsNotSetTwice DEF ByOne
    <3>3. QED
      BY <3>1, <3>2, KeepsCount DEF ByOne
  <2>3. QED
    BY <2>1, <2>2 DEF BlinkInv
<1>3. BlinkInv => BlinksAsAsked
  <2> SUFFICES ASSUME BlinkInv, ~crowded
               PROVE  CountedDown /\ ~doubled
    BY DEF BlinksAsAsked, BlinkInv, Gone
  <2>1. ByOne
    BY DEF BlinkInv
  <2>2. ~doubled
    BY <2>1 DEF ByOne, NotSetTwice
  <2>3. ASSUME ~Writing, blink = "idle", ~raced, installed
        PROVE  total - base = IF pending THEN asked - Max({blinks, 0}) ELSE asked
    <3>1. total - base = asked - Max({blinks, 0})
      BY <2>1, <2>3, MaxLeft DEF ByOne, Counts, Remains, Left
    <3>2. CASE ~pending
      <4>1. Done
        BY <2>3, <3>2 DEF Done
      <4>2. Max({blinks, 0}) = 0
        BY <2>1, <2>3, <4>1, MaxLeft DEF ByOne, Counts, NoneLeft, Left
      <4>3. total - base = asked
        BY <2>1, <3>1, <4>2 DEF ByOne, Counts
      <4>4. QED
        BY <3>2, <4>3
    <3>3. QED
      BY <3>1, <3>2
  <2>4. QED
    BY <2>2, <2>3 DEF CountedDown
<1>4. QED
  BY <1>1, <1>2, <1>3, PTL DEF DriversSpec

----------------------------------------------------------------------------
(* The memory driver of pra5.                                              *)

HeapTypes ==
  /\ allocated \in 0..Blocks /\ ptr \in 0..Blocks
  /\ live \subseteq 1..allocated /\ refused \subseteq live
  /\ cell \in [1..Blocks -> [Sizes -> 0..Blocks]]
  /\ DOMAIN text = 1..Blocks /\ DOMAIN unread = Sizes

\* The device is open once; the blocks that are not freed are the array, for either
\* size a buffer of its own that was written and not read, and those whose last read
\* has failed.
Waiting(idx) == unread[idx] # Nothing
Owned ==
  /\ \A a, b \in clients : a = b
  /\ clients # {} => ptr \in live
  /\ \A idx \in Sizes :
       Waiting(idx) =>
         /\ clients # {}
         /\ cell[ptr][idx] \in live /\ cell[ptr][idx] # ptr
         /\ text[cell[ptr][idx]] = unread[idx]
  /\ Waiting(0) /\ Waiting(1) => cell[ptr][0] # cell[ptr][1]
  /\ clients # {} => ptr \notin refused
  /\ \A b \in live :
       \/ clients # {} /\ b = ptr
       \/ b \in refused
       \/ \E idx \in Sizes : Waiting(idx) /\ b = cell[ptr][idx]
Returned == corrupt = FALSE /\ fetched[1] = fetched[2]

MemInv == misused \in BOOLEAN /\ (~misused => HeapTypes /\ Owned /\ Returned)

\* A step of the memory driver keeps MemInv.
LEMMA MemStep ==
  ASSUME MemInv, [MemNext]_memVars
  PROVE  MemInv'
<1> USE DEF Waiting, Sizes
<1> DEFINE Good == HeapTypes /\ Owned /\ Returned
<1>1. ASSUME NEW a \in Clients, mem_ctrl_open(a), Good, ~misused'
      PROVE  Good'
  <2>1. /\ clients = {} /\ clients' = {a}
        /\ allocated' = allocated + 1 /\ allocated < Blocks
        /\ live' = live \cup {allocated'} /\ ptr' = allocated'
        /\ UNCHANGED <<cell, text, unread, refused, fetched, corrupt>>
    BY <1>1, MemCtrlAssumption DEF mem_ctrl_open, kmalloc
  <2>2. /\ \A b \in live : b \in refused
        /\ \A idx \in Sizes : unread[idx] = Nothing
    BY <1>1, <2>1 DEF Owned
  <2>3. HeapTypes'
    BY <1>1, <2>1, MemCtrlAssumption DEF HeapTypes
  <2>4. ptr' \notin refused'
    BY <1>1, <2>1, MemCtrlAssumption DEF HeapTypes
  <2>5. Owned'
    BY <2>1, <2>2, <2>4 DEF Owned
  <2>6. QED
    BY <1>1, <2>1, <2>3, <2>5 DEF Returned
<1>2. ASSUME NEW a \in Clients, NEW idx \in Sizes, NEW t \in Texts, mem_ctrl_write(a, idx, t),
             Good, ~misused'
      PROVE  Good'
  <2>1. PICK c \in {t, Garbage} :
          /\ text' = [text EXCEPT ![allocated'] = c]
          /\ unread' = [unread EXCEPT ![idx] = c]
    BY <1>2 DEF mem_ctrl_write, Copied
  <2>2. /\ clients # {} /\ ~Untried(idx) /\ ptr \in live
        /\ allocated' = allocated + 1 /\ allocated < Blocks
        /\ live' = live \cup {allocated'}
        /\ cell' = [cell EXCEPT ![ptr][idx] = allocated']
        /\ UNCHANGED <<clients, ptr, refused, fetched>>
    BY <1>2 DEF mem_ctrl_write, kmalloc, Owned
  <2>3. c # Nothing
    BY <2>1, TextsAssumption DEF Garbage, Nothing
  <2>4. HeapTypes'
    BY <1>2, <2>1, <2>2, MemCtrlAssumption DEF HeapTypes
  <2>5. ptr \in 1..Blocks /\ ptr < allocated' /\ \A b \in live : b < allocated'
    BY <1>2, <2>2, MemCtrlAssumption DEF HeapTypes
  <2>6. /\ cell'[ptr'][idx] = allocated' /\ text'[allocated'] = c /\ unread'[idx] = c
        /\ \A i \in Sizes \ {idx} : cell'[ptr'][i] = cell[ptr][i] /\ unread'[i] = unread[i]
        /\ \A b \in live : text'[b] = text[b]
    BY <1>2, <2>1, <2>2, <2>4, <2>5 DEF HeapTypes
  <2>7. \A b \in live : b # allocated'
    BY <2>5, <1>2, <2>2 DEF HeapTypes
  <2>8. Owned'
    <3>1. \A i \in Sizes \ {idx} : cell'[ptr'][i] = cell[ptr][i] /\ Waiting(i)' = Waiting(i)
      BY <2>6
    <3>2. \A i \in Sizes : Waiting(i)' => cell'[ptr'][i] \in live' /\ cell'[ptr'][i] # ptr'
                                        /\ text'[cell'[ptr'][i]] = unread'[i]
      BY <1>2, <2>2, <2>5, <2>6, <2>7, <3>1 DEF Owned
    <3>3. Waiting(0)' /\ Waiting(1)' => cell'[ptr'][0] # cell'[ptr'][1]
      BY <1>2, <2>2, <2>6, <2>7, <3>1 DEF Owned
    <3>4. Waiting(idx) => cell[ptr][idx] \in refused
      BY <2>2 DEF Untried
    <3>5. \A b \in live : b = ptr \/ b \in refused
                        \/ \E i \in Sizes \ {idx} : Waiting(i) /\ b = cell[ptr][i]
      BY <1>2, <2>2, <3>4 DEF Owned
    <3>6. Waiting(idx)' /\ cell'[ptr'][idx] = allocated'
      BY <2>3, <2>6
    <3>7. \A b \in live' : b = ptr' \/ b \in refused'
                         \/ \E i \in Sizes : Waiting(i)' /\ b = cell'[ptr'][i]
      BY <2>2, <3>1, <3>5, <3>6
    <3>8. QED
      BY <1>2, <2>2, <3>2, <3>3, <3>7 DEF Owned
  <2>9. corrupt' = FALSE
    BY <1>2, <2>2, Zenon DEF mem_ctrl_write, Returned
  <2>10. QED
    BY <1>2, <2>2, <2>4, <2>8, <2>9 DEF Returned
<1>3. ASSUME NEW a \in Clients, NEW idx \in Sizes, mem_ctrl_read(a, idx), Good, ~misused'
      PROVE  Good'
  <2> DEFINE b == cell[ptr][idx]
  <2>1. /\ a \in clients /\ unread[idx] # Nothing
        /\ UNCHANGED <<clients, ptr, cell, text>>
    BY <1>3 DEF mem_ctrl_read
  <2>2. ptr \in live /\ b \in live /\ b # ptr /\ text[b] = unread[idx]
    BY <1>3, <2>1 DEF Owned
  <2>3. corrupt' = FALSE
    BY <1>3, <2>2, Zenon DEF mem_ctrl_read, Returned
  <2>4. CASE refused' = refused \cup {b} /\ UNCHANGED <<live, allocated, unread, fetched>>
    BY <1>3, <2>1, <2>2, <2>3, <2>4 DEF HeapTypes, Owned, Returned
  <2>5. CASE /\ Freed(idx, b)
             /\ fetched' = <<unread[idx], IF b = 0 THEN Garbage ELSE text[b]>>
             /\ unread' = [unread EXCEPT ![idx] = Nothing]
             /\ refused' = refused \ {b}
    <3>1. live' = live \ {b} /\ allocated' = allocated
      BY <2>5 DEF Freed, kfree
    <3>2. HeapTypes'
      BY <1>3, <2>1, <2>5, <3>1 DEF HeapTypes
    <3>3. b # 0
      BY <1>3, <2>2 DEF HeapTypes
    <3>4. Returned'
      BY <2>2, <2>3, <2>5, <3>3 DEF Returned
    <3>5. /\ unread'[idx] = Nothing
          /\ \A i \in Sizes \ {idx} : unread'[i] = unread[i]
      BY <1>3, <2>5 DEF HeapTypes
    <3>6. Owned'
      BY <1>3, <2>1, <2>2, <2>5, <3>1, <3>5 DEF Owned
    <3>7. QED
      BY <3>2, <3>4, <3>6
  <2>6. QED
    BY <1>3, <2>4, <2>5, Zenon DEF mem_ctrl_read
<1>4. ASSUME NEW a \in Clients, mem_ctrl_release(a), Good, ~misused'
      PROVE  Good'
  <2>1. /\ a \in clients /\ clients' = clients \ {a}
        /\ live' = live \ {ptr} /\ allocated' = allocated
        /\ \A idx \in Sizes : ~Untried(idx)
        /\ unread' = [idx \in Sizes |-> Nothing]
        /\ UNCHANGED <<ptr, cell, text, refused, fetched>>
    BY <1>4 DEF mem_ctrl_release, kfree
  <2>2. clients' = {} /\ ptr \in live /\ ptr \notin refused
    BY <1>4, <2>1 DEF Owned
  <2>3. live' = refused
    <3>1. \A b \in live : b = ptr \/ b \in refused
      BY <1>4, <2>1 DEF Owned, Untried
    <3>2. refused \subseteq live
      BY <1>4 DEF HeapTypes
    <3>3. QED
      BY <2>1, <2>2, <3>1, <3>2
  <2>4. corrupt' = FALSE
    BY <1>4, <2>2, Zenon DEF mem_ctrl_release, Returned
  <2>5. QED
    BY <1>4, <2>1, <2>2, <2>3, <2>4 DEF HeapTypes, Owned, Returned
<1>5. CASE UNCHANGED memVars
  BY <1>5 DEF memVars, MemInv, HeapTypes, Owned, Returned
<1>6. misused' \in BOOLEAN
  BY <1>5 DEF MemInv, MemNext, mem_ctrl_open, mem_ctrl_write, mem_ctrl_read, mem_ctrl_release
<1>7. ASSUME MemNext
      PROVE  ~misused' => Good'
  <2>1. Good
    BY <1>7 DEF MemNext, MemInv
  <2>2. QED
    BY <1>1, <1>2, <1>3, <1>4, <1>7, <2>1, Zenon DEF MemNext
<1>8. QED
  BY <1>5, <1>6, <1>7 DEF MemInv

\* For any number of processes, texts and blocks: as long as the device is used the
\* way test_mem uses it, no pointer is used that is freed or was never written, a
\* read returns what was written for its size, and close leaves behind the buffers
\* whose last read has failed, and no other block.
THEOREM BlocksAreFreedOnce == DriversSpec => []HeapSound
<1>1. DriversInit => MemInv
  <2> SUFFICES ASSUME MemInit
               PROVE  MemInv
    BY DEF DriversInit
  <2>1. HeapTypes
    BY MemCtrlAssumption DEF MemInit, HeapTypes, Sizes
  <2>2. Owned /\ Returned /\ misused = FALSE
    BY DEF MemInit, Owned, Waiting, Returned, Sizes
  <2>3. QED
    BY <2>1, <2>2 DEF MemInv
<1>2. MemInv /\ [DriversNext]_driversVars => MemInv'
  BY Apart, MemStep
<1>3. MemInv => HeapSound
  BY DEF MemInv, HeapTypes, Owned, Waiting, Returned, HeapSound
<1>4. QED
  BY <1>1, <1>2, <1>3, PTL DEF DriversSpec

----------------------------------------------------------------------------
(* The timer of hw2: the word, the digits and the positions.               *)

\* The four digits that are shown are those of the number below 10000.
MadeUp(m) ==
  m % 10000 = 1000 * ((m \div 1000) % 10) + 100 * ((m \div 100) % 10)
              + 10 * ((m \div 10) % 10) + ((m \div 1) % 10)

\* MadeUp holds for every number.
LEMMA FourDigits ==
  ASSUME NEW m \in Nat
  PROVE  MadeUp(m)
<1> DEFINE a == m \div 10
           b == m \div 100
           c == m \div 1000
           d == m \div 10000
<1>1. m = 10 * a + (m % 10) /\ (m \div 1) % 10 = m % 10
  OBVIOUS
<1>2. a = 10 * b + (a % 10)
  OBVIOUS
<1>3. b = 10 * c + (b % 10)
  OBVIOUS
<1>4. c = 10 * d + (c % 10)
  OBVIOUS
<1>5. m % 10000 = m - 10000 * d
  BY SMT
<1>6. a \in Nat /\ b \in Nat /\ c \in Nat /\ d \in Nat
  <2>1. m \in Nat
    OBVIOUS
  <2>2. \A n \in Nat : /\ n \div 10 \in Nat /\ n \div 100 \in Nat
                       /\ n \div 1000 \in Nat /\ n \div 10000 \in Nat
    OBVIOUS
  <2>3. QED
    BY <2>1, <2>2
<1> HIDE DEF a, b, c, d
<1>7. a % 10 \in Nat /\ b % 10 \in Nat /\ c % 10 \in Nat /\ m % 10 \in Nat
  BY <1>6
<1>8. m % 10000 = 1000 * (c % 10) + 100 * (b % 10) + 10 * (a % 10) + (m % 10)
  BY <1>1, <1>2, <1>3, <1>4, <1>5, <1>6, <1>7
<1>9. QED
  BY <1>1, <1>8 DEF MadeUp, a, b, c

\* After its first value the number runs through 1 to 8.
LEMMA RunsThrough8 ==
  ASSUME NEW f \in 0..9, NEW n \in Nat, n > 0
  PROVE  (((f % 8) + n) % 8) + 1 = (((((f % 8) + (n - 1)) % 8) + 1) % 8) + 1
  OBVIOUS

\* The number stays at its position for eight ticks, then moves on.
LEMMA EightTicks ==
  ASSUME NEW n \in Nat
  PROVE  /\ (((n % 8) + 1) % 8) + 1 = ((n + 1) % 8) + 1
         /\ (n + 1) % 8 = 0 => (n + 1) \div 8 = (n \div 8) + 1
         /\ (n + 1) % 8 # 0 => (n + 1) \div 8 = n \div 8
         /\ n \div 8 \in Nat
  OBVIOUS

\* Positions by their distance from the first.
LEMMA Distances ==
  ASSUME NEW s \in 0..3, NEW m \in Nat, NEW p \in 0..3
  PROVE  /\ (p - s + 4) % 4 \in 0..3
         /\ (p - s + 4) % 4 = m % 4 <=> p = (s + m) % 4
  OBVIOUS

\* The position after a position.
LEMMA NextPosition ==
  ASSUME NEW s \in 0..3, NEW m \in Nat
  PROVE  (((s + m) % 4) + 1) % 4 = (s + (m + 1)) % 4 /\ (s + m) % 4 \in 0..3
  OBVIOUS

\* Number and FndAt for given options and a given first position.
NumberOf(first, n) == IF n = 0 THEN first ELSE (((first % 8) + (n - 1)) % 8) + 1
FndOf(init, start, n, p) ==
  LET moves == n \div 8
      distance == (p - start + 4) % 4
  IN  IF distance = moves % 4 THEN NumberOf(Digit(init, start), n)
      ELSE IF distance < moves THEN 0 ELSE Digit(init, p)

\* Every digit of the options is one.
LEMMA DigitIsOne ==
  ASSUME NEW i \in Nat, NEW p \in Positions
  PROVE  Digit(i, p) \in 0..9
<1>1. i % 16384 \in Nat
  OBVIOUS
<1>2. Power10[p + 1] \in {1, 10, 100, 1000}
  BY DEF Power10, Positions
<1>3. \A m \in Nat : \A d \in {1, 10, 100, 1000} : (m \div d) % 10 \in 0..9
  OBVIOUS
<1>4. QED
  BY <1>1, <1>2, <1>3 DEF Digit

\* The number of the next tick.
LEMMA NextNumber ==
  ASSUME NEW f \in 0..9, NEW n \in Nat
  PROVE  /\ NumberOf(f, n) \in 0..9
         /\ NumberOf(f, n + 1) = (NumberOf(f, n) % 8) + 1
<1>1. CASE n = 0
  BY <1>1 DEF NumberOf
<1>2. CASE n > 0
  BY <1>2, RunsThrough8 DEF NumberOf
<1>3. QED
  BY <1>1, <1>2

\* The digits before the first tick are those typed.
LEMMA FirstDigits ==
  ASSUME NEW i \in Nat, NEW s \in Positions, NEW p \in Positions
  PROVE  FndOf(i, s, 0, p) = Digit(i, p)
<1>1. 0 \div 8 = 0 /\ 0 % 4 = 0
  OBVIOUS
<1>2. (p - s + 4) % 4 \in 0..3 /\ ((p - s + 4) % 4 = 0 <=> p = s)
  BY DEF Positions
<1>3. QED
  BY <1>1, <1>2 DEF FndOf, NumberOf

\* What update_digit_and_rotation does to the digits is what the next tick shows.
MovesOn(i, s, n) ==
  LET now == [p \in Positions |-> FndOf(i, s, n, p)]
      next == [p \in Positions |-> FndOf(i, s, n + 1, p)]
      at == (s + (n \div 8)) % 4
      number == NumberOf(Digit(i, s), n + 1)
  IN  /\ (n + 1) % 8 = 0 => next = [now EXCEPT ![at] = 0, ![(at + 1) % 4] = number]
      /\ (n + 1) % 8 # 0 => next = [now EXCEPT ![at] = number]

\* MovesOn holds for all options, positions and ticks.
LEMMA NextDigits ==
  ASSUME NEW i \in Nat, NEW s \in Positions, NEW n \in Nat
  PROVE  MovesOn(i, s, n)
<1> DEFINE now == [p \in Positions |-> FndOf(i, s, n, p)]
           next == [p \in Positions |-> FndOf(i, s, n + 1, p)]
           m == n \div 8
           at == (s + m) % 4
           number == NumberOf(Digit(i, s), n + 1)
           dist(p) == (p - s + 4) % 4
<1>1. m \in Nat
  BY EightTicks
<1>2. at \in Positions /\ (at + 1) % 4 \in Positions /\ (at + 1) % 4 = (s + (m + 1)) % 4
  BY <1>1, NextPosition DEF Positions
<1>3. \A p \in Positions :
        /\ dist(p) \in 0..3
        /\ dist(p) = m % 4 <=> p = at
        /\ dist(p) = (m + 1) % 4 <=> p = (at + 1) % 4
  <2> HIDE DEF m
  <2>1. \A j \in Nat, p \in 0..3 :
          dist(p) \in 0..3 /\ (dist(p) = j % 4 <=> p = (s + j) % 4)
    BY Distances DEF Positions
  <2>2. m + 1 \in Nat
    BY <1>1
  <2>3. /\ \A p \in 0..3 : dist(p) \in 0..3 /\ (dist(p) = m % 4 <=> p = at)
        /\ \A p \in 0..3 : dist(p) = (m + 1) % 4 <=> p = (s + (m + 1)) % 4
    BY <1>1, <2>1, <2>2
  <2>4. QED
    BY <1>2, <2>3 DEF Positions
<1>4. ASSUME (n + 1) % 8 = 0
      PROVE  next = [now EXCEPT ![at] = 0, ![(at + 1) % 4] = number]
  <2>1. (n + 1) \div 8 = m + 1
    BY <1>4, EightTicks
  <2> HIDE DEF m
  <2>2. \A d \in 0..3 : d = m % 4 => d < m + 1 /\ d # (m + 1) % 4
    BY <1>1
  <2>3. \A d \in 0..3 : d # m % 4 => (d < m + 1 <=> d < m)
    BY <1>1
  <2> HIDE DEF at, dist, number
  <2>4. ASSUME NEW p \in Positions
        PROVE  /\ p = at => FndOf(i, s, n + 1, p) = 0
               /\ p = (at + 1) % 4 => FndOf(i, s, n + 1, p) = number
               /\ p # at /\ p # (at + 1) % 4 => FndOf(i, s, n + 1, p) = FndOf(i, s, n, p)
    <3>1. FndOf(i, s, n + 1, p) =
            IF dist(p) = (m + 1) % 4 THEN number
            ELSE IF dist(p) < m + 1 THEN 0 ELSE Digit(i, p)
      BY <2>1 DEF FndOf, dist, number
    <3>2. FndOf(i, s, n, p) =
            IF dist(p) = m % 4 THEN NumberOf(Digit(i, s), n)
            ELSE IF dist(p) < m THEN 0 ELSE Digit(i, p)
      BY DEF FndOf, dist, m
    <3>3. QED
      BY <1>3, <2>2, <2>3, <3>1, <3>2
  <2>5. at # (at + 1) % 4
    BY <1>2 DEF Positions
  <2>6. QED
    BY <1>2, <2>4, <2>5
<1>5. ASSUME (n + 1) % 8 # 0
      PROVE  next = [now EXCEPT ![at] = number]
  <2>1. (n + 1) \div 8 = m
    BY <1>5, EightTicks
  <2> HIDE DEF m, at, dist, number
  <2>2. ASSUME NEW p \in Positions
        PROVE  FndOf(i, s, n + 1, p) = IF p = at THEN number ELSE FndOf(i, s, n, p)
    <3>1. FndOf(i, s, n + 1, p) =
            IF dist(p) = m % 4 THEN number ELSE IF dist(p) < m THEN 0 ELSE Digit(i, p)
      BY <2>1 DEF FndOf, dist, number
    <3>2. FndOf(i, s, n, p) =
            IF dist(p) = m % 4 THEN NumberOf(Digit(i, s), n)
            ELSE IF dist(p) < m THEN 0 ELSE Digit(i, p)
      BY DEF FndOf, dist, m
    <3>3. QED
      BY <1>3, <3>1, <3>2
  <2>3. QED
    BY <1>2, <2>2
<1>6. QED
  BY <1>4, <1>5 DEF MovesOn

\* A field above the low k bits does not disturb them, and is what is left of them.
LEMMA Fields ==
  ASSUME NEW low \in Nat, NEW high \in Nat
  PROVE  /\ low < 16384 => /\ (low + 16384 * high) % 16384 = low
                           /\ (low + 16384 * high) \div 16384 = high
         /\ low < 128 => /\ (low + 128 * high) % 128 = low
                         /\ (low + 128 * high) \div 128 = high
         /\ low < 2097152 => (low + 2097152 * high) \div 2097152 = high
<1>1. low < 16384 => /\ (low + 16384 * high) % 16384 = low
                     /\ (low + 16384 * high) \div 16384 = high
  BY SMT
<1>2. low < 128 => /\ (low + 128 * high) % 128 = low
                   /\ (low + 128 * high) \div 128 = high
  BY SMT
<1>3. low < 2097152 => (low + 2097152 * high) \div 2097152 = high
  BY SMT
<1>4. QED
  BY <1>1, <1>2, <1>3

\* The driver unpacks what a valid application has packed.
LEMMA Unpacked ==
  ASSUME NEW o, NEW i \in Nat, NEW c \in Int, NEW v \in Int,
         o.init = i, o.cnt = c, o.interval = v, Valid(o)
  PROVE  /\ CountOf(Encode(o)) = c
         /\ IntervalOf(Encode(o)) = v
         /\ DigitsOf(Encode(o)) = [p \in Positions |-> Digit(i, p)]
<1> DEFINE x == i % 16384
<1>1. x \in Nat /\ x < 16384
  BY SMT
<1>2. /\ c \in Nat /\ c < 128 /\ c % 128 = c
      /\ v \in Nat /\ v < 128 /\ v % 128 = v
  <2>1. c \in 1..100 /\ v \in 1..100
    BY DEF Valid
  <2>2. \A n \in 1..100 : n \in Nat /\ n < 128
    OBVIOUS
  <2>3. \A n \in Nat : n < 128 => n % 128 = n
    OBVIOUS
  <2>4. QED
    BY <2>1, <2>2, <2>3, Zenon
<1>3. Encode(o) = x + c * 16384 + v * (16384 * 128)
  BY <1>2, SMT DEF Encode
<1> DEFINE w == Encode(o)
<1> HIDE DEF x, w
<1>4. /\ w % 16384 = x
      /\ (w \div 16384) % 128 = c
      /\ (w \div (16384 * 128)) % 128 = v
  <2> DEFINE high == c + 128 * v
             low == x + 16384 * c
  <2>1. w = x + 16384 * high /\ w = low + 2097152 * v /\ 16384 * 128 = 2097152
    <3>1. x + c * 16384 + v * 2097152 = x + 16384 * high
      BY <1>1, <1>2, SMT
    <3>2. x + c * 16384 + v * 2097152 = low + 2097152 * v
      BY <1>1, <1>2, SMT
    <3>3. 16384 * 128 = 2097152
      BY SMT
    <3>4. w = x + c * 16384 + v * 2097152
      BY <1>3, <3>3 DEF w
    <3>5. QED
      BY <3>1, <3>2, <3>3, <3>4, SMT
  <2>2. high \in Nat /\ low \in Nat /\ low < 2097152
    BY <1>1, <1>2, SMT
  <2>3. high % 128 = c
    BY <1>2, Fields
  <2> HIDE DEF high, low
  <2>4. w % 16384 = x /\ w \div 16384 = high
    BY <1>1, <2>1, <2>2, Fields
  <2>5. w \div (16384 * 128) = v
    BY <1>2, <2>1, <2>2, Fields
  <2>6. QED
    BY <1>2, <2>3, <2>4, <2>5
<1>5. QED
  BY <1>4 DEF CountOf, IntervalOf, DigitsOf, Digit, x, w

----------------------------------------------------------------------------
(* Who has the device, and what is under way.                              *)

AppPlaces == {"closed", "open", "option", "command", "waiting", "close"}

\* One application at a time.
OneApp ==
  /\ app \in [Apps -> AppPlaces]
  /\ \A a, b \in Apps : app[a] # "closed" /\ app[b] # "closed" => a = b
  /\ \A a \in Apps : app[a] \notin {"closed", "open"} => device_open_count # 0
  /\ \A a \in Apps : app[a] # "closed" => present

\* The options that are set are those of the application that waits for the reset
\* switch; with the timer set none does.
Held ==
  /\ armed \in BOOLEAN /\ present \in BOOLEAN /\ owner \in Apps
  /\ armed => present /\ function \in {"fpga_timer_handler", "finish_handler"}
  /\ armed => \A a \in Apps : app[a] \in {"closed", "close"}
  /\ \A a \in Apps : app[a] \in {"command", "waiting"} => owner = a
  /\ \A a \in Apps : app[a] = "waiting" => function = "fpga_timer_handler"

\* The options that reach the driver are valid.
Options ==
  /\ opt \in [Apps -> [interval : Int, cnt : Int, init : Nat]]
  /\ \A a \in Apps : app[a] \in {"option", "command", "waiting"} => Valid(opt[a])
  /\ armed => Valid(opt[owner])

\* A step of the timer driver, by action.
LEMMA TimerActions ==
  ASSUME [Next]_vars
  PROVE  \/ fpga_timer_exit \/ Timer
         \/ \E a \in Apps : OpenTest(a)
         \/ \E a \in Apps : OpenSet(a)
         \/ \E a \in Apps : SetOption(a)
         \/ \E a \in Apps : Command(a)
         \/ \E a \in Apps : ResetSwitch(a)
         \/ \E a \in Apps : Release(a)
         \/ UNCHANGED vars
  BY Zenon DEF Next

\* device_open_count lets one application in, if two do not test it at once.
LEMMA KeepsOneApp ==
  ASSUME OpensApart, OneApp, [Next]_vars
  PROVE  OneApp'
<1> USE DEF OneApp, AppPlaces
<1>1. CASE fpga_timer_exit
  BY <1>1, Zenon DEF fpga_timer_exit
<1>2. CASE Timer
  BY <1>2, Zenon DEF Timer
<1>3. ASSUME NEW a \in Apps, OpenTest(a)
      PROVE  OneApp'
  <2>1. \A b \in Apps : app[b] = "closed"
    BY <1>3 DEF OpenTest
  <2>2. /\ app' = [app EXCEPT ![a] = "open"] /\ present
        /\ UNCHANGED <<device_open_count, present>>
    BY <1>3 DEF OpenTest
  <2>3. QED
    BY <2>1, <2>2
<1>4. ASSUME NEW a \in Apps, OpenSet(a)
      PROVE  OneApp'
  <2>1. /\ \E l \in {"option", "close"} : app' = [app EXCEPT ![a] = l]
        /\ device_open_count' = 1 /\ present' = present /\ app[a] = "open"
    BY <1>4 DEF OpenSet
  <2>2. QED
    BY <2>1
<1>5. ASSUME NEW a \in Apps, SetOption(a)
      PROVE  OneApp'
  <2>1. /\ app' = [app EXCEPT ![a] = "command"] /\ app[a] = "option"
        /\ UNCHANGED <<device_open_count, present>>
    BY <1>5 DEF SetOption
  <2>2. QED
    BY <2>1
<1>6. ASSUME NEW a \in Apps, Command(a)
      PROVE  OneApp'
  BY <1>6 DEF Command
<1>7. ASSUME NEW a \in Apps, ResetSwitch(a)
      PROVE  OneApp'
  BY <1>7 DEF ResetSwitch
<1>8. ASSUME NEW a \in Apps, Release(a)
      PROVE  OneApp'
  BY <1>8 DEF Release
<1>9. CASE UNCHANGED vars
  BY <1>9, Zenon DEF vars
<1>10. QED
  BY <1>1, <1>2, <1>3, <1>4, <1>5, <1>6, <1>7, <1>8, <1>9, TimerActions, Zenon

\* While the timer is set no application gets as far as the options.
LEMMA KeepsHeld ==
  ASSUME Alone, OneApp, Held, [Next]_vars
  PROVE  Held'
<1> USE DEF Held
<1>1. CASE fpga_timer_exit
  BY <1>1 DEF fpga_timer_exit, history
<1>2. CASE Timer
  <2>1. /\ armed' \in BOOLEAN
        /\ armed' => function' \in {"fpga_timer_handler", "finish_handler"}
    BY <1>2 DEF Timer, Tick, TimeUp, Finish, FinishLast, StaysOff
  <2>2. armed /\ UNCHANGED <<app, present, owner>>
    BY <1>2, Zenon DEF Timer
  <2>3. QED
    BY <2>1, <2>2
<1>3. ASSUME NEW a \in Apps, OpenTest(a)
      PROVE  Held'
  <2>1. /\ ~armed /\ app' = [app EXCEPT ![a] = "open"]
        /\ UNCHANGED <<armed, function, present, owner>>
    BY <1>3 DEF OpenTest, history
  <2>2. QED
    BY <2>1 DEF OneApp
<1>4. ASSUME NEW a \in Apps, OpenSet(a)
      PROVE  Held'
  <2>1. /\ \E l \in {"option", "close"} : app' = [app EXCEPT ![a] = l]
        /\ app[a] = "open" /\ UNCHANGED <<armed, function, present, owner>>
    BY <1>4 DEF OpenSet, history
  <2>2. QED
    BY <2>1 DEF OneApp
<1>5. ASSUME NEW a \in Apps, SetOption(a)
      PROVE  Held'
  <2>1. /\ app' = [app EXCEPT ![a] = "command"] /\ app[a] = "option" /\ owner' = a
        /\ UNCHANGED <<armed, function, present>>
    BY <1>5 DEF SetOption
  <2>2. QED
    BY <2>1 DEF OneApp
<1>6. ASSUME NEW a \in Apps, Command(a)
      PROVE  Held'
  <2>1. /\ app' = [app EXCEPT ![a] = "waiting"] /\ app[a] = "command"
        /\ function' = "fpga_timer_handler" /\ UNCHANGED <<armed, present, owner>>
    BY <1>6 DEF Command, history
  <2>2. QED
    BY <2>1 DEF OneApp
<1>7. ASSUME NEW a \in Apps, ResetSwitch(a)
      PROVE  Held'
  <2>1. /\ app' = [app EXCEPT ![a] = "close"] /\ app[a] = "waiting"
        /\ armed' = TRUE /\ UNCHANGED <<function, present, owner>>
    BY <1>7 DEF ResetSwitch
  <2>2. \A b \in Apps : b # a => app[b] = "closed"
    BY <2>1 DEF OneApp
  <2>3. QED
    BY <2>1, <2>2 DEF OneApp
<1>8. ASSUME NEW a \in Apps, Release(a)
      PROVE  Held'
  <2>1. /\ app' = [app EXCEPT ![a] = "closed"]
        /\ UNCHANGED <<armed, function, present, owner>>
    BY <1>8 DEF Release, history
  <2>2. QED
    BY <2>1 DEF OneApp
<1>9. CASE UNCHANGED vars
  BY <1>9, Zenon DEF vars, history
<1>10. QED
  BY <1>1, <1>2, <1>3, <1>4, <1>5, <1>6, <1>7, <1>8, <1>9, TimerActions, Zenon

\* The application ends with options that are out of range.
LEMMA KeepsOptions ==
  ASSUME OneApp, Held, Options, [Next]_vars
  PROVE  Options'
<1> USE DEF Options
<1>1. CASE fpga_timer_exit
  BY <1>1 DEF fpga_timer_exit, history
<1>2. CASE Timer
  BY <1>2 DEF Timer
<1>3. ASSUME NEW a \in Apps, OpenTest(a)
      PROVE  Options'
  BY <1>3 DEF OpenTest, history, OneApp
<1>4. ASSUME NEW a \in Apps, OpenSet(a)
      PROVE  Options'
  <2>1. PICK o \in [interval : Intervals, cnt : Cnts, init : Inits] :
          /\ opt' = [opt EXCEPT ![a] = o]
          /\ app' = [app EXCEPT ![a] = IF Valid(o) THEN "option" ELSE "close"]
    BY <1>4 DEF OpenSet
  <2>2. app[a] = "open" /\ UNCHANGED <<armed, owner>>
    BY <1>4 DEF OpenSet, history
  <2>3. ~armed
    BY <2>2 DEF Held
  <2>4. o \in [interval : Int, cnt : Int, init : Nat]
    BY TimerDriverAssumption
  <2>5. QED
    BY <2>1, <2>2, <2>3, <2>4 DEF OneApp
<1>5. ASSUME NEW a \in Apps, SetOption(a)
      PROVE  Options'
  <2>1. /\ app' = [app EXCEPT ![a] = "command"] /\ app[a] = "option" /\ owner' = a
        /\ UNCHANGED <<opt, armed>>
    BY <1>5 DEF SetOption
  <2>2. QED
    BY <2>1 DEF OneApp, Held
<1>6. ASSUME NEW a \in Apps, Command(a)
      PROVE  Options'
  BY <1>6 DEF Command, history, OneApp
<1>7. ASSUME NEW a \in Apps, ResetSwitch(a)
      PROVE  Options'
  BY <1>7 DEF ResetSwitch, OneApp, Held
<1>8. ASSUME NEW a \in Apps, Release(a)
      PROVE  Options'
  BY <1>8 DEF Release, history, OneApp
<1>9. CASE UNCHANGED vars
  BY <1>9 DEF vars, history
<1>10. QED
  BY <1>1, <1>2, <1>3, <1>4, <1>5, <1>6, <1>7, <1>8, <1>9, TimerActions, Zenon

----------------------------------------------------------------------------
(* The course of a run.                                                    *)

SetUp == app[owner] \in {"command", "waiting"}
Ticking == armed /\ function = "fpga_timer_handler"
Ending == armed /\ function = "finish_handler"

\* The position is known from the ticks of the last run, also after it.
Position ==
  /\ place \in Positions /\ k \in Int /\ k >= -1
  /\ active_digit = (place + (Left(k) \div 8)) % 4

\* timer_data before the reset switch is pressed, and at every tick.
OptionsSet ==
  /\ interval = Current.interval /\ count = Current.cnt
  /\ init_values = [p \in Positions |-> Digit(Current.init, p)]
  /\ current_number = Digit(Current.init, place)
  /\ rotation_count = 1 /\ finish_count = 3 /\ k = -1
InTicks ==
  /\ k \in Nat /\ k <= Current.cnt /\ count = Current.cnt - k
  /\ init_values = [p \in Positions |-> FndOf(Current.init, place, k, p)]
  /\ current_number = NumberOf(Digit(Current.init, place), k)
  /\ rotation_count = (k % 8) + 1 /\ finish_count = 3

\* The devices after a tick, and during the countdown.
Shows ==
  k > 0 =>
    /\ fnd = [p \in Positions |-> FndOf(Current.init, place, k - 1, p)]
    /\ led = Led(NumberOf(Digit(Current.init, place), k - 1))
    /\ dot = NumberOf(Digit(Current.init, place), k - 1)
    /\ lcd.text = "count" /\ lcd.n = Current.cnt - (k - 1)
InEnd ==
  /\ k = Current.cnt
  /\ \/ lcd.text = "count" /\ finish_count = 3
     \/ finish_count \in 0..2 /\ lcd = Lcd("shutdown", finish_count + 1, 0)

\* "shutdown" stands on the display only while the countdown runs.
Shutdown == present /\ lcd.text = "shutdown" => Ending

Course ==
  /\ Position
  /\ SetUp => OptionsSet
  /\ Ticking => InTicks /\ Shows
  /\ Ending => InEnd
  /\ Shutdown

\* The options of the run are numbers.
LEMMA CurrentTypes ==
  ASSUME Held, Options
  PROVE  Current.interval \in Int /\ Current.cnt \in Int /\ Current.init \in Nat
  BY DEF Held, Options, Current

\* A set of positions has a first one.
LEMMA FirstPosition ==
  ASSUME NEW S \in SUBSET Positions, S # {}
  PROVE  Min(S) \in Positions
<1>1. \E x \in S : \A y \in S : x <= y
  <2>1. CASE 0 \in S
    BY <2>1 DEF Positions
  <2>2. CASE 0 \notin S /\ 1 \in S
    BY <2>2 DEF Positions
  <2>3. CASE 0 \notin S /\ 1 \notin S /\ 2 \in S
    BY <2>3 DEF Positions
  <2>4. CASE 0 \notin S /\ 1 \notin S /\ 2 \notin S
    <3>1. \A x \in S : x = 3
      BY <2>4 DEF Positions
    <3>2. QED
      BY <3>1
  <2>5. QED
    BY <2>1, <2>2, <2>3, <2>4
<1>2. Min(S) \in S
  BY <1>1 DEF Min
<1>3. QED
  BY <1>2

\* Set_option: the options arrive, and the display starts where StartsAt says.
LEMMA AtSetOption ==
  ASSUME NEW a \in Apps, SetOption(a), Held, Options, Position
  PROVE  Position' /\ OptionsSet'
<1> DEFINE o == opt[a]
           i == opt[a].init
           nonzero == {p \in Positions : Digit(i, p) # 0}
<1>1. /\ o.init = i /\ i \in Nat /\ o.cnt \in Int /\ o.interval \in Int /\ Valid(o)
      /\ Current' = o
  BY DEF SetOption, Options, Current
<1>2. /\ init_values' = [p \in Positions |-> Digit(i, p)]
      /\ count' = o.cnt /\ interval' = o.interval
  <2>1. /\ init_values' = DigitsOf(Encode(o))
        /\ count' = CountOf(Encode(o)) /\ interval' = IntervalOf(Encode(o))
    BY DEF SetOption
  <2>2. QED
    BY <1>1, <2>1, Unpacked
<1>3. /\ active_digit' = ActiveDigit(init_values')
      /\ current_number' = init_values'[active_digit']
      /\ rotation_count' = 1 /\ finish_count' = 3
      /\ place' = StartsAt(i) /\ k' = -1
  BY DEF SetOption, FinishCount, NoTicks
<1>4. {p \in Positions : init_values'[p] # 0} = nonzero
  BY <1>2
<1>5. active_digit' = IF nonzero = {} THEN active_digit ELSE Min(nonzero)
  BY <1>3, <1>4 DEF ActiveDigit
<1>6. place' = IF nonzero = {} THEN (place + (Max({k, 0}) \div 8)) % 4 ELSE Min(nonzero)
  BY <1>3 DEF StartsAt
<1>7. active_digit' = place'
  BY <1>5, <1>6, MaxLeft DEF Position
<1>8. place' \in Positions
  <2>1. CASE nonzero = {}
    <3>1. Left(k) \in Nat
      BY DEF Left, Position
    <3>2. \A n \in Nat : n \div 8 \in Nat
      OBVIOUS
    <3>3. \A q \in 0..3, n \in Nat : (q + n) % 4 \in 0..3
      OBVIOUS
    <3>4. active_digit \in Positions
      BY <3>1, <3>2, <3>3 DEF Position, Positions
    <3>5. QED
      BY <1>5, <1>7, <2>1, <3>4
  <2>2. CASE nonzero # {}
    BY <1>6, <2>2, FirstPosition
  <2>3. QED
    BY <2>1, <2>2
<1>9. Position'
  <2>1. Left(k') = 0
    BY <1>3 DEF Left
  <2>2. (place' + (0 \div 8)) % 4 = place'
    <3>1. 0 \div 8 = 0 /\ \A q \in 0..3 : (q + 0) % 4 = q
      OBVIOUS
    <3>2. QED
      BY <1>8, <3>1 DEF Positions
  <2>3. QED
    BY <1>3, <1>7, <1>8, <2>1, <2>2 DEF Position
<1>10. OptionsSet'
  BY <1>1, <1>2, <1>3, <1>7, <1>8 DEF OptionsSet
<1>11. QED
  BY <1>9, <1>10

\* What a run depends on; where it does not change neither do the numbers.
numbers == <<opt, owner, place, k, timer_data, devices>>

\* The numbers are a matter of these variables alone.
LEMMA SameNumbers ==
  ASSUME UNCHANGED numbers
  PROVE  /\ Position => Position'
         /\ OptionsSet => OptionsSet'
         /\ InTicks => InTicks'
         /\ Shows => Shows'
         /\ InEnd => InEnd'
<1>1. UNCHANGED <<opt, owner, place, k, lcd, fnd, led, dot>>
  BY DEF numbers, devices
<1>2. UNCHANGED <<interval, count, init_values, active_digit, current_number,
                  rotation_count, finish_count>>
  BY DEF numbers, timer_data
<1>3. Current' = Current
  BY <1>1 DEF Current
<1>4. QED
  BY <1>1, <1>2, <1>3 DEF Position, OptionsSet, InTicks, Shows, InEnd

\* The reset switch starts the ticks with the digits typed.
LEMMA AtResetSwitch ==
  ASSUME NEW a \in Apps, ResetSwitch(a), Held, Options, Position, OptionsSet
  PROVE  Position' /\ InTicks' /\ Shows'
<1>1. /\ k' = 0 /\ UNCHANGED <<opt, owner, place>>
      /\ UNCHANGED <<interval, count, init_values, active_digit, current_number,
                     rotation_count, finish_count>>
  BY DEF ResetSwitch, timer_data
<1>2. Current' = Current
  BY <1>1 DEF Current
<1>3. Current.init \in Nat /\ Current.cnt \in Nat /\ place \in Positions
  <2>1. app[a] = "waiting" /\ owner = a
    BY DEF ResetSwitch, Held
  <2>2. Valid(Current)
    BY <2>1 DEF Options, Current
  <2>3. QED
    BY <2>2, CurrentTypes DEF Valid, Position
<1>4. init_values = [p \in Positions |-> FndOf(Current.init, place, 0, p)]
  BY <1>3, FirstDigits DEF OptionsSet
<1>5. 0 % 8 = 0 /\ NumberOf(Digit(Current.init, place), 0) = Digit(Current.init, place)
  BY DEF NumberOf
<1>6. InTicks'
  BY <1>1, <1>2, <1>3, <1>4, <1>5 DEF OptionsSet, InTicks
<1>7. Left(k') = 0 /\ Left(k) = 0
  BY <1>1 DEF Left, OptionsSet
<1>8. Position'
  BY <1>1, <1>7 DEF Position
<1>9. Shows'
  BY <1>1 DEF Shows
<1>10. QED
  BY <1>6, <1>8, <1>9

\* A tick shows the number and the digits of its time and prepares the next.
LEMMA AtTick ==
  ASSUME Tick, UNCHANGED <<opt, owner, place>>, Held, Options, Position, InTicks
  PROVE  Position' /\ InTicks' /\ Shows'
<1> DEFINE i == Current.init
           f == Digit(Current.init, place)
<1>1. /\ count > 0 /\ count' = count - 1 /\ k' = k + 1
      /\ current_number' = (current_number % 8) + 1
      /\ rotation_count' = (rotation_count % 8) + 1
      /\ UNCHANGED <<interval, finish_count>>
  BY DEF Tick, Rotation
<1>2. /\ fnd' = init_values /\ led' = Led(current_number) /\ dot' = current_number
      /\ lcd'.text = "count" /\ lcd'.n = count
  BY DEF Tick, Lcd
<1>3. Current' = Current
  BY DEF Current
<1>4. i \in Nat /\ Current.cnt \in Int /\ place \in Positions /\ k \in Nat
  BY CurrentTypes DEF Position, InTicks
<1>5. f \in 0..9
  BY <1>4, DigitIsOne
<1>6. current_number' = NumberOf(f, k + 1)
  BY <1>1, <1>4, <1>5, NextNumber DEF InTicks
<1>7. rotation_count' = ((k + 1) % 8) + 1
  BY <1>1, <1>4, EightTicks DEF InTicks
<1>8. active_digit = (place + (k \div 8)) % 4
  BY <1>4 DEF Position, Left
<1>9. /\ init_values' = [p \in Positions |-> FndOf(i, place, k + 1, p)]
      /\ active_digit' = (place + ((k + 1) \div 8)) % 4
  <2> DEFINE now == [p \in Positions |-> FndOf(i, place, k, p)]
             next == [p \in Positions |-> FndOf(i, place, k + 1, p)]
             at == (place + (k \div 8)) % 4
             number == NumberOf(f, k + 1)
  <2>0. /\ (k + 1) % 8 = 0 => next = [now EXCEPT ![at] = 0, ![(at + 1) % 4] = number]
        /\ (k + 1) % 8 # 0 => next = [now EXCEPT ![at] = number]
    <3>1. MovesOn(i, place, k)
      BY <1>4, NextDigits
    <3>2. QED
      BY <3>1, Zenon DEF MovesOn
  <2>1. k \div 8 \in Nat
    BY <1>4, EightTicks
  <2>2. CASE (k + 1) % 8 = 0
    <3>1. rotation_count' = 1
      BY <1>7, <2>2
    <3>2. /\ init_values' = [init_values EXCEPT ![active_digit] = 0,
                                                ![(active_digit + 1) % 4] = current_number']
          /\ active_digit' = (active_digit + 1) % 4
      BY <3>1, Zenon DEF Tick, update_digit_and_rotation
    <3>3. init_values' = [p \in Positions |-> FndOf(i, place, k + 1, p)]
      BY <1>6, <1>8, <2>0, <2>2, <3>2, Zenon DEF InTicks
    <3>4. (k + 1) \div 8 = (k \div 8) + 1
      BY <1>4, <2>2, EightTicks
    <3>5. \A m \in Nat : (((place + m) % 4) + 1) % 4 = (place + (m + 1)) % 4
      BY <1>4, NextPosition DEF Positions
    <3>6. active_digit' = (place + ((k + 1) \div 8)) % 4
      BY <1>8, <2>1, <3>2, <3>4, <3>5
    <3>7. QED
      BY <3>3, <3>6
  <2>3. CASE (k + 1) % 8 # 0
    <3>1. (k + 1) % 8 \in Nat
      BY <1>4
    <3>2. rotation_count' # 1
      BY <1>7, <2>3, <3>1
    <3>3. /\ init_values' = [init_values EXCEPT ![active_digit] = current_number']
          /\ active_digit' = active_digit
      BY <3>2, Zenon DEF Tick, update_digit_and_rotation
    <3>4. init_values' = [p \in Positions |-> FndOf(i, place, k + 1, p)]
      BY <1>6, <1>8, <2>0, <2>3, <3>3, Zenon DEF InTicks
    <3>5. (k + 1) \div 8 = k \div 8
      BY <1>4, <2>3, EightTicks
    <3>6. QED
      BY <1>8, <3>3, <3>4, <3>5
  <2>4. QED
    BY <2>2, <2>3
<1>10. InTicks'
  <2>1. k' \in Nat /\ k' <= Current.cnt /\ count' = Current.cnt - k' /\ finish_count' = 3
    BY <1>1, <1>4 DEF InTicks
  <2>2. QED
    BY <1>1, <1>3, <1>6, <1>7, <1>9, <2>1 DEF InTicks
<1>11. Position'
  <2>1. Left(k') = k + 1
    BY <1>1, <1>4 DEF Left
  <2>2. QED
    BY <1>1, <1>4, <1>9, <2>1 DEF Position
<1>12. Shows'
  <2>1. k' - 1 = k /\ count = Current.cnt - k
    BY <1>1, <1>4 DEF InTicks
  <2>2. QED
    BY <1>2, <1>3, <2>1 DEF InTicks, Shows
<1>13. QED
  BY <1>10, <1>11, <1>12

\* The time is up when all ticks were made; there was at least one.
LEMMA AtTimeUp ==
  ASSUME TimeUp, UNCHANGED <<opt, owner, place>>, Options, Held, armed, Position, InTicks, Shows
  PROVE  Position' /\ InEnd' /\ k = Current.cnt /\ lcd.text = "count"
<1>1. /\ count <= 0 /\ UNCHANGED <<lcd, k, active_digit, finish_count>>
  BY DEF TimeUp, timer_data
<1>2. Current' = Current
  BY DEF Current
<1>3. Current.cnt \in Int /\ Current.cnt > 0
  <2>1. Current.cnt \in 1..100
    BY Zenon DEF Options, Current, Valid
  <2>2. \A n \in 1..100 : n \in Int /\ n > 0
    OBVIOUS
  <2>3. QED
    BY <2>1, <2>2, Zenon
<1>4. k = Current.cnt /\ k > 0
  <2>1. /\ k \in Nat /\ k <= Current.cnt
        /\ count = Current.cnt - k
    BY DEF InTicks
  <2>2. QED
    BY <1>1, <1>3, <2>1
<1>5. lcd.text = "count"
  BY <1>4 DEF Shows
<1>6. QED
  BY <1>1, <1>2, <1>4, <1>5 DEF InEnd, InTicks, Position

\* "Shutdown in 3...", 2, 1.
LEMMA AtFinish ==
  ASSUME Finish, UNCHANGED <<opt, owner, place>>, Position, InEnd
  PROVE  /\ Position' /\ InEnd' /\ lcd' = Lcd("shutdown", finish_count, 0)
         /\ lcd.text = "count" => finish_count = 3
         /\ lcd.text # "count" => lcd = Lcd("shutdown", finish_count + 1, 0) /\ finish_count \in 1..2
<1>1. /\ finish_count > 0 /\ finish_count' = finish_count - 1
      /\ lcd' = Lcd("shutdown", finish_count, 0)
      /\ UNCHANGED <<k, active_digit>>
  BY DEF Finish
<1>2. Current' = Current
  BY DEF Current
<1>3. finish_count \in 1..3 /\ finish_count = (finish_count - 1) + 1
  BY <1>1 DEF InEnd
<1>4. Position' /\ InEnd'
  BY <1>1, <1>2, <1>3 DEF InEnd, Position
<1>5. /\ lcd.text = "count" => finish_count = 3
      /\ lcd.text # "count" => lcd = Lcd("shutdown", finish_count + 1, 0) /\ finish_count \in 1..2
  BY <1>1 DEF InEnd, Lcd
<1>6. QED
  BY <1>1, <1>4, <1>5

\* With the timer set, what the run is at.
LEMMA ArmedPhase ==
  ASSUME Held, armed
  PROVE  (Ticking \/ Ending) /\ ~SetUp /\ ~(Ticking /\ Ending)
  BY DEF Held, Ticking, Ending, SetUp

\* Every step keeps the run on its course.
LEMMA KeepsCourse ==
  ASSUME Alone, OneApp, Held, Options, Course, [Next]_vars
  PROVE  Course'
<1>1. CASE fpga_timer_exit
  <2>1. UNCHANGED numbers
    BY <1>1 DEF fpga_timer_exit, numbers, history
  <2>2. ~armed' /\ ~present' /\ \A a \in Apps : app'[a] = "closed"
    BY <1>1 DEF fpga_timer_exit
  <2>3. ~SetUp' /\ ~Ticking' /\ ~Ending' /\ Shutdown'
    BY <1>1, <2>2 DEF fpga_timer_exit, history, SetUp, Ticking, Ending, Shutdown, Held
  <2>4. QED
    BY <2>1, <2>3, SameNumbers DEF Course
<1>2. CASE Timer
  <2>1. armed /\ UNCHANGED <<app, opt, present, owner, place>> /\ present
    BY <1>2 DEF Timer, Held
  <2>2. ~SetUp'
    <3>1. ~SetUp
      BY <2>1, ArmedPhase
    <3>2. QED
      BY <2>1, <3>1 DEF SetUp
  <2>3. CASE Tick
    <3>1. Ticking /\ Ticking' /\ ~Ending'
      BY <2>1, <2>3 DEF Tick, Ticking, Ending
    <3>2. Position' /\ InTicks' /\ Shows'
      BY <2>1, <2>3, <3>1, AtTick DEF Course
    <3>3. lcd'.text = "count"
      BY <2>3 DEF Tick, Lcd
    <3>4. QED
      BY <2>2, <3>1, <3>2, <3>3 DEF Course, Shutdown
  <2>4. CASE TimeUp
    <3>1. Ticking /\ Ending' /\ ~Ticking'
      BY <2>1, <2>4 DEF TimeUp, Ticking, Ending
    <3>2. Position' /\ InEnd'
      BY <2>1, <2>4, <3>1, AtTimeUp DEF Course
    <3>3. QED
      BY <2>2, <3>1, <3>2 DEF Course, Shutdown
  <2>5. CASE Finish
    <3>1. Ending /\ Ending' /\ ~Ticking'
      BY <2>1, <2>5 DEF Finish, Ticking, Ending
    <3>2. Position' /\ InEnd'
      BY <2>1, <2>5, <3>1, AtFinish DEF Course
    <3>3. QED
      BY <2>2, <3>1, <3>2 DEF Course, Shutdown
  <2>6. CASE FinishLast
    <3>1. ~armed' /\ UNCHANGED <<k, active_digit>> /\ lcd' = NoText
      BY <2>6 DEF FinishLast, StaysOff, timer_data
    <3>2. ~Ticking' /\ ~Ending'
      BY <3>1 DEF Ticking, Ending
    <3>3. Position'
      BY <2>1, <3>1 DEF Course, Position
    <3>4. Shutdown'
      BY <3>1 DEF Shutdown, NoText, Lcd
    <3>5. QED
      BY <2>2, <3>2, <3>3, <3>4 DEF Course
  <2>7. QED
    BY <1>2, <2>3, <2>4, <2>5, <2>6 DEF Timer
<1>3. ASSUME NEW a \in Apps, OpenTest(a)
      PROVE  Course'
  <2>1. /\ UNCHANGED numbers /\ UNCHANGED <<armed, present, function>>
        /\ app' = [app EXCEPT ![a] = "open"] /\ ~armed
    BY <1>3 DEF OpenTest, numbers, history
  <2>2. SetUp' => SetUp
    BY <2>1 DEF SetUp, OneApp, Held, numbers
  <2>3. ~Ticking' /\ ~Ending'
    BY <2>1 DEF Ticking, Ending
  <2>4. Shutdown'
    BY <2>1, Zenon DEF Course, Shutdown, Ending, numbers, devices
  <2>5. QED
    BY <2>1, <2>2, <2>3, <2>4, SameNumbers DEF Course
<1>4. ASSUME NEW a \in Apps, OpenSet(a)
      PROVE  Course'
  <2>1. /\ UNCHANGED <<armed, present, function, owner, place, k, active_digit, lcd>>
        /\ app[a] = "open" /\ \E l \in {"option", "close"} : app' = [app EXCEPT ![a] = l]
    BY <1>4 DEF OpenSet, history, timer_data, devices
  <2>2. ~armed
    BY <2>1 DEF Held
  <2>3. ~Ticking' /\ ~Ending'
    BY <2>1, <2>2 DEF Ticking, Ending
  <2>4. ~SetUp'
    BY <2>1 DEF SetUp, OneApp, Held
  <2>5. Shutdown'
    BY <2>1, <2>2 DEF Course, Shutdown, Ending
  <2>6. Position'
    BY <2>1 DEF Course, Position
  <2>7. QED
    BY <2>3, <2>4, <2>5, <2>6 DEF Course
<1>5. ASSUME NEW a \in Apps, SetOption(a)
      PROVE  Course'
  <2>1. app[a] = "option" /\ UNCHANGED <<armed, present, function, lcd>>
    BY <1>5 DEF SetOption, devices
  <2>2. ~armed
    BY <2>1 DEF Held
  <2>3. ~Ticking' /\ ~Ending' /\ Shutdown'
    BY <2>1, <2>2 DEF Course, Ticking, Ending, Shutdown
  <2>4. Position' /\ OptionsSet'
    BY <1>5, AtSetOption DEF Course
  <2>5. QED
    BY <2>3, <2>4 DEF Course
<1>6. ASSUME NEW a \in Apps, Command(a)
      PROVE  Course'
  <2>1. /\ UNCHANGED numbers /\ UNCHANGED <<armed, present, lcd>> /\ app[a] = "command"
        /\ app' = [app EXCEPT ![a] = "waiting"]
    BY <1>6 DEF Command, numbers, history, devices
  <2>2. ~armed /\ SetUp
    BY <2>1 DEF Held, SetUp
  <2>3. ~Ticking' /\ ~Ending'
    BY <2>1, <2>2 DEF Ticking, Ending
  <2>4. Shutdown'
    BY <2>1, <2>2 DEF Course, Shutdown, Ending
  <2>5. QED
    BY <2>1, <2>2, <2>3, <2>4, SameNumbers DEF Course
<1>7. ASSUME NEW a \in Apps, ResetSwitch(a)
      PROVE  Course'
  <2>1. /\ app[a] = "waiting" /\ app' = [app EXCEPT ![a] = "close"]
        /\ armed' = TRUE /\ UNCHANGED <<present, function, lcd, owner>>
    BY <1>7 DEF ResetSwitch, devices
  <2>2. ~armed /\ SetUp /\ owner = a /\ function = "fpga_timer_handler"
    BY <2>1 DEF Held, SetUp
  <2>3. ~SetUp' /\ ~Ending'
    BY <2>1, <2>2 DEF SetUp, Ending, OneApp
  <2>4. Position' /\ InTicks' /\ Shows'
    BY <1>7, <2>2, AtResetSwitch DEF Course
  <2>5. Shutdown'
    BY <2>1, <2>2 DEF Course, Shutdown, Ending
  <2>6. QED
    BY <2>3, <2>4, <2>5 DEF Course
<1>8. ASSUME NEW a \in Apps, Release(a)
      PROVE  Course'
  <2>1. /\ UNCHANGED numbers /\ UNCHANGED <<armed, present, function, lcd, owner>>
        /\ app' = [app EXCEPT ![a] = "closed"]
    BY <1>8 DEF Release, numbers, history, devices
  <2>2. /\ SetUp' => SetUp
        /\ Ticking' => Ticking
        /\ Ending' <=> Ending
    BY <2>1 DEF SetUp, Ticking, Ending, OneApp, Held
  <2>3. Shutdown'
    BY <2>1, <2>2 DEF Course, Shutdown
  <2>4. QED
    BY <2>1, <2>2, <2>3, SameNumbers DEF Course
<1>9. CASE UNCHANGED vars
  <2>1. UNCHANGED numbers /\ UNCHANGED <<app, armed, present, function, lcd, owner>>
    BY <1>9 DEF vars, numbers, history, devices
  <2>2. SetUp' <=> SetUp
    BY <2>1, Zenon DEF SetUp
  <2>3. Ticking' <=> Ticking
    BY <2>1, Zenon DEF Ticking
  <2>4. Ending' <=> Ending
    BY <2>1, Zenon DEF Ending
  <2>5. Shutdown'
    BY <2>1, <2>4, Zenon DEF Course, Shutdown
  <2>6. QED
    BY <2>1, <2>2, <2>3, <2>4, <2>5, SameNumbers DEF Course
<1>10. QED
  BY <1>1, <1>2, <1>3, <1>4, <1>5, <1>6, <1>7, <1>8, <1>9, TimerActions, Zenon

TimerInv == OneApp /\ Held /\ Options /\ Course

\* TimerInv is inductive if an application is started only after the last run has
\* ended, and two do not test device_open_count at once.
LEMMA TimerInvHolds ==
  ASSUME Alone, OpensApart
  PROVE  DriversSpec => []TimerInv
<1>1. DriversInit => TimerInv
  <2> SUFFICES ASSUME Init
               PROVE  TimerInv
    BY DEF DriversInit
  <2>1. OneApp
    BY DEF Init, OneApp, AppPlaces
  <2>2. Held
    <3>1. owner \in Apps
      BY TimerDriverAssumption DEF Init
    <3>2. QED
      BY <3>1 DEF Init, Held
  <2>3. Options
    BY DEF Init, Options
  <2>4. ~SetUp /\ ~Ticking /\ ~Ending /\ Shutdown
    BY <2>2 DEF Init, SetUp, Ticking, Ending, Shutdown, Held, NoText, Lcd
  <2>5. Position
    <3>1. Left(k) = 0 /\ 0 \div 8 = 0 /\ (0 + 0) % 4 = 0
      BY DEF Init, NoTicks, Left
    <3>2. QED
      BY <3>1 DEF Init, NoTicks, Position, Positions
  <2>6. QED
    BY <2>1, <2>2, <2>3, <2>4, <2>5 DEF TimerInv, Course
<1>2. TimerInv /\ [DriversNext]_driversVars => TimerInv'
  <2> SUFFICES ASSUME TimerInv, [Next]_vars
               PROVE  TimerInv'
    BY Apart
  <2>1. OneApp' /\ Held' /\ Options'
    BY KeepsOneApp, KeepsHeld, KeepsOptions DEF TimerInv
  <2>2. QED
    BY <2>1, KeepsCourse DEF TimerInv
<1>3. QED
  BY <1>1, <1>2, PTL DEF DriversSpec

----------------------------------------------------------------------------
(* The theorems.                                                           *)

\* NumberOf and FndOf are Number and FndAt for the options of the run.
LEMMA SameAsOf ==
  ASSUME NEW n \in Nat, NEW p \in Positions, Position
  PROVE  /\ Number(n) = NumberOf(Digit(Current.init, place), n)
         /\ FndAt(n, p) = FndOf(Current.init, place, n, p)
<1>1. Number(n) = NumberOf(Digit(Current.init, place), n)
  BY DEF Number, NumberOf
<1> DEFINE moves == n \div 8
           distance == (p - place + 4) % 4
<1>2. moves \in Nat /\ distance \in Int
  <2>1. \A m \in Nat : m \div 8 \in Nat
    OBVIOUS
  <2>2. \A x, y \in 0..3 : (x - y + 4) % 4 \in Int
    OBVIOUS
  <2>3. QED
    BY <2>1, <2>2 DEF Position, Positions
<1>3. FndAt(n, p) = IF distance = moves % 4 THEN Number(n)
                    ELSE IF distance < moves THEN 0 ELSE Digit(Current.init, p)
  BY <1>2 DEF FndAt
<1>4. QED
  BY <1>1, <1>3 DEF FndOf

\* The digits that are set make up the number that was typed.
LEMMA DigitsMakeUp ==
  ASSUME NEW i \in Nat
  PROVE  (i % 16384) % 10000 =
           1000 * Digit(i, 0) + 100 * Digit(i, 1) + 10 * Digit(i, 2) + Digit(i, 3)
<1> DEFINE m == i % 16384
<1>1. m \in Nat
  OBVIOUS
<1>2. /\ Digit(i, 0) = (m \div 1000) % 10 /\ Digit(i, 1) = (m \div 100) % 10
      /\ Digit(i, 2) = (m \div 10) % 10 /\ Digit(i, 3) = (m \div 1) % 10
  BY DEF Digit, Power10
<1> HIDE DEF m
<1>3. m % 10000 = 1000 * ((m \div 1000) % 10) + 100 * ((m \div 100) % 10)
                  + 10 * ((m \div 10) % 10) + ((m \div 1) % 10)
  <2>1. MadeUp(m)
    BY <1>1, FourDigits, Zenon
  <2>2. QED
    BY <2>1 DEF MadeUp
<1>4. m % 10000 = 1000 * Digit(i, 0) + 100 * Digit(i, 1) + 10 * Digit(i, 2) + Digit(i, 3)
  BY <1>2, <1>3
<1>5. QED
  BY <1>4 DEF m

\* For any number of applications and runs and any options: the driver unpacks the
\* options that the application packed, and at every tick the digits, the LED, the
\* dot matrix and the text display show what the options say.
THEOREM DevicesAreRight ==
  ASSUME Alone, OpensApart
  PROVE  DriversSpec => []DevicesFollowOptions
<1>1. TimerInv => DevicesFollowOptions
  <2> SUFFICES ASSUME TimerInv
               PROVE  DevicesFollowOptions
    OBVIOUS
  <2> USE DEF TimerInv
  <2>1. OptionsArrive
    <3> SUFFICES ASSUME SetUp
                 PROVE  /\ interval = Current.interval
                        /\ count = Current.cnt
                        /\ (Current.init % 16384) % 10000 =
                             1000 * init_values[0] + 100 * init_values[1]
                             + 10 * init_values[2] + init_values[3]
      BY DEF OptionsArrive, SetUp
    <3>1. OptionsSet
      BY DEF Course
    <3>2. /\ init_values[0] = Digit(Current.init, 0) /\ init_values[1] = Digit(Current.init, 1)
          /\ init_values[2] = Digit(Current.init, 2) /\ init_values[3] = Digit(Current.init, 3)
      BY <3>1 DEF OptionsSet, Positions
    <3>3. Current.init \in Nat
      BY CurrentTypes
    <3>4. QED
      BY <3>1, <3>2, <3>3, DigitsMakeUp DEF OptionsSet
  <2>2. ASSUME Ticking, k > 0
        PROVE  ShowsTick(k - 1)
    <3>1. InTicks /\ Shows /\ Position
      BY <2>2 DEF Course
    <3>2. k - 1 \in Nat
      BY <2>2, <3>1 DEF InTicks
    <3>3. /\ Number(k - 1) = NumberOf(Digit(Current.init, place), k - 1)
          /\ \A p \in Positions : FndAt(k - 1, p) = FndOf(Current.init, place, k - 1, p)
      <4>1. 0 \in Positions
        BY DEF Positions
      <4>2. QED
        BY <3>1, <3>2, <4>1, SameAsOf
    <3>4. QED
      BY <2>2, <3>1, <3>3 DEF Shows, ShowsTick
  <2>3. QED
    BY <2>1, <2>2 DEF DevicesFollowOptions, Ticking
<1>2. QED
  BY <1>1, TimerInvHolds, PTL

\* What RunsItsCourse says of a step.
CourseStep ==
  /\ k = NoTicks /\ k' # k => app[owner] = "waiting" /\ app'[owner] = "close"
  /\ function' # function /\ armed => k = Current.cnt
  /\ lcd' # lcd /\ lcd.text = "count" /\ k = Current.cnt => lcd' = Lcd("shutdown", 3, 0)
  /\ lcd' # lcd /\ lcd.text = "shutdown" =>
       lcd' = IF lcd.n = 1 THEN NoText ELSE Lcd("shutdown", lcd.n - 1, 0)
  /\ armed /\ ~armed' /\ present' => lcd' = NoText

\* Every step of a run is the one that its course says.
LEMMA StepOfCourse ==
  ASSUME TimerInv, [Next]_vars
  PROVE  [CourseStep]_vars
<1> USE DEF TimerInv
<1>1. CASE fpga_timer_exit
  BY <1>1 DEF fpga_timer_exit, history, devices, CourseStep
<1>2. CASE Timer
  <2>1. armed /\ UNCHANGED <<app, opt, present, owner, place>>
    BY <1>2 DEF Timer
  <2>2. CASE Tick
    <3>1. Ticking /\ InTicks /\ UNCHANGED <<function, armed>> /\ count > 0 /\ present
      BY <2>1, <2>2 DEF Tick, Ticking, Course, Held
    <3>2. k # NoTicks /\ k # Current.cnt
      BY <3>1, CurrentTypes DEF InTicks, NoTicks
    <3>3. lcd.text # "shutdown"
      BY <3>1 DEF Course, Shutdown, Ticking, Ending
    <3>4. QED
      BY <3>1, <3>2, <3>3 DEF CourseStep
  <2>3. CASE TimeUp
    <3>1. UNCHANGED <<lcd, k, armed>> /\ Ticking
      BY <2>1, <2>3 DEF TimeUp, Ticking
    <3>2. k = Current.cnt
      BY <2>1, <2>3, <3>1, AtTimeUp DEF Course
    <3>3. QED
      BY <3>1, <3>2 DEF CourseStep
  <2>4. CASE Finish
    <3>1. UNCHANGED <<function, k, armed>> /\ Ending
      BY <2>1, <2>4 DEF Finish, Ending
    <3>2. /\ lcd' = Lcd("shutdown", finish_count, 0)
          /\ lcd.text = "count" => finish_count = 3
          /\ lcd.text # "count" =>
               lcd = Lcd("shutdown", finish_count + 1, 0) /\ finish_count \in 1..2
      BY <2>1, <2>4, <3>1, AtFinish DEF Course
    <3>3. lcd.text = "shutdown" => lcd.n # 1 /\ lcd.n - 1 = finish_count
      BY <3>2 DEF Lcd
    <3>4. QED
      BY <3>1, <3>2, <3>3 DEF CourseStep
  <2>5. CASE FinishLast
    <3>1. UNCHANGED <<function, k>> /\ Ending /\ lcd' = NoText /\ finish_count <= 0
      BY <2>1, <2>5 DEF FinishLast, Ending
    <3>2. lcd = Lcd("shutdown", 1, 0)
      BY <3>1 DEF Course, InEnd
    <3>3. lcd.text = "shutdown" /\ lcd.n = 1
      BY <3>2 DEF Lcd
    <3>4. QED
      BY <3>1, <3>3 DEF CourseStep
  <2>6. QED
    BY <1>2, <2>2, <2>3, <2>4, <2>5 DEF Timer
<1>3. ASSUME NEW a \in Apps, OpenTest(a)
      PROVE  CourseStep
  BY <1>3 DEF OpenTest, history, devices, CourseStep
<1>4. ASSUME NEW a \in Apps, OpenSet(a)
      PROVE  CourseStep
  BY <1>4 DEF OpenSet, history, devices, CourseStep
<1>5. ASSUME NEW a \in Apps, SetOption(a)
      PROVE  CourseStep
  <2>1. k' = NoTicks /\ UNCHANGED <<function, lcd, armed>>
    BY <1>5 DEF SetOption, devices
  <2>2. QED
    BY <2>1 DEF CourseStep
<1>6. ASSUME NEW a \in Apps, Command(a)
      PROVE  CourseStep
  <2>1. ~armed /\ UNCHANGED <<k, lcd>>
    BY <1>6 DEF Command, history, devices, Held
  <2>2. QED
    BY <2>1 DEF CourseStep
<1>7. ASSUME NEW a \in Apps, ResetSwitch(a)
      PROVE  CourseStep
  <2>1. /\ app[a] = "waiting" /\ owner = a /\ app' = [app EXCEPT ![a] = "close"]
        /\ armed' = TRUE /\ UNCHANGED <<function, lcd>>
    BY <1>7 DEF ResetSwitch, devices, Held
  <2>2. app'[owner] = "close"
    BY <2>1 DEF OneApp
  <2>3. QED
    BY <2>1, <2>2 DEF CourseStep
<1>8. ASSUME NEW a \in Apps, Release(a)
      PROVE  CourseStep
  BY <1>8 DEF Release, history, devices, CourseStep
<1>9. QED
  BY <1>1, <1>2, <1>3, <1>4, <1>5, <1>6, <1>7, <1>8, TimerActions, Zenon

\* For any number of applications and runs and any options: a run does not tick
\* before the reset switch, its time is up after exactly TIMER_CNT ticks, and it
\* counts down from 3 to 1 before it clears the devices.
THEOREM RunIsExact ==
  ASSUME Alone, OpensApart
  PROVE  DriversSpec => RunsItsCourse
<1>1. TimerInv /\ [DriversNext]_driversVars => [CourseStep]_vars
  BY Apart, StepOfCourse
<1>2. DriversSpec => [][CourseStep]_vars
  BY <1>1, TimerInvHolds, PTL DEF DriversSpec
<1>3. QED
  BY <1>2 DEF RunsItsCourse, CourseStep

=============================================================================
