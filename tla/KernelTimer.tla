---------------------------- MODULE KernelTimer ----------------------------
(***************************************************************************)
(* The kernel timer of pra5: write asks for a number of blinks, one every  *)
(* three seconds, and the timer's handler counts them down.  A handler     *)
(* runs on one processor while write or rmmod run on another;              *)
(* del_timer_sync waits until it has ended.                                *)
(***************************************************************************)
EXTENDS Integers, FiniteSetsExt

CONSTANTS
  Writers,    \* the processes that run kernel_timer_test
  Numbers,    \* the numbers they are started with
  MaxWrites   \* bound: calls of write

ASSUME KernelTimerAssumption == Numbers \subseteq Int /\ MaxWrites \in Nat

VARIABLES
  kernel_timer_usage,
  writer,     \* where each process is
  blinks,     \* mydata.count: the blinks that are left
  pending,    \* mydata.timer is set
  blink,      \* where kernel_timer_blink is, "idle" if it does not run
  register,   \* mydata.count as the handler has read it
  total,      \* *count: all blinks
  installed,    \* the module is loaded
  writes,     \* number of calls of write
  asked,      \* history: what the last write asked for
  base,       \* history: total when it did
  raced,      \* history: it did so while the handler was running
  crowded,    \* history: two processes had the device open at once
  doubled     \* history: add_timer was called for a pending timer

handler == <<blink, register>>
asking == <<writes, asked, base, raced>>
blinkVars == <<kernel_timer_usage, writer, blinks, pending, handler, total, installed,
               asking, crowded, doubled>>

BlinkInit ==
  /\ kernel_timer_usage = 0 /\ writer = [a \in Writers |-> "closed"]
  /\ blinks = 0 /\ pending = FALSE /\ blink = "idle" /\ register = 0 /\ total = 0
  /\ installed = TRUE
  /\ writes = 0 /\ asked = 0 /\ base = 0 /\ raced = FALSE
  /\ crowded = FALSE /\ doubled = FALSE

\* add_timer and del_timer_sync; the second waits (mutant: it does not).
add_timer == pending' = TRUE /\ doubled' = (doubled \/ pending)
NotWaited == TRUE
Waited == blink = "idle"
del_timer_sync == Waited /\ pending' = FALSE /\ UNCHANGED doubled

----------------------------------------------------------------------------
(* The processes.  open tests the usage and sets it in two steps, with no  *)
(* lock, so that two may pass the test before either has set it; and the   *)
(* first of them to close sets it to 0 with the other still in.  open of   *)
(* one that finds the device in use fails with EBUSY and changes nothing.  *)

kernel_timer_open_test(a) ==
  /\ installed /\ writer[a] = "closed" /\ writes < MaxWrites
  /\ kernel_timer_usage = 0
  /\ writer' = [writer EXCEPT ![a] = "open"]
  /\ crowded' = (crowded \/ \E b \in Writers : writer[b] # "closed")
  /\ UNCHANGED <<kernel_timer_usage, blinks, pending, handler, total, installed, asking,
                 doubled>>
kernel_timer_open_set(a) ==
  /\ writer[a] = "open"
  /\ kernel_timer_usage' = 1
  /\ writer' = [writer EXCEPT ![a] = "write"]
  /\ UNCHANGED <<blinks, pending, handler, total, installed, asking, crowded, doubled>>

\* atoi into a char, which is unsigned on ARM.
Char(n) == n % 256
WriteCount(a, n) ==
  /\ writer[a] = "write"
  /\ blinks' = Char(n)
  /\ writer' = [writer EXCEPT ![a] = "delete"]
  /\ writes' = writes + 1
  /\ asked' = Char(n) /\ base' = total /\ raced' = (blink # "idle")
  /\ UNCHANGED <<kernel_timer_usage, pending, handler, total, installed, crowded, doubled>>
WriteDelete(a) ==
  /\ writer[a] = "delete"
  /\ del_timer_sync
  /\ writer' = [writer EXCEPT ![a] = "add"]
  /\ UNCHANGED <<kernel_timer_usage, blinks, handler, total, installed, asking, crowded>>
WriteAdd(a) ==
  /\ writer[a] = "add"
  /\ add_timer
  /\ writer' = [writer EXCEPT ![a] = "close"]
  /\ UNCHANGED <<kernel_timer_usage, blinks, handler, total, installed, asking, crowded>>

kernel_timer_release(a) ==
  /\ writer[a] = "close"
  /\ kernel_timer_usage' = 0
  /\ writer' = [writer EXCEPT ![a] = "closed"]
  /\ UNCHANGED <<blinks, pending, handler, total, installed, asking, crowded, doubled>>

\* rmmod: del_timer_sync, then *count is freed.  (The fops have no .owner, so that
\* nothing keeps the module while the device is open; who removes it waits.)
kernel_timer_exit ==
  /\ installed /\ \A a \in Writers : writer[a] = "closed"
  /\ del_timer_sync
  /\ kernel_timer_usage' = 0
  /\ installed' = FALSE
  /\ UNCHANGED <<writer, blinks, handler, total, asking, crowded>>

----------------------------------------------------------------------------
(* kernel_timer_blink.                                                     *)

Expire ==
  /\ pending /\ blink = "idle"
  /\ pending' = FALSE
  /\ register' = blinks
  /\ blink' = "store"
  /\ UNCHANGED <<kernel_timer_usage, writer, blinks, total, installed, asking, crowded,
                 doubled>>
BlinkStore ==
  /\ blink = "store"
  /\ blinks' = register - 1
  /\ blink' = "test"
  /\ UNCHANGED <<kernel_timer_usage, writer, pending, register, total, installed, asking, crowded,
                 doubled>>

\* The build may test the value it stored or read it again.  (mutant: the last
\* blink is left out)
OverEarly(n) == n <= 0
Over(n) == n < 0
BlinkTest ==
  /\ blink = "test"
  /\ \E n \in {register - 1, blinks} : blink' = IF Over(n) THEN "idle" ELSE "add"
  /\ UNCHANGED <<kernel_timer_usage, writer, blinks, pending, register, total, installed, asking,
                 crowded, doubled>>
BlinkAdd ==
  /\ blink = "add"
  /\ total' = total + 1
  /\ add_timer
  /\ blink' = "idle"
  /\ UNCHANGED <<kernel_timer_usage, writer, blinks, register, installed, asking, crowded>>

\* add_timer answers a pending timer with BUG: nothing is said about what follows.
BlinkNext ==
  /\ ~doubled
  /\ \/ kernel_timer_exit \/ Expire \/ BlinkStore \/ BlinkTest \/ BlinkAdd
     \/ \E a \in Writers :
          \/ kernel_timer_open_test(a) \/ kernel_timer_open_set(a)
          \/ WriteDelete(a) \/ WriteAdd(a) \/ kernel_timer_release(a)
          \/ \E n \in Numbers : WriteCount(a, n)

----------------------------------------------------------------------------
(* Properties.                                                             *)

\* While nothing is under way the blinks since the last write and those that are
\* left are what was asked for, and when the timer is not set again there were as
\* many as asked for.  A timer that expires between the store of the count and
\* del_timer_sync is counted right too; but not a handler that was already running
\* when the count was stored: it may undo the store, or add a blink.
Writing == \E a \in Writers : writer[a] \in {"delete", "add"}
CountedDown ==
  ~Writing /\ blink = "idle" /\ ~raced /\ installed =>
    total - base = IF pending THEN asked - Max({blinks, 0}) ELSE asked

\* When the module is gone and *count is freed, the timer is not set and no handler
\* runs, however many had the device open.
NothingLeft == ~installed => ~pending /\ blink = "idle"

\* The timer blinks as often as the last write asked and is never set while it is
\* pending, whenever write and rmmod meet the handler: as long as no two processes
\* have passed the test of kernel_timer_usage at once.  Once two have
\* (kernel_timer.c:39-42) their del_timer_sync and add_timer may cross, and the
\* second add_timer finds the timer pending.  What rmmod leaves does not depend on it.
BlinksAsAsked == NothingLeft /\ (~crowded => CountedDown /\ ~doubled)

=============================================================================
