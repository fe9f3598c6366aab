# A TLA+ model of the embed programs

The repository holds the homework (`hw1`, `hw2`, `hw3`) and exercises (`pra3` to
`pra6`) of an embedded systems course: a key-value store of three processes on a
board with switches, LEDs, an FND, an LCD and a motor, and kernel drivers for a
countdown timer, a stopwatch, a blinking timer, kernel memory and interrupts. This
directory models the homework and the exercises that keep state (`pra5`, `pra6`),
checks them with TLC and proves their safety properties with TLAPS. `PROJECT.json` lists
every run, mutant, source line, hazard, finding and theorem.

## Inventory

**hw1, processes** (`main.c`, `shmem.c`, `message.c`). `io` reads the devices and
sends a message per input; `main` receives them and owns the store; `merge` waits
in `read_shm` for `"M"` (merge two tables) and `"B"` (end). State: the message
queue, the command buffer, one set of two System V semaphores. Hard: one set
serves two purposes (both `getsem` calls use `SEM_KEY`), every operation has
`SEM_UNDO`, the store is shared without a lock of its own. It is correct if main
and merge exclude each other, every `"M"` leads to one merge before main goes
on, and BACK ends everything.

**hw1, store** (`store.c`). A memory table of three pairs is flushed to a file
`<n>.sst`; with three tables the two oldest are merged; `get_pair` looks in the
memory table and then in the tables from the most recent on; a restart finds the
files again. State: memory table, list of tables, files, counter. Hard: order and
numbering over merges and restarts, a kill between two file operations. It is
correct if a key reads the value put last and no pair is invented.

**hw1, list of tables** (`store.c`). Twenty nodes in shared memory, linked in both
directions, used from both ends. It is correct if it is a sorted sequence.

**hw1, console** (`main.c`, `io.c`). Three modes, an editor for the key and one for
the value with letters in the manner of a phone, and what is displayed. Hard:
static variables that outlive what they belong to. It is correct if the key is
what was typed and the displays tell the truth.

**hw1, input devices** (`io.c`, `io_process` of `main.c`). `read_input` polls the
reset switch, then the push switches, then the keys; 1 is measured for a long press,
4 with 6 is a chord; after an input io pauses for half a second. State: where io is,
the second in which a press began, the events in the key device. Hard: levels that are
polled, a time measured in whole seconds, one event taken of a full buffer. It is
correct if a press that lasts is read in time, a long press is long, and a key arrives.

**hw1, LED process** (`io.c`). `control_led` kills the process that makes the LEDs
blink and forks another; `kill_led` ends the last one. State: `led_pid` and the
processes. Hard: SIGKILL takes effect later, a dead process is a zombie until it is
waited for, `fork` may fail. It is correct if there is one such process and the LEDs
show what was asked for last.

**hw2, timer driver** (`new_timer_driver.c` and its application). Options in one
word, two ioctls, and two timer handlers that set the timer again for each other.
Hard: arithmetic at the limits and of options that are not refused; the timer outlives
the open file; two applications at the door. It is correct if every tick shows what
the options say and the run ends with everything cleared.

**hw3, stopwatch driver** (`stopwatch_driver.c` and its application). Four
interrupt handlers, a timer handler, a work queue and a sleeping application on
one record without a lock. Hard: every pair of them; a lost wake-up.

**pra5, kernel timer** (`kernel_timer.c`). A write stores a number of blinks and starts
the timer, the handler counts down and sets it again. Hard: write and rmmod meet the
handler on another processor. It is correct if the LEDs blink as often as asked.

**pra5, kernel memory** (`mem_ctrl.c`). Two pointers in an array that open allocates;
write allocates a buffer, read frees it. Hard: no pointer is ever cleared. It is correct
if every block is freed once and a read returns what was written.

**pra6, interrupts** (`interrupt.c`). write sleeps until the fifth press of VOL UP. Hard:
the count is tested before the sleep and outlives the run; handlers are shared by all who
open the device. It is correct if five presses wake, and no fewer.

**The rest.** `pra3`, `pra4`, `pra4-2` and `example` keep next to no state. `drivers`
holds binaries. The `submit` directories are copies.

How they interact: io → main by messages, main ↔ merge by buffer and semaphores,
main and merge ↔ list of tables by shared memory; in the drivers, application →
driver by system calls, driver → application by a wait queue, and everything
inside a driver by a shared record.

## Modules

| module | models | composed with |
|---|---|---|
| `KvProcesses` | `main.c`, `shmem.c`, `message.c` | the store as two counters |
| `KvStore` | `store.c` and its files | implements `KvMap`, uses `TableList` |
| `KvMap` | what the store promises | |
| `MetaList` | the nodes of the list of tables | implements `TableList` |
| `TableList` | what the list promises | |
| `Console` | `main_process`, `add_char_and_update`, `process_value`, displays | the store as an index |
| `KvFaults` | a merge process that dies in `merge()` | extends `KvProcesses` |
| `InputReader` | `io_process`, `read_input` and the user | |
| `LedControl` | `control_led`, `kill_led` and the blinking process | |
| `HwDevices` | the specification of both for TLC | extends `InputReader`, `LedControl` |
| `Hw1Parts` | the specification of three parts of hw1 for TLC | extends `KvFaults`, `HwDevices`, `MetaList` |
| `Stopwatch` | `hw3` | |
| `TimerDriver` | `hw2` | |
| `KernelTimer`, `MemCtrl` | `pra5` | |
| `Interrupts` | `pra6` | |
| `Drivers` | the specification of the last four for TLC | extends them |
| `KvProcesses_proofs`, `KvStore_proofs`, `MetaList_proofs`, `Console_proofs`, `HwDevices_proofs`, `Stopwatch_proofs`, `Drivers_proofs` | the theorems of each | extends it (`KvProcesses_proofs`: and `KvFaults`) |
| `KvReads_proofs` | the theorems of `KvStore` about what is read | extends `KvStore_proofs` |

Definitions have the names of the functions where one definition is one function.
A definition that comes after the same definition with a small change, marked
"(mutant: ...)", shows how the code could be wrong; each property is violated by
at least one of them.

**KvProcesses.** `pc` holds where each process is; a label is a call that another
process can observe. `SemP`, `SemV`, `SemExit` and `Settle` are the kernel: a V
or an exit completes the P of a sleeper in the same step, because the kernel does
it on behalf of the sleeper; a P without a sleeper before it takes the token. What
an input means depends on the mode and on what was typed (`Console`), so an input
is here one of Edit, Put, Merge and Back.

**KvStore.** Files are sequences of lines; a line is what `fprintf` writes and
`fscanf` reads. A file opened with `"w+"` is empty until `fclose`. `Crash` may come
between any two file operations. `InOrder` is what a sort by one field leaves: the
entries by that field, those with the same value as they were (`sort_by_key` calls the
`qsort` of the C library, which is external). `load_storage` reads the
files one after the other: `load_entry` is what it has after each. `TableLines` is what a
reader finds: the lines that are on disk, nothing of a file that is still in the buffer.
Exclusion of main and merge is the property of
`KvProcesses` this module relies on; so a merge of the merge process is a merge
after the put that asked for it.

A merge that meets a table without its file (two tables may have one file after a
restart that reused a number) dies: `MergerDies` ends the program when main merges, and
only the merge process when that does (`merger`); main goes on until its next command, where it is
"stuck". `answer` is the last pair of a key asked for and the value returned, so that
`KvMap` can tie the one to the other; `GetUndefined` of `KvMap` is the one answer that is
not determined: no table yet, and a key never put.

**KvFaults** adds `MergeDies` to `KvProcesses`: `merge()` ends the process before,
between or after its two `popleft`, and all that follows is what SEM_UNDO does.

**MetaList.** A node is a record with `index`, `filename`, `prev` and `next`; the
slot number is the pointer and 0 is NULL. The walks are recursive functions.

**Console.** An action is a message that main handles. `typed` is history: the
digits since the key was cleared.

**Stopwatch.** A step is what one actor does between two accesses another can get
in between: `ticker++` is a load and a store, `write_device` a read and an output,
VOL UP three stores. The four digits are stored in one step: any change of them is
followed by `queue_work`, so a torn copy is followed by another one. `late`, `held`
and `halted` are history.

**InputReader.** Time is counted in polls, and io runs as soon as its sleep is over;
between two of its steps the user may move any switch and any key. `sub` and `tv_sec`
are the clock: seconds that began, as `gettimeofday` has them. `held`, `waits` and `alone`
are history: how long 1 was measured, how long the lowest switch that is down has waited
to be sent, and a key that waits alone. `preprocess_io` turns a character into a message
one by one; both are here the name of the input.

**LedControl.** `control_led` is kill, wait and fork in three steps, because the blinking
process goes on in between. `-1` in `led_pid` is what a failed `fork` leaves, and `kill`
of it reaches every process. `fresh` and `failed` are history.

**HwDevices**, **Hw1Parts** and **Drivers** show one of several parts that share nothing in
each behaviour: `part`, `shown` or `loaded` says which, and the others keep still. What is
checked of a part is what its own specification (`FaultSpec`, `DevicesSpec`, `ListSpec`) would
give, and the proofs are about that one.

**TimerDriver.** The timer handlers are single steps (one processor runs them and
nothing else changes `timer_data` meanwhile in the passing run). `open` tests the count
and sets it in two steps, `OpenTest` and `OpenSet`. `k`, `owner` and `place` are
history: the ticks since the reset switch, the application that set the options, and the
position of the digit when it did.

**KernelTimer.** open is test and set; write is store, delete and add; the handler is load,
store, test and add, on another processor. `del_timer_sync` waits for the handler. `asked`,
`base`, `raced`, `crowded` and `doubled` are history: what the last write asked for, the
blinks before it, whether the handler was already running when it stored the count, two
processes that were in the device at once, and an `add_timer` too many, after which the
kernel says BUG and the behaviour ends.

**MemCtrl.** A block is a number and is never given out twice, so that each use of a freed
one shows. `misused` is history: a call that `test_mem` does not make; `refused`: the
blocks of reads that failed and were not repeated.

**Interrupts.** The test of the count and the sleep are two steps, as in the code; the
handler wakes all who sleep. `presses`, `early` and `shared` are history.

## Runs

Passing:

| run | shows | size |
|---|---|---|
| `processes` | exclusion, one merge per request, bounded tables and adjustments, nothing left after BACK, termination | 40 thousand states |
| `hw1_parts` | main goes on when merge dies, up to the next command; switches are sent in time, long press, keys arrive; one LED process, LEDs as asked, blinking; linked nodes implement the sorted sequence | 615 thousand |
| `store_session` | one session implements the map | 322 thousand |
| `store_restart` | restarts and kills | 253 thousand |
| `console` | editors and displays | 2 million |
| `stopwatch` | timer owned, display current, halt only after a long press | 179 thousand |
| `stopwatch_slow` | slow handlers and work, signals, removal of the module, termination | 928 thousand |
| `drivers` | hw2: options, displays, course and end of a run; pra5: blinks as asked, sound heap; pra6: five presses, wake-up | 411 thousand |

Violated, each a disagreement between the code and a comment or an assertion of the
repository (see `findings`):

- `restart_order`: after a merge and a restart an older value of a key may be read;
- `stopwatch_sleep`: without `SleepsInTime` the wake-up is lost and the application
  sleeps for ever;
- `console_overrun`: the hundredth pair with a value of five characters overruns the
  second line, which `print_lcd` asserts it does not;
- `timer_rotation`: the index that a comment lets run "through 1-9" runs through 1 to 8.
  `DevicesFollowOptions` states what the code does, a move after eight ticks.

More is known and is written into the passing properties as the condition under which
they hold; changing a constant of a configuration shows each:

- `MotorOutlastsMain = FALSE` in `KvProcesses.cfg`: merge takes the token of its own
  `V(merge_sem)` and merges again without a request (`MergeOnRequest`, `UndoBounded`);
- `UndoBounded`: the adjustments of semaphore 1 grow with every command and reach the
  limit of 32767 of the kernel after some 32764 tables;
- `BackTerminates` under `FaultSpec`: when merge is dead the next command, BACK included,
  keeps main in `write_shm` for ever (`MainOutlivesMerge` says where it stays);
- `TablesImmutable` in `KvStoreRestart.cfg`: after a restart the counter of file numbers
  may be that of an existing table, which the next flush overwrites;
- `CleanupOutlastsMain = FALSE` in `KvProcesses.cfg`: SEM_UNDO of the exiting merge
  process takes back the acknowledgement main waits for (a deadlock, and so
  `BackTerminates`);
- `KvMap`, `GetUndefined`: while there is no table `get_pair` returns an
  uninitialised variable for a key that is not in the memory table;
- `Console`, `KeyHoldsTyped`: the cursor is not reset when the key is cleared, so the
  property speaks of positions relative to it;
- `Console`, `LettersOfButton`: rows 7 and 9 have no NUL, and
  in a full value a press that adds nothing prepares the next one to replace a letter
  of another button;
- `HeldIsSent` is about switches that stay down: a press that is shorter than the pause, or
  made while 1 is measured, may not be read at all, and who still holds a switch after
  the pause types again with it, a 1 after a long press too;
- `OneBlinker`, `failed`: after a failed `fork` the next `control_led` kills every process;
- `LateTickBounded` is 1 and not 0: a button may interrupt the handler between the test
  of `is_stop` and the store of `ticker`, also after VOL UP has cleared it;
- `CleanKey = FALSE` in `Stopwatch.cfg`: a key that was down before `inter_open` ends the
  stopwatch when it goes up (`HaltNeedsLongPress`);
- `Signals = TRUE` in `Stopwatch.cfg`: after a signal the timer stays set, and the next
  run calls `add_timer` for it (`TimerOwned`);
- `Alone = FALSE` in `Drivers.cfg`: a second run changes the running timer, and
  `OpensApart = FALSE`: two applications that open at the same time change each other's
  run (`DevicesFollowOptions`, `RunsItsCourse`);
- `BlinksAsAsked`, `crowded`: two processes may pass the unlocked test of open together,
  or the first to close lets a third in; they both add the timer, and the kernel answers
  the second `add_timer` with BUG;
- `BlinksAsAsked`, `raced`: a handler that is running when write stores the count may undo
  the store, or add a blink;
- `HeapSound`, `misused`: two writes of a size, a close before the read, a second read, or
  a second open lose a block or free one twice;
- `HeapSound`, `refused`: a read whose `copy_to_user` fails leaves its block behind, since
  `test_mem` does not look and closes;
- `Wakes`, `shared`: of two processes that have the device open the first to close it takes
  the handlers away from the other.

**Bounds.** `MaxInputs` 8, `QueueMax` 2 (processes): enough inputs for flush, background
merge, manual merge and BACK in one behaviour, with a queue that fills. Two keys
(store): a key occurs in several tables, twice in one, and not at all; the session has
the table sizes of the code and nine puts, the restarts a memory table of two pairs,
five puts, three starts and one kill. `LIST_CNT` 4 (list): first, middle, last and
full. Values of two characters and three buttons (console): a full value and two letter
buttons. For the lines (`ConsoleOverrun.cfg`) the constants of the code, values of five and lines of
sixteen characters, and 101 pairs: an index of three digits.
One or two ticks and runs (stopwatch):
a tick is load, store, digits and queue, so one tick meets every other
actor, and the second run meets what the first left. `TicksPerSecond` is 1 there, so
that each tick changes the digits. Three switches, of which 1 is measured and 4 and 6
are a chord, two keys, three polls in a second and two events (devices): every order of
the three kinds of switches, a press that begins in any part of a second, and a buffer
with something behind its first event; two process numbers and one death: the process
before and the one after. Options at both ends of their ranges and just outside, two
applications and two runs (drivers), with 100 ticks: the digit goes around three times;
three writes of 0, 2 and of 257, which does not fit in a char; five blocks, that is a
session of the memory driver with both buffers and one with a buffer that the first may
have left; two processes that sleep.

**Timing assumptions** are constants: `MotorOutlastsMain` (merge sleeps a second in
`run_motor` while main makes two calls), `CleanupOutlastsMain` (merge closes seven
descriptors while main makes one call), `SleepsInTime` (100 ms from `add_timer` to the
sleep), `WorkInTime` (handlers and work end within 100 ms; `stopwatch_slow` does
without), `CleanKey`, `Alone` and `OpensApart` (what the user does). The
modules of hw2 and pra5 are unloaded only while their device is closed: their `fops` have
no `.owner`, so nothing else keeps them. The lists above say what happens
without them.

**Fairness.** Weak fairness of processes that are runnable: `IoSend`, main and merge;
the application once it is in the driver; handlers of interrupts that are pending; the
timer once it is set; the work queue; the polls of io and the clock; the blinking process,
and SIGKILL once it is sent; a process inside the interrupt driver. The user is never
forced to press anything: reading an input, opening a device, signals and switches are
not fair. `KeyArrives` has switches that come to rest as its premise, and `Wakes` a VOL UP
that is pressed again and again.

## Proofs

Every invariant and every action property of the passing runs, and both refinements, are
proved for all values of the constants; what stays with TLC is at the end of this
section. An assumption named below is a hypothesis of the theorem and one of the
conditions under "Timing assumptions" or "Runs"; without it TLC finds the property
violated. The constants have named assumptions in their modules, which the runs
evaluate: sizes are naturals, `Keys` is finite, a text of `MemCtrl` is not `Nothing`, at
least one application runs.

**KvProcesses_proofs**, for all table sizes, triggers, capacities, queue lengths and
numbers of inputs, under `MotorOutlastsMain`: `TypeCorrect`, `StoreExcluded` (main does
not touch the store while merge does), `MergedOnRequest` (every `"M"` is answered by
exactly one merge before main goes on), `TablesStayBounded`, `BackIsLast` and
`UndoStaysBounded`. None of them is inductive. They rest on `IInv`: exclusion follows from
where main can be while merge is at each of its labels (`Handshake`, which fixes the
semaphores, the undo adjustments and the sleepers for every pair of labels), merge's
reaction from what is in the buffer and in its message (`Command`), the number of owed
merges from both (`Owed`), the number of tables from the label of main (`Tables`), and the
end from what is still in the queue (`Stream`). The timing assumption is used exactly where
merge ends `run_motor`. The adjustments of SEM_UNDO need two counts above that (`UndoInv`):
semaphore 1 is adjusted once for each command, and every command but the first and the
last has cost a full memory table of inputs.

The same with a merge process that may die (`KvFaults`): `StoreExcludedWithFaults` and
`DeadMergeIsSilent` (`NoAnswerFromTheDead`, the safety beside `MainOutlivesMerge`, stated for
this theorem: main takes no command for answered that nobody answered). Before a death `IInv`
and `UndoInv` hold as without faults; after it `DeadInv` says what SEM_UNDO has left: no token in
semaphore 1, nobody to give one, and main at a line that needs no answer. `MergeDies` leads from the one to the other because merge, while it
merges, holds exactly the token that main waits for.

**KvStore_proofs** and **KvReads_proofs**, for every finite set of keys and any number of
puts:

- `NothingInvented`, with no hypothesis, over any number of restarts and kills: every pair
  in memory, in the array of merge, in the buffer of a file and on disk is one that was put
  (`ContentInv`). This needs what `merge` computes: the stable sort and
  `remove_duplicates` only keep pairs they are given.
- `TablesStayFew`: at most `MERGE_TRIGGER` tables and a bounded length, also after a
  restart from whatever a kill left. `Sizes`, its hypothesis, says what the code's constants
  are: a merge reads two tables, and one put does not fill the memory table.
- `ListStaysKept`, under `Sizes`, from the same invariant: whatever flush and merge insert
  finds a free node, and `insert_node`, which here counts the tables with smaller indexes, puts
  it where `TableList` does (`NodeInItsPlace`). `MetaList` implements `TableList`
  (`ListIsSequence`), so the nodes are a list such as this one uses. `ListIsKept` is stated for
  this theorem and no run lists it.
- One run of the program (`Session`: one start, no kill). `SessionInv` says that the list is
  sorted by index, names exactly the files, each once, and that the table merge has popped is
  older than all others. On it stands `ReadsInv`: for each key, what `get_pair` would find
  first, in the memory table, then in the tables from the most recent one, then in the array
  of merge, is the value put last. From these: `StoreStaysSound`, `TablesStayAsWritten`,
  and `StoreIsMap`: the store implements `KvMap`, every step being a Put, a Get that answers
  the key it was asked for with the value put last, or None, or invisible. A merge is the hard case: it takes the two oldest tables out of the
  list, and the merged one must take their place in the search order.
- `OrderedRestartIsSafe`, again over any number of starts and kills: a start after BACK reads
  what was read before as long as the list was in the order of its file numbers. What
  `restart_order` shows is the case where it was not. `EndInv` says that BACK leaves nothing
  in memory; `load_storage` is described by the set of files it finds, in order.

The proof of `TablesStayFew` found that a former `CASE` of `TableLines` had two guards true at
once, when the file that is being written is also on disk, where TLA+ leaves the choice open;
it is an `IF` now.

**MetaList_proofs**, for any number of nodes: `LinksStaySound` and `ListIsSequence`, the
refinement of `TableList`. The inductive invariant `ChainInv` says that there is a sequence of
distinct nodes, the nodes in use, to which `head`, `tail`, `next` and `prev` all agree and
whose indexes ascend; `LinksSound` alone is not inductive, since it does not say that the
indexes ascend, on which the place of the next insertion depends. A walk over `next` or `prev`
is then computed by induction; the four cases of `insert_node` come to one description
(`Spliced`), and so do those of `popleft`.

**Console_proofs**: `DisplaysAreTrue`; `KeyIsTyped`, with the arithmetic of the cursor modulo
4 and the digits typed kept in a sequence of at most four; `LinesOverrunFrom100`: where a line
has eleven characters more than a value (`Room`; 16 and 5 in the code), nothing but a pair put
with an index from 100 on, or one found among a thousand, makes a line that does not fit, from
the digits a number has (`OverrunsFrom100`, stated for this theorem; `console_overrun` shows that
such lines are made); `LettersAreOwn`, from what a string in
`key_map` is up to its NUL and the invariant that the last character of a value that is
not full is a letter of the button remembered.

**HwDevices_proofs**, for any numbers of processes, deaths, keys and polls in a second:
`OneBlinkerLeft` and `LedsShowRequest` (`LedInv`: `led_pid` names the only process there is,
and which request it works for); `LongPressIsTimed` (`Timed`: how many polls a measurement has
taken for each second that began), and on it `HeldSwitchIsSent`, whatever the user does
(`Awaited`: what the lowest switch that is down has waited, with what is left of the pause or
of a measurement of 1 that began before).

**Stopwatch_proofs**: `TimerIsOwned` without signals (`Owner`: the timer is set or its handler
runs only between `add_timer` and the end of the sleep); `LateTicksBounded` and `GoneStaysQuiet`
with no hypothesis; `HaltsAfterLongPress` under `CleanKey`; `DisplayIsCurrent` under
`WorkInTime` without signals (`CatchesUp`: whoever changed the stopwatch has not queued the
work yet, or the work pending or running will show the change). `DigitsFit` has no run: as long
as less than 100 minutes are counted, every nibble of the word that is written to the FND is a
decimal digit, which 6000 ticks keep from a model checker. The tens of minutes are a byte
(`Byte`), which wraps from 2560 minutes on.

**Drivers_proofs**. A lemma says that a step of one driver leaves the others alone, so each
has an invariant of its own: `WokenByTheFifth`, for any number of processes (`Seen`: who waits
has seen at least as many presses as are counted); `BlinksAreCounted`, for any number of
writers and writes (nothing is left when the module is gone; and until two processes are in
the device at once, blinks made and blinks left are what was asked, at every line of the
handler); `BlocksAreFreedOnce` (`Owned`: which blocks are not freed, for each state of the
device, with those of failed reads); and for hw2 `DevicesAreRight` and `RunIsExact`, under `Alone` and `OpensApart`, for any
options, applications and runs (`Course`: where in a run the timer stands, from the ticks since
the reset switch), with the packing of the options and the digits of a number as lemmas.

**Only model-checked.** Liveness, which needs fairness and ENABLED: `BackTerminates`,
`MainOutlivesMerge`, `HaltTerminates`, `Terminates`, `Wakes`, `KeyArrives`, `LedsBlink`. The four
violations of the list above are TLC's as well. The library's induction theorems cannot be
instantiated here, so induction over numbers goes through the least element of a set
(`AllNumbers`), and no operator of a module with theorems is RECURSIVE.

## Not modelled

`pra3`, `pra4`, `pra4-2` and the examples (see above); the pixels, wording and speed of
the displays and the motor; failures of `open`, `mmap` and `shmget` at the start, which
end the program before there is anything to go wrong; a `kmalloc` of `pra5` that fails,
after which the kernel stops with a page fault; a module that is unloaded while its device
is open, after which freed code runs. What the stopwatch shows after 100 minutes is out of reach of
a model checker, so that hazard has no property of a run; `DigitsFit` proves what is shown
before. `hazards` of `PROJECT.json` says for each hazard that no property catches why not;
where a property holds only under a condition, the note says what the condition leaves out, and
a hazard that is left out altogether has no property.

## Plan

Done: 1. `KvProcesses` and its proofs; 2. `KvMap`, `KvStore`; 3. `TableList`,
`MetaList`; 4. `Console`; 5. `Stopwatch`; 6. `TimerDriver`; 7. `InputReader`,
`LedControl`; 8. `KvFaults` and the adjustments of `SEM_UNDO`; 9. two applications on the
hw2 device; 10. `KernelTimer`, `MemCtrl`, `Interrupts`; 11. the proofs of every invariant and
action property of the runs; 12. the refinements of `KvMap` and `TableList`;
13. that `insert_node` of `KvStore`, which works on a sequence, is the `InsertTable` of
`TableList`; 14. the proofs about a merge process that dies; 15. the digits of hw3 before
100 minutes; 16. the wait of a switch, with its proof, and the lines of the console.

Next: 17. what a restart keeps after a kill, beyond `NoInvention`; 18. that the lists
`load_storage` builds are those `TableList` builds from the same directory.
