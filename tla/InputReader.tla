---------------------------- MODULE InputReader ----------------------------
(***************************************************************************)
(* The io process of hw1 and the three input devices it polls: the reset   *)
(* switch, the push switches and the keys BACK, VOL+ and VOL-.             *)
(*                                                                         *)
(* Time is counted in polls (usleep(10000)).  The io process runs as soon  *)
(* as its sleep is over; in between the user may do anything.              *)
(***************************************************************************)
EXTENDS Integers, Sequences, FiniteSetsExt

CONSTANTS
  Switches,     \* the push switches that are pressed, out of 1..9
  Keys,         \* the keys that are pressed: "B" (BACK), "+" and "-"
  PerSecond,    \* polls in a second, 100 in the code
  MaxEvents     \* bound: key events that wait in the device (64 are read at once)

ASSUME InputReaderAssumption ==
  /\ Switches \subseteq 1..9 /\ Keys \subseteq {"B", "+", "-"}
  /\ PerSecond \in Nat /\ PerSecond >= 2
  /\ MaxEvents \in 1..64

VARIABLES
  io,        \* where the io process is: "read_input", "long" or "exited"
  wait,      \* polls until its usleep is over
  sub,       \* the part of the current second that is over
  tv_sec,    \* seconds that began since start_time, counted up to two
  down,      \* the switches that are down; ResetSwitch is the dip switch
  events,    \* key events in the buffer of the readkey device
  sent,      \* the input that was sent last
  held,      \* history: polls since start_time
  waits,     \* history: polls since the lowest switch that is down became that, or
             \*   was sent
  alone      \* history: a key that found the buffer empty and is not sent yet

user == <<down, events>>
readerVars == <<io, wait, sub, tv_sec, down, events, sent, held, waits, alone>>

ResetDip == 0       \* the reset switch, among the switches
NoInput == "none"
Long == "L"
Chord == "D"
Reset == "R"

ReaderInit ==
  /\ io = "read_input" /\ wait = 0 /\ sub \in 0..(PerSecond - 1) /\ tv_sec = 0
  /\ down = {} /\ events = <<>> /\ sent = NoInput
  /\ held = 0 /\ waits = 0 /\ alone = NoInput

----------------------------------------------------------------------------
(* io_process.                                                             *)

\* The switch that is read before all others that are down.
First == IF ResetDip \in down THEN ResetDip ELSE Min(down)

\* The pause after an input.
Pause == PerSecond \div 2

\* The loop of io_process for an input: send_message, and the end for BACK or the
\* pause.  S are the switches that the input is about.
Send(input, S) ==
  /\ sent' = input
  /\ io' = IF input = "B" THEN "exited" ELSE "read_input"
  /\ wait' = Pause
  /\ tv_sec' = 0 /\ held' = IF input = Long THEN held ELSE 0
  /\ waits' = IF down \cap S # {} /\ First \in S THEN 0 ELSE waits
  /\ alone' = IF input = alone THEN NoInput ELSE alone

\* No input: usleep(10000).
NothingSent ==
  /\ wait' = 1
  /\ UNCHANGED <<io, tv_sec, held, sent, waits, alone>>

Polls == io = "read_input" /\ wait = 0

\* The reset switch comes first, and as long as it is down.
ReadReset ==
  /\ Polls /\ ResetDip \in down
  /\ Send(Reset, {ResetDip})
  /\ UNCHANGED <<sub, user>>

\* Then the lowest push switch that is down (mutant: the loop does not end at the
\* first).  1 is measured, 4 with 6 is an input of its own.
FoundLast(S) == Max(S)
Found(S) == Min(S)
Push == down \ {ResetDip}
SwitchInput == <<"1", "2", "3", "4", "5", "6", "7", "8", "9">>
ReadSwitch ==
  /\ Polls /\ ResetDip \notin down /\ Push # {}
  /\ LET j == Found(Push) IN
     \/ /\ j = 4 /\ 6 \in down
        /\ Send(Chord, {4, 6})
     \/ /\ j # 1 /\ ~(j = 4 /\ 6 \in down)
        /\ Send(SwitchInput[j], {j})
     \/ /\ j = 1
        /\ io' = "long" /\ tv_sec' = 0 /\ held' = 0
        /\ UNCHANGED <<wait, sent, waits, alone>>
  /\ UNCHANGED <<sub, user>>

\* Whole seconds have passed (mutant: one is enough).
ElapsedOne == tv_sec >= 1
has_one_second_elapsed == tv_sec >= 2

\* While 1 is down nothing else is read.
LongPoll ==
  /\ io = "long" /\ wait = 0
  /\ \/ has_one_second_elapsed /\ Send(Long, {1})
     \/ ~has_one_second_elapsed /\ 1 \notin down /\ Send(SwitchInput[1], {1})
     \/ ~has_one_second_elapsed /\ 1 \in down /\ NothingSent
  /\ UNCHANGED <<sub, user>>

\* Last the keys: all events are taken out of the device, the first one counts
\* (mutant: the last one counts).
LastCounts(evs) == evs[Len(evs)]
Counts(evs) == Head(evs)
ReadKey ==
  /\ Polls /\ down = {}
  /\ IF events # <<>> /\ Counts(events) \in Keys THEN Send(Counts(events), {}) ELSE NothingSent
  /\ events' = <<>>
  /\ UNCHANGED <<sub, down>>

read_input == ReadReset \/ ReadSwitch \/ LongPoll \/ ReadKey

----------------------------------------------------------------------------
(* Time and the user.                                                      *)

TimePasses ==
  /\ wait > 0 /\ io # "exited"
  /\ wait' = wait - 1
  /\ sub' = (sub + 1) % PerSecond
  /\ tv_sec' = IF io = "long" /\ sub' = 0 THEN Min({tv_sec + 1, 2}) ELSE tv_sec
  /\ held' = IF io = "long" THEN held + 1 ELSE held
  /\ waits' = IF down = {} THEN 0 ELSE waits + 1
  /\ UNCHANGED <<io, user, sent, alone>>

MoveSwitch(s) ==
  /\ down' = IF s \in down THEN down \ {s} ELSE down \cup {s}
  /\ waits' = IF down # {} /\ down' # {} /\ First' = First THEN waits ELSE 0
  /\ UNCHANGED <<io, wait, sub, tv_sec, events, sent, held, alone>>

\* A key is pressed, or sends another event: released, repeated.
KeyEvent(e) ==
  /\ Len(events) < MaxEvents
  /\ events' = Append(events, e)
  /\ alone' = IF events = <<>> /\ alone = NoInput /\ e \in Keys THEN e ELSE alone
  /\ UNCHANGED <<io, wait, sub, tv_sec, down, sent, held, waits>>

User ==
  /\ io # "exited"
  /\ \/ \E s \in Switches \cup {ResetDip} : MoveSwitch(s)
     \/ \E e \in Keys \cup {"other"} : KeyEvent(e)

ReaderNext == read_input \/ TimePasses \/ User

----------------------------------------------------------------------------
(* Properties.                                                             *)

\* A press that lasts is not lost.  Switches are read as levels, once a poll, not in
\* the half second after an input and not while 1 is measured: but the lowest switch
\* that is down is sent when it has been for half a second and one poll, the reset
\* switch and 1 itself at most two and a half seconds after they became it.  (Who still holds
\* it then sends it again.)
Patience == IF First \in {ResetDip, 1} THEN Pause + 2 * PerSecond ELSE Pause + 1
HeldIsSent == down # {} => waits <= Patience

\* ONE_LONG means that 1 was down for more than one second, and needs no more
\* than two: the seconds of tv_sec that began, not those that passed, are counted.
LongPressTimed ==
  sent = Long /\ io # "long" => held \in (PerSecond + 1)..(2 * PerSecond)

\* A key that finds the buffer of the device empty is sent, whatever comes after it
\* in the buffer, if the switches come to rest: they are read first and starve the
\* keys.
KeyArrives == <>[](down = {}) => (alone # NoInput ~> alone = NoInput)

=============================================================================
