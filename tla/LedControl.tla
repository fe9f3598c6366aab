---------------------------- MODULE LedControl -----------------------------
(***************************************************************************)
(* control_led and kill_led of hw1: the main process forks a process that  *)
(* makes the LEDs blink, and kills the one before it.  SIGKILL takes       *)
(* effect some time after kill returns; until then the process may go on.  *)
(***************************************************************************)
EXTENDS Integers, FiniteSets

CONSTANTS
  Requests,    \* the arguments <<led1, led2, all>> of the calls in main_process
  Pids,        \* bound: process numbers of blinking processes
  ForkFails,   \* fork may fail
  MaxDeaths    \* bound: blinking processes that something else kills

ASSUME LedControlAssumption ==
  /\ \A r \in Requests : r[1] \in 1..128 /\ r[2] \in 1..128 /\ r[3] \in BOOLEAN
  /\ Pids \subseteq Nat \ {0}
  /\ ForkFails \in BOOLEAN /\ MaxDeaths \in Nat

VARIABLES
  main,      \* where the main process is
  request,   \* the arguments of the last call
  led_pid,   \* 0, the result of fork, -1 if that failed
  blinker,   \* what each process does next; "none" if there is no such process
  args,      \* the arguments it was forked with
  killed,    \* processes with SIGKILL pending
  led_addr,  \* the byte that the LEDs show
  deaths,    \* number of processes that something else killed
  others,    \* FALSE when the io and merge processes have been killed
  fresh,     \* history: led_addr was written since the last fork
  failed     \* history: a fork has failed

ledVars == <<main, request, led_pid, blinker, args, killed, led_addr, deaths, others, fresh, failed>>

Running == {"flash", "flash off", "first", "second"}

LedInit ==
  /\ main = "idle" /\ request = <<1, 1, FALSE>> /\ led_pid = 0
  /\ blinker = [p \in Pids |-> "none"] /\ killed = {}
  /\ args = [p \in Pids |-> <<1, 1, FALSE>>]
  /\ led_addr = 0 /\ deaths = 0 /\ others = TRUE /\ fresh = FALSE /\ failed = FALSE

----------------------------------------------------------------------------
(* The main process.                                                       *)

\* control_led with a new request, or kill_led at the end.  If led_pid is 0 there
\* is nothing to kill.
control_led ==
  /\ main = "idle"
  /\ request' \in Requests
  /\ main' = IF led_pid = 0 THEN "fork" ELSE "kill"
  /\ UNCHANGED <<led_pid, blinker, args, killed, led_addr, deaths, others, fresh, failed>>
kill_led ==
  /\ main = "idle"
  /\ main' = IF led_pid = 0 THEN "ended" ELSE "kill last"
  /\ UNCHANGED <<request, led_pid, blinker, args, killed, led_addr, deaths, others, fresh, failed>>

AfterKill == IF main \in {"kill", "wait"} THEN "fork" ELSE "ended"

\* kill(led_pid, 0) finds a process also when it is a zombie; kill(-1, ...) means
\* every process.
Exists(p) == IF p = -1 THEN TRUE ELSE blinker[p] # "none"
KillLed ==
  /\ main \in {"kill", "kill last"}
  /\ IF Exists(led_pid)
     THEN /\ killed' = killed \cup (IF led_pid = -1 THEN {p \in Pids : blinker[p] \in Running}
                                                    ELSE {led_pid})
          /\ others' = (others /\ led_pid # -1)
          /\ main' = IF main = "kill" THEN "wait" ELSE "wait last"
          /\ UNCHANGED led_pid
     ELSE /\ led_pid' = 0
          /\ main' = AfterKill
          /\ UNCHANGED <<killed, others>>
  /\ UNCHANGED <<request, blinker, args, led_addr, deaths, fresh, failed>>

\* led_pid is reset when the process is gone (mutant: only if it was not there).
KeptPid == led_pid
ResetPid == 0

\* waitpid returns when the process is a zombie (mutant: at once).
AnyTime(p) == TRUE
Dead(p) == IF p = -1 THEN TRUE ELSE blinker[p] = "zombie"
WaitLed ==
  /\ main \in {"wait", "wait last"}
  /\ Dead(led_pid)
  /\ blinker' = [p \in Pids |-> IF p = led_pid /\ blinker[p] = "zombie" THEN "none" ELSE blinker[p]]
  /\ killed' = killed \ {led_pid}
  /\ led_pid' = ResetPid
  /\ main' = AfterKill
  /\ UNCHANGED <<request, args, led_addr, deaths, others, fresh, failed>>

\* The child starts with the flash, if there is one.
FirstStep(all) == IF all THEN "flash" ELSE "first"
Fork ==
  /\ main = "fork"
  /\ \/ \E p \in Pids :
          /\ blinker[p] = "none"
          /\ blinker' = [blinker EXCEPT ![p] = FirstStep(request[3])]
          /\ args' = [args EXCEPT ![p] = request]
          /\ led_pid' = p
          /\ UNCHANGED failed
     \/ /\ ForkFails \/ \A p \in Pids : blinker[p] # "none"
        /\ led_pid' = -1
        /\ failed' = TRUE
        /\ UNCHANGED <<blinker, args>>
  /\ main' = "idle"
  /\ fresh' = FALSE
  /\ UNCHANGED <<request, killed, led_addr, deaths, others>>

LedMain == KillLed \/ WaitLed \/ Fork

----------------------------------------------------------------------------
(* The blinking process.                                                   *)

\* One write to the LEDs and the sleep after it.
Write(p, from, byte, to) ==
  /\ blinker[p] = from
  /\ led_addr' = byte
  /\ blinker' = [blinker EXCEPT ![p] = to]
  /\ fresh' = TRUE
  /\ UNCHANGED <<main, request, led_pid, args, killed, deaths, others, failed>>

\* The loop starts again (mutant: with its second half).
AgainSecond == "second"
Again == "first"
Blink(p) ==
  \/ Write(p, "flash", 255, "flash off")
  \/ Write(p, "flash off", 0, "first")
  \/ Write(p, "first", 128 \div args[p][1], "second")
  \/ Write(p, "second", 128 \div args[p][2], Again)

\* SIGKILL takes effect.
Die(p) ==
  /\ p \in killed /\ blinker[p] \in Running
  /\ blinker' = [blinker EXCEPT ![p] = "zombie"]
  /\ UNCHANGED <<main, request, led_pid, args, killed, led_addr, deaths, others, fresh, failed>>

\* Something else kills the process.
KilledByOther(p) ==
  /\ blinker[p] \in Running /\ deaths < MaxDeaths
  /\ deaths' = deaths + 1
  /\ blinker' = [blinker EXCEPT ![p] = "zombie"]
  /\ UNCHANGED <<main, request, led_pid, args, killed, led_addr, others, fresh, failed>>

LedNext ==
  \/ control_led \/ kill_led \/ LedMain
  \/ \E p \in Pids : Blink(p) \/ Die(p) \/ KilledByOther(p)

----------------------------------------------------------------------------
(* Properties.                                                             *)

\* Every blinking process, running or zombie, is the one that led_pid names: none
\* is left behind by control_led or kill_led, also when one has died by itself.  No
\* other process is killed before a fork fails.  (Then the next call kills -1, that
\* is the io and merge processes too.)
OneBlinker ==
  /\ \A p \in Pids : blinker[p] # "none" => led_pid = p
  /\ main = "ended" => led_pid = 0
  /\ others \/ failed

\* Once control_led has returned and its process has written, the LEDs show what
\* was asked for last: no write of the process before it comes later.
Shows(r) == {128 \div r[1], 128 \div r[2]} \cup (IF r[3] THEN {255, 0} ELSE {})
LedsFollowRequest == main = "idle" /\ fresh => led_addr \in Shows(request)

\* The LEDs go on blinking between the two patterns until the next call, unless
\* their process is killed by someone else.
Blinking == main = "idle" /\ \E p \in Pids : led_pid = p /\ blinker[p] \in Running
LedsBlink ==
  \A n \in {1, 2} : Blinking ~> (~Blinking \/ (fresh /\ led_addr = 128 \div request[n]))

=============================================================================
