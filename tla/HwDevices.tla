----------------------------- MODULE HwDevices -----------------------------
(***************************************************************************)
(* The two parts of io.c with processes and time of their own, for TLC:    *)
(* the io process that reads the inputs, and the blinking process that     *)
(* main forks.  They share nothing, so a behaviour shows one of them.      *)
(***************************************************************************)
EXTENDS InputReader, LedControl

VARIABLE part

\* The calls in main_process: LED 1, 5, 3 and 4, 7 and 8; with the flash 1 and 5.
MainRequests ==
  {<<1, 1, FALSE>>, <<16, 16, FALSE>>, <<4, 8, FALSE>>, <<64, 128, FALSE>>,
   <<1, 1, TRUE>>, <<16, 16, TRUE>>}

devicesVars == <<part, readerVars, ledVars>>

DevicesInit == part \in {"input", "led"} /\ ReaderInit /\ LedInit

OfReader(A) == part = "input" /\ A /\ UNCHANGED <<part, ledVars>>
OfLed(A) == part = "led" /\ A /\ UNCHANGED <<part, readerVars>>

DevicesNext == OfReader(ReaderNext) \/ OfLed(LedNext)

\* The processes and the clock go on; nothing makes the user touch a switch or ask
\* for other LEDs.
DevicesFairness ==
  /\ WF_devicesVars(OfReader(read_input)) /\ WF_devicesVars(OfReader(TimePasses))
  /\ WF_devicesVars(OfLed(LedMain))
  /\ \A p \in Pids : WF_devicesVars(OfLed(Blink(p))) /\ WF_devicesVars(OfLed(Die(p)))

DevicesSpec == DevicesInit /\ [][DevicesNext]_devicesVars /\ DevicesFairness

=============================================================================
