----------------------------- MODULE Hw1Parts ------------------------------
(***************************************************************************)
(* Three parts of hw1 that share nothing in these models, for TLC: the     *)
(* processes when merge may die (KvFaults), the input and the LED process  *)
(* (HwDevices) and the linked list of tables (MetaList).  A behaviour      *)
(* shows one of them; the others stay as they begin.                       *)
(***************************************************************************)
EXTENDS KvFaults, HwDevices, MetaList

VARIABLE shown

partsVars == <<shown, vars, devicesVars, listVars>>

\* Of what is not shown one beginning is enough.
PartsInit ==
  /\ shown \in {"faults", "devices", "list"}
  /\ Init /\ DevicesInit /\ ListInit
  /\ shown # "faults" => storage_cnt = 0
  /\ shown # "devices" => part = "led" /\ sub = 0

OfFaults(A) == shown = "faults" /\ A /\ UNCHANGED <<shown, devicesVars, listVars>>
OfDevices(A) == shown = "devices" /\ A /\ UNCHANGED <<shown, vars, listVars>>
OfList(A) == shown = "list" /\ A /\ UNCHANGED <<shown, vars, devicesVars>>

PartsNext == OfFaults(FaultNext) \/ OfDevices(DevicesNext) \/ OfList(ListNext)

\* The fairness of FaultSpec and of DevicesSpec; nothing makes main put or merge.
PartsFairness ==
  /\ WF_partsVars(OfFaults(IoSend))
  /\ WF_partsVars(OfFaults(Main)) /\ WF_partsVars(OfFaults(Merge))
  /\ WF_partsVars(OfDevices(OfReader(read_input)))
  /\ WF_partsVars(OfDevices(OfReader(TimePasses)))
  /\ WF_partsVars(OfDevices(OfLed(LedMain)))
  /\ \A p \in Pids : /\ WF_partsVars(OfDevices(OfLed(Blink(p))))
                     /\ WF_partsVars(OfDevices(OfLed(Die(p))))

PartsSpec == PartsInit /\ [][PartsNext]_partsVars /\ PartsFairness

=============================================================================
