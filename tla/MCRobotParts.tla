---------------------------- MODULE MCRobotParts ----------------------------
(***************************************************************************)
(* The route runtime state, the motor controller's firmware and the        *)
(* missions share no variable and are checked by one run: a behaviour is   *)
(* one of a single part, chosen at the start, while the others rest.       *)
(***************************************************************************)
EXTENDS Routes, Firmware, Missions

VARIABLE part

partsVars == <<part, vars, fwVars, missionVars>>

Parts == {"routes", "firmware", "missions"}

\* A part that rests does so in one of its initial states.
Rests ==
  /\ part # "routes" => dockLen = 0 /\ inTheWay = FALSE

PartsInit ==
  /\ part \in Parts
  /\ Rests
  /\ Init /\ FwInit /\ MissionsInit

PartsNext ==
  /\ UNCHANGED part
  /\ \/ part = "routes" /\ Next
     \/ part # "routes" /\ UNCHANGED vars
  /\ \/ part = "firmware" /\ FwNext
     \/ part # "firmware" /\ UNCHANGED fwVars
  /\ \/ part = "missions" /\ MissionsNext
     \/ part # "missions" /\ UNCHANGED missionVars

\* The fairness of the part that runs.
PartsFairness ==
  /\ WF_vars(part = "routes" /\ DockTargetReached)
  /\ WF_fwVars(part = "firmware" /\ Pass)
  /\ WF_fwVars(part = "firmware" /\ FwTick)

PartsSpec == PartsInit /\ [][PartsNext]_partsVars /\ PartsFairness
=============================================================================
