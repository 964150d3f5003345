------------------------------ MODULE MCTools ------------------------------
(***************************************************************************)
(* SpiralGenome, Blackboard and FaceBus for TLC. They share nothing: what  *)
(* runs is one of them, whichever "part" says.                             *)
(***************************************************************************)
EXTENDS SpiralGenome, Blackboard, FaceBus

CONSTANTS a1, a2, blank_a1, phase, v1, v2

VARIABLE part

(* Two agents of the blackboard and the name of the first with blanks. *)
Stripped == a1 :> a1 @@ a2 :> a2 @@ blank_a1 :> a1

OwnLineage == [n \in Name |-> n]

Phases == {phase :> v1, phase :> v2}

Interchangeable == Permutations({v1, v2})

ToolsInit == part \in {"spiral", "blackboard", "bus"} /\ SpiralInit /\ Init /\ BusInit

ToolsNext ==
  \/ part = "spiral"     /\ SpiralNext /\ UNCHANGED <<part, vars, busVars>>
  \/ part = "blackboard" /\ Next       /\ UNCHANGED <<part, spiralVars, busVars>>
  \/ part = "bus"        /\ BusNext    /\ UNCHANGED <<part, spiralVars, vars>>

ToolsSpec == ToolsInit /\ [][ToolsNext]_<<part, spiralVars, vars, busVars>>
=============================================================================
