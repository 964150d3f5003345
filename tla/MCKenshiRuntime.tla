-------------------------- MODULE MCKenshiRuntime --------------------------
(***************************************************************************)
(* Instances of KenshiRuntime for TLC: two agents and the name of the      *)
(* first with blanks around it.                                            *)
(***************************************************************************)
EXTENDS KenshiRuntime, TLC

CONSTANTS a1, a2, blank_a1

Stripped == a1 :> a1 @@ a2 :> a2 @@ blank_a1 :> a1

OwnLineage == [n \in Name |-> n]
=============================================================================
