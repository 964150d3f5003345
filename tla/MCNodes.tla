------------------------------ MODULE MCNodes ------------------------------
(***************************************************************************)
(* NonceWalk, P4Worker and AnchorRadio for TLC. They share nothing: what   *)
(* runs is one of them, whichever "part" says.                             *)
(***************************************************************************)
EXTENDS MCNonceWalk, P4Worker, AnchorRadio

VARIABLE part

(* One initial state of the parts that do not run. *)
NodesInit ==
  /\ part \in {"walk", "p4", "radio"}
  /\ WalkInit /\ P4Init /\ RadioInit
  /\ part # "p4" => gJob.seed = 1 /\ mode = "IDLE"
  /\ part # "radio" => espNow = "up"

NodesNext ==
  \/ part = "walk"  /\ WalkNext  /\ UNCHANGED <<part, p4Vars, radioVars>>
  \/ part = "p4"    /\ P4Next    /\ UNCHANGED <<part, walkVars, radioVars>>
  \/ part = "radio" /\ RadioNext /\ UNCHANGED <<part, walkVars, p4Vars>>

NodesSpec == NodesInit /\ [][NodesNext]_<<part, walkVars, p4Vars, radioVars>>
=============================================================================
