------------------------------- MODULE MCBuzz -------------------------------
(***************************************************************************)
(* Instances of BuzzColony, BuzzPool, GladiusJobs and GolcronNode for TLC: *)
(* what runs is one of them, whichever "part" says.                        *)
(***************************************************************************)
EXTENDS BuzzColony, BuzzPool, GladiusJobs, GolcronNode

VARIABLE part

(* Two slices of one pool job, and one of the next. *)
Slices == [id : {1}, slice : {1, 2}] \union [id : {2}, slice : {1}]
FromCore == [id : {3}, slice : {1}]
Own == [id : {4}, slice : {1}]
Nothing == [id |-> 0, slice |-> 0]

(* Three slices of 2, the last of them short; two slices of 3. *)
Ranges == {[id |-> 1, range |-> 5], [id |-> 2, range |-> 6]}
ScanChannels == <<1, 6>>

(* One initial state of the parts that do not run. *)
BuzzInit ==
  /\ part \in {"colony", "pool", "gladius", "golcron"}
  /\ ColonyInit /\ PoolInit /\ GladiusInit /\ GolcronInit
  /\ part # "pool" => wifi
  /\ part # "golcron" => buzzChannel = 1

BuzzNext ==
  \/ part = "colony"  /\ ColonyNext  /\ UNCHANGED <<part, poolVars, gladiusVars, golcronVars>>
  \/ part = "pool"    /\ PoolNext    /\ UNCHANGED <<part, colonyVars, gladiusVars, golcronVars>>
  \/ part = "gladius" /\ GladiusNext /\ UNCHANGED <<part, colonyVars, poolVars, golcronVars>>
  \/ part = "golcron" /\ GolcronNext /\ UNCHANGED <<part, colonyVars, poolVars, gladiusVars>>

BuzzSpec ==
  BuzzInit /\ [][BuzzNext]_<<part, colonyVars, poolVars, gladiusVars, golcronVars>>
    /\ (part = "colony" => ColonyFairness)
    /\ (part = "golcron" => GolcronFairness)
=============================================================================
